---------------------------- MODULE IvBackfill ----------------------------
(***************************************************************************)
(* run_iv_backfill (src/briefing_app/backfill.py) beside the runs of       *)
(* run_pipeline of the same day, which draw on the same metered allowance  *)
(* of the provider and leave their status in the rows of briefing_run that *)
(* the backfill plans from.  On a plan without a daily count nothing is    *)
(* shared and nothing held back: Allowance is a number here.               *)
(*                                                                         *)
(* A step is one reservation, one answer with what is stored from it, or   *)
(* one row of briefing_run.  reserve() is taken as atomic here: what two   *)
(* processes do to each other's counter file is ProviderFetch's subject.   *)
(***************************************************************************)
EXTENDS RequestBudget

CONSTANTS
  Runs,           \* bound: the runs of run_pipeline of the day
  Pairs,          \* (ticker, session) pairs of the backfill, in its order
  LiveReserve,    \* reserve while no run of the day has finished
  RerunReserve,   \* reserve once one has
  MaxRequests,    \* max_requests, or NoCap
  NoCap,
  Attempts,       \* 1 + network_retries
  Backfills       \* bound: backfills started

ASSUME BackfillAssumption ==
  /\ Pairs \in Nat
  /\ Allowance \in Nat
  /\ LiveReserve \in Nat
  /\ RerunReserve \in Nat
  /\ NoCap \notin Nat
  /\ MaxRequests \in Nat \union {NoCap}
  /\ Attempts \in Nat \ {0}
  /\ Backfills \in Nat

MAX_CONSECUTIVE_FAILURES == 3

RunType == {"daily", "weekly"}

VARIABLES
  counter,   \* the provider's counter file of the day
  run,       \* the runs of run_pipeline: what each is and how far it is
  row,       \* row[t]: status of the briefing_run row of type t
  stored,    \* pairs whose option metrics are stored
  pc,        \* what the backfill does next
  bf,        \* its locals and its result
  started,   \* backfills started
  \* History, of the latest backfill:
  done,      \* modes of the runs that had finished when it planned
  spent,     \* requests it has claimed
  dry,       \* ... since it last had an answer it could use
  live,      \* requests live runs claimed since it planned
  refused    \* a live run was refused a request since then

history == <<done, spent, dry, live, refused>>
vars    == <<counter, run, row, stored, pc, bf, started, history>>

(* A run in fixture mode reads files and sends no request; its row of      *)
(* briefing_run is that of a live run of its type and date.                *)
Run == [type : RunType, mode : {"live", "fixture"},
        state : {"waiting", "running", "asking", "finished", "over"}]

PairIndex == 1 .. Pairs

Backfill == [next : 1 .. Pairs + 1, tries : 0 .. Attempts, reserve : Nat,
             cap : Nat, sent : Nat, failures : Nat, failed : Nat,
             exhausted : BOOLEAN, status : {"none", "running", "blocked",
                                            "partial", "succeeded"}]

NoBackfill == [next |-> 1, tries |-> 0, reserve |-> 0, cap |-> 0, sent |-> 0,
               failures |-> 0, failed |-> 0, exhausted |-> FALSE,
               status |-> "none"]

TypeOK ==
  /\ counter \in CounterFile /\ counter.count <= Allowance
  /\ run \in [Runs -> Run]
  /\ row \in [RunType -> {"none", "running", "finished", "failed"}]
  /\ stored \subseteq PairIndex
  /\ pc \in {"idle", "loop", "ask", "answer", "finish"}
  /\ bf \in Backfill
  /\ started \in 0 .. Backfills
  /\ done \subseteq {"live", "fixture"}
  /\ spent \in Nat /\ dry \in Nat /\ live \in Nat /\ refused \in BOOLEAN

Init ==
  /\ counter = Empty
  /\ run \in [Runs -> {q \in Run : q.state = "waiting"}]
  /\ row = [t \in RunType |-> "none"]
  /\ stored = {}
  /\ pc = "idle"
  /\ bf = NoBackfill
  /\ started = 0
  /\ done = {}
  /\ spent = 0 /\ dry = 0 /\ live = 0 /\ refused = FALSE

-----------------------------------------------------------------------------
(* The runs of the day (run_pipeline).  A run puts the row of its type     *)
(* back to running; one that is killed leaves the row as it is.  Of a row, *)
(* "finished" is succeeded or partial, "failed" failed or skipped.         *)
RunStarts(r) ==
  /\ run[r].state = "waiting"
  /\ run' = [run EXCEPT ![r].state = "running"]
  /\ row' = [row EXCEPT ![run[r].type] = "running"]
  /\ UNCHANGED <<counter, stored, pc, bf, started, history>>

LiveRequest(r) ==
  /\ run[r].state = "running" /\ run[r].mode = "live"
  /\ ~Exhausted(counter)
  /\ counter' = Reserved(counter)
  /\ live' = live + 1
  /\ run' = [run EXCEPT ![r].state = "asking"]
  /\ UNCHANGED <<row, stored, pc, bf, started, done, spent, dry, refused>>

LiveRefused(r) ==
  /\ run[r].state = "running" /\ run[r].mode = "live"
  /\ Exhausted(counter)
  /\ refused' = TRUE
  /\ UNCHANGED <<counter, run, row, stored, pc, bf, started, done, spent, dry,
                 live>>

(* What note_quota_exhausted makes of the file when the provider itself    *)
(* says that the day is spent.                                             *)
Throttled == IF LearnsFrom(counter) THEN Refused(counter) ELSE counter

LiveAnswer(r, throttled) ==
  /\ run[r].state = "asking"
  /\ counter' = IF throttled THEN Throttled ELSE counter
  /\ run' = [run EXCEPT ![r].state = "running"]
  /\ UNCHANGED <<row, stored, pc, bf, started, history>>

RunEnds(r, status) ==
  /\ run[r].state = "running"
  /\ run' = [run EXCEPT ![r].state =
                IF status = "finished" THEN "finished" ELSE "over"]
  /\ row' = [row EXCEPT ![run[r].type] = status]
  /\ UNCHANGED <<counter, stored, pc, bf, started, history>>

RunKilled(r) ==
  /\ run[r].state \in {"running", "asking"}
  /\ run' = [run EXCEPT ![r].state = "over"]
  /\ UNCHANGED <<counter, row, stored, pc, bf, started, history>>

-----------------------------------------------------------------------------
LiveRunStarted == \E t \in RunType : row[t] # "none"   \* mutant

(* _live_run_completed: the row of any run of the day that is not a        *)
(* backfill, whatever its mode.                                            *)
LiveRunCompleted == \E t \in RunType : row[t] = "finished"

(* plan_budget_reservation, and the cap of _request_cap.                   *)
Reserve == IF LiveRunCompleted THEN RerunReserve ELSE LiveReserve

SpendableAll == Remaining(counter)   \* mutant: nothing held back

Spendable ==
  IF Remaining(counter) > Reserve THEN Remaining(counter) - Reserve ELSE 0

RequestCap ==
  IF MaxRequests # NoCap /\ MaxRequests < Spendable THEN MaxRequests ELSE Spendable

(* A backfill is started: it plans its reservation, and is over at once    *)
(* when that leaves it nothing.                                            *)
Start ==
  /\ pc = "idle"
  /\ started < Backfills
  /\ started' = started + 1
  /\ done' = {q.mode : q \in {run[r] : r \in {x \in Runs : run[x].state = "finished"}}}
  /\ spent' = 0 /\ dry' = 0 /\ live' = 0 /\ refused' = FALSE
  /\ IF Spendable = 0
       THEN bf' = [NoBackfill EXCEPT !.status = "blocked"] /\ UNCHANGED pc
       ELSE /\ bf' = [NoBackfill EXCEPT !.reserve = Reserve, !.cap = RequestCap,
                                        !.status = "running"]
            /\ pc' = "loop"
  /\ UNCHANGED <<counter, run, row, stored>>

(* The head of the loop: no pair left, a stored pair passed over, the cap  *)
(* reached, too many failures in a row, or a pair to fetch.                *)
Head ==
  /\ pc = "loop"
  /\ bf.next <= Pairs
  /\ bf.next \notin stored
NextPair == bf' = [bf EXCEPT !.next = @ + 1, !.tries = 0]

LoopEnds ==
  /\ pc = "loop"
  /\ bf.next > Pairs
  /\ pc' = "finish"
  /\ UNCHANGED <<counter, run, row, stored, bf, started, history>>

Skip ==
  /\ pc = "loop"
  /\ bf.next <= Pairs
  /\ bf.next \in stored
  /\ NextPair
  /\ UNCHANGED <<counter, run, row, stored, pc, started, history>>

Stops == bf.sent >= bf.cap \/ bf.failures >= MAX_CONSECUTIVE_FAILURES

Stop ==
  /\ Head
  /\ Stops
  /\ pc' = "finish"
  /\ UNCHANGED <<counter, run, row, stored, bf, started, history>>

Fetch ==
  /\ Head
  /\ ~Stops
  /\ pc' = "ask"
  /\ UNCHANGED <<counter, run, row, stored, bf, started, history>>

(* One attempt: reserve() claims a request, or raises when the day is      *)
(* spent or the provider has said so, which ends the backfill.             *)
Ask ==
  /\ pc = "ask"
  /\ ~Exhausted(counter)
  /\ counter' = Reserved(counter)
  /\ spent' = spent + 1 /\ dry' = dry + 1
  /\ bf' = [bf EXCEPT !.tries = @ + 1]
  /\ pc' = "answer"
  /\ UNCHANGED <<run, row, stored, started, done, live, refused>>

BudgetSpent ==
  /\ pc = "ask"
  /\ Exhausted(counter)
  /\ bf' = [bf EXCEPT !.exhausted = TRUE, !.failures = @ + 1]
  /\ pc' = "finish"
  /\ UNCHANGED <<counter, run, row, stored, started, history>>

(* A network fault is tried again while attempts are left.                 *)
RetryOnceMore ==   \* mutant: network_retries counted one too many
  /\ pc = "answer"
  /\ bf.tries <= Attempts
  /\ pc' = "ask"
  /\ UNCHANGED <<counter, run, row, stored, bf, started, history>>

Retry ==
  /\ pc = "answer"
  /\ bf.tries < Attempts
  /\ pc' = "ask"
  /\ UNCHANGED <<counter, run, row, stored, bf, started, history>>

(* A usable answer is counted as sent, and its snapshot row stored.  A     *)
(* thin chain leaves metrics missing: the pair does not count as stored.   *)
Answers(complete) ==
  /\ pc = "answer"
  /\ bf' = [bf EXCEPT !.next = @ + 1, !.tries = 0, !.sent = @ + 1,
                      !.failures = 0]
  /\ stored' = IF complete THEN stored \union {bf.next} ELSE stored
  /\ dry' = 0
  /\ pc' = "loop"
  /\ UNCHANGED <<counter, run, row, started, done, spent, live,
                 refused>>

(* A pair fails: by an answer that says the quota is spent, which closes   *)
(* the day for every run; by another unusable answer or the last network   *)
(* fault; by a payload that does not make a snapshot row, the one failure  *)
(* that is counted as sent; or at an endpoint that the client has parked,  *)
(* before any request.                                                     *)
Verdict == {"throttled", "unusable", "no_row"}

FailedQuietly(verdict) ==   \* mutant: a failed pair not counted in a row
  /\ pc = "answer"
  /\ bf' = [bf EXCEPT !.next = @ + 1, !.tries = 0, !.failed = @ + 1,
                      !.sent = IF verdict = "no_row" THEN @ + 1 ELSE @]
  /\ counter' = IF verdict = "throttled" THEN Throttled ELSE counter
  /\ pc' = "loop"
  /\ UNCHANGED <<run, row, stored, started, history>>

Failed(verdict) ==
  /\ pc = "answer"
  /\ bf' = [bf EXCEPT !.next = @ + 1, !.tries = 0, !.failed = @ + 1,
                      !.sent = IF verdict = "no_row" THEN @ + 1 ELSE @,
                      !.failures = @ + 1]
  /\ counter' = IF verdict = "throttled" THEN Throttled ELSE counter
  /\ pc' = "loop"
  /\ UNCHANGED <<run, row, stored, started, history>>

Parked ==
  /\ pc = "ask"
  /\ bf' = [bf EXCEPT !.next = @ + 1, !.tries = 0, !.failed = @ + 1,
                      !.failures = @ + 1]
  /\ pc' = "loop"
  /\ UNCHANGED <<counter, run, row, stored, started, history>>

(* PLAN_GATED, raised before a request or answered to one, and SYNTHETIC:  *)
(* the pair fails and the backfill is over.                                *)
Unreachable ==
  /\ pc \in {"ask", "answer"}
  /\ bf' = [bf EXCEPT !.failed = @ + 1, !.failures = @ + 1]
  /\ pc' = "finish"
  /\ UNCHANGED <<counter, run, row, stored, started, history>>

(* _refresh_progress, BackfillResult.status and finish_briefing_run.       *)
StatusOfFailures ==   \* mutant: the pairs that remain not looked at
  IF bf.failed > 0 \/ bf.exhausted THEN "partial" ELSE "succeeded"

ResultStatus ==
  IF bf.failed > 0 \/ bf.exhausted \/ stored # PairIndex
    THEN "partial" ELSE "succeeded"

Finish ==
  /\ pc = "finish"
  /\ bf' = [bf EXCEPT !.status = ResultStatus]
  /\ pc' = "idle"
  /\ UNCHANGED <<counter, run, row, stored, started, history>>

(* The process is killed: what it has stored stays.                        *)
Crash ==
  /\ pc # "idle"
  /\ pc' = "idle"
  /\ UNCHANGED <<counter, run, row, stored, bf, started, history>>

-----------------------------------------------------------------------------
RunStep ==
  \E r \in Runs :
    \/ RunStarts(r)
    \/ LiveRequest(r)
    \/ LiveRefused(r)
    \/ \E throttled \in BOOLEAN : LiveAnswer(r, throttled)
    \/ \E status \in {"finished", "failed"} : RunEnds(r, status)
    \/ RunKilled(r)

BackfillStep ==
  \/ Start
  \/ LoopEnds
  \/ Skip
  \/ Stop
  \/ Fetch
  \/ Ask
  \/ BudgetSpent
  \/ Retry
  \/ \E complete \in BOOLEAN : Answers(complete)
  \/ \E verdict \in Verdict : Failed(verdict)
  \/ Parked
  \/ Unreachable
  \/ Finish
  \/ Crash

Next == RunStep \/ BackfillStep

Spec == Init /\ [][Next]_vars

-----------------------------------------------------------------------------
(* Until some run of the day has come to its end, what the backfill counts *)
(* as sent leaves the live reserve, and with the whole allowance in        *)
(* reserve, as on the free plan, it sends nothing at all:                  *)
(* plan_budget_reservation goes by rows that runs share, overwrite and     *)
(* leave behind when they are killed.                                      *)
WaitsForARun ==
  done = {} /\ spent > 0 =>
    LiveReserve < Allowance /\ bf.sent + LiveReserve <= Allowance

(* A live run that is refused a request after the backfill has planned has *)
(* had the reserve, or the provider itself has closed the day, or the      *)
(* backfill has lost the difference in requests that it does not count as  *)
(* sent: nothing else eats into the reserve.                               *)
StarvedOnlyByFailures ==
  refused /\ bf.status # "blocked" =>
    counter.refused \/ live + (spent - bf.sent) >= bf.reserve

(* A backfill whose endpoint does not answer stops: it never claims more   *)
(* than MAX_CONSECUTIVE_FAILURES pairs' attempts without a usable answer.  *)
DrySpellBounded == dry <= MAX_CONSECUTIVE_FAILURES * Attempts

(* A backfill says succeeded only when the metrics of every pair are in,   *)
(* whether it stored them or an earlier, perhaps killed, one did.          *)
SucceededIsComplete ==
  bf.status = "succeeded" => stored = PairIndex /\ bf.failed = 0
=============================================================================
