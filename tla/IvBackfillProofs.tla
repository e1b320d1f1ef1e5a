-------------------------- MODULE IvBackfillProofs --------------------------
(***************************************************************************)
(* What TLAPS proves of IvBackfill for every number of pairs, attempts and *)
(* backfills, every allowance, reserve and cap.                            *)
(***************************************************************************)
EXTENDS IvBackfill, TLAPS

(* What a backfill plans is a number of requests that leaves the reserve:  *)
(* what is spent, the reserve and the cap fit in the allowance.            *)
LEMMA PlanFits ==
  ASSUME TypeOK
  PROVE  /\ Reserve \in Nat /\ Spendable \in Nat /\ RequestCap \in Nat
         /\ RequestCap <= Spendable
         /\ Spendable > 0 => counter.count + Reserve + Spendable = Allowance
<1>1. /\ counter.count \in Nat /\ counter.count <= Allowance
      /\ Remaining(counter) = Allowance - counter.count
  <2>1. counter.count \in Nat /\ counter.count <= Allowance /\ ~Unlimited
    BY BackfillAssumption, BudgetAssumption DEF TypeOK, CounterFile, Unlimited
  <2>2. QED
    BY <2>1, BackfillAssumption DEF Remaining
<1>2. Reserve \in Nat
  BY BackfillAssumption DEF Reserve
<1>3. /\ Spendable \in Nat
      /\ Spendable > 0 => counter.count + Reserve + Spendable = Allowance
  BY <1>1, <1>2, BackfillAssumption DEF Spendable
<1>4. RequestCap \in Nat /\ RequestCap <= Spendable
  BY <1>3, BackfillAssumption DEF RequestCap
<1>5. QED
  BY <1>2, <1>3, <1>4

(* A backfill that plans starts from the locals of none.                   *)
LEMMA PlannedType ==
  ASSUME NEW reserve \in Nat, NEW cap \in Nat
  PROVE  /\ NoBackfill \in Backfill
         /\ [NoBackfill EXCEPT !.status = "blocked"] \in Backfill
         /\ [NoBackfill EXCEPT !.reserve = reserve, !.cap = cap,
                               !.status = "running"] \in Backfill
<1>1. 1 \in 1 .. Pairs + 1 /\ 0 \in 0 .. Attempts
  BY BackfillAssumption
<1>2. NoBackfill \in Backfill
  BY <1>1 DEF NoBackfill, Backfill
<1>3. QED
  BY <1>1, <1>2 DEF NoBackfill, Backfill

(* What the steps of the loop make of its locals.                          *)
LEMMA BackfillUpdates ==
  ASSUME NEW b \in Backfill, NEW n \in Nat
  PROVE  /\ [b EXCEPT !.exhausted = TRUE, !.failures = @ + 1] \in Backfill
         /\ [b EXCEPT !.failed = @ + 1, !.failures = @ + 1] \in Backfill
         /\ b.tries < Attempts => [b EXCEPT !.tries = @ + 1] \in Backfill
         /\ b.next <= Pairs =>
              /\ [b EXCEPT !.next = @ + 1, !.tries = 0] \in Backfill
              /\ [b EXCEPT !.next = @ + 1, !.tries = 0, !.sent = @ + 1,
                           !.failures = 0] \in Backfill
              /\ [b EXCEPT !.next = @ + 1, !.tries = 0, !.failed = @ + 1,
                           !.sent = n, !.failures = @ + 1] \in Backfill
              /\ [b EXCEPT !.next = @ + 1, !.tries = 0, !.failed = @ + 1,
                           !.failures = @ + 1] \in Backfill
<1> USE BackfillAssumption
<1>1. /\ b.failures + 1 \in Nat /\ b.failed + 1 \in Nat /\ b.sent + 1 \in Nat
      /\ 0 \in 0 .. Attempts /\ 0 \in Nat /\ TRUE \in BOOLEAN
      /\ b.tries < Attempts => b.tries + 1 \in 0 .. Attempts
      /\ b.next <= Pairs => b.next + 1 \in 1 .. Pairs + 1
  BY DEF Backfill
<1>2. [b EXCEPT !.exhausted = TRUE, !.failures = @ + 1] \in Backfill
  BY <1>1 DEF Backfill
<1>3. [b EXCEPT !.failed = @ + 1, !.failures = @ + 1] \in Backfill
  BY <1>1 DEF Backfill
<1>4. b.tries < Attempts => [b EXCEPT !.tries = @ + 1] \in Backfill
  BY <1>1 DEF Backfill
<1>5. ASSUME b.next <= Pairs
      PROVE  /\ [b EXCEPT !.next = @ + 1, !.tries = 0] \in Backfill
             /\ [b EXCEPT !.next = @ + 1, !.tries = 0, !.sent = @ + 1,
                          !.failures = 0] \in Backfill
  BY <1>1, <1>5 DEF Backfill
<1>6. ASSUME b.next <= Pairs
      PROVE  /\ [b EXCEPT !.next = @ + 1, !.tries = 0, !.failed = @ + 1,
                          !.sent = n, !.failures = @ + 1] \in Backfill
             /\ [b EXCEPT !.next = @ + 1, !.tries = 0, !.failed = @ + 1,
                          !.failures = @ + 1] \in Backfill
  BY <1>1, <1>6 DEF Backfill
<1>7. QED
  BY <1>2, <1>3, <1>4, <1>5, <1>6

-----------------------------------------------------------------------------
(* What holds where the backfill is: it fetches a pair that there is, with *)
(* attempts, cap and patience left, and says so in its row.                *)
LoopInv ==
  /\ pc = "loop" => bf.tries = 0
  /\ pc \in {"ask", "answer"} =>
       bf.next <= Pairs /\ bf.sent < bf.cap
       /\ bf.failures < MAX_CONSECUTIVE_FAILURES
  /\ pc = "ask" => bf.tries < Attempts
  /\ pc # "idle" => bf.status = "running"

TypeInv == TypeOK /\ LoopInv

(* What a reservation and a refusal make of the counter file: more than    *)
(* the allowance is never claimed, and a refusal keeps the count.          *)
LEMMA CounterUpdates ==
  ASSUME counter \in CounterFile, counter.count <= Allowance
  PROVE  /\ Throttled \in CounterFile /\ Throttled.count = counter.count
         /\ counter.refused => Throttled.refused
         /\ ~Exhausted(counter) =>
              /\ Reserved(counter) \in CounterFile
              /\ Reserved(counter).count = counter.count + 1
              /\ counter.count < Allowance /\ ~counter.refused
<1>1. /\ counter.count \in Nat /\ Allowance \in Nat /\ ~Unlimited
      /\ counter.refused \in BOOLEAN
  BY BackfillAssumption, BudgetAssumption DEF CounterFile, Unlimited
<1>2. /\ Throttled \in CounterFile /\ Throttled.count = counter.count
      /\ counter.refused => Throttled.refused
  BY DEF Throttled, Refused, CounterFile
<1>3. ASSUME ~Exhausted(counter)
      PROVE  /\ Reserved(counter) \in CounterFile
             /\ Reserved(counter).count = counter.count + 1
             /\ counter.count < Allowance /\ ~counter.refused
  <2>1. ~counter.refused /\ counter.count < Allowance
    BY <1>1, <1>3 DEF Exhausted
  <2>2. QED
    BY <1>1, <2>1 DEF Reserved, CounterFile
<1>4. QED
  BY <1>2, <1>3

(* A step of one run leaves the others what they are.                      *)
LEMMA RunUpdates ==
  ASSUME run \in [Runs -> Run], NEW r \in Runs,
         NEW s \in {"waiting", "running", "asking", "finished", "over"}
  PROVE  /\ [run EXCEPT ![r].state = s] \in [Runs -> Run]
         /\ run[r] \in Run /\ run[r].type \in RunType
<1>1. run[r] \in Run /\ run[r].type \in RunType
  BY DEF Run
<1>2. [run[r] EXCEPT !.state = s] \in Run
  BY <1>1 DEF Run
<1>3. QED
  BY <1>1, <1>2

(* No step takes a variable out of its type, or the loop off its path.     *)
LEMMA TypeStep == TypeInv /\ [Next]_vars => TypeInv'
<1> SUFFICES ASSUME TypeInv, [Next]_vars PROVE TypeInv'
  OBVIOUS
<1> USE BackfillAssumption DEF TypeInv, TypeOK, LoopInv
<1>1. ASSUME NEW r \in Runs,
             \/ RunStarts(r)
             \/ \E status \in {"finished", "failed"} : RunEnds(r, status)
             \/ RunKilled(r)
      PROVE  TypeInv'
  <2>1. run' \in [Runs -> Run]
    <3>1. PICK s \in {"running", "finished", "over"} :
                 run' = [run EXCEPT ![r].state = s]
      BY <1>1 DEF RunStarts, RunEnds, RunKilled
    <3>2. [run EXCEPT ![r].state = s] \in [Runs -> Run]
      BY RunUpdates
    <3>3. QED
      BY <3>1, <3>2
  <2>2. row' \in [RunType -> {"none", "running", "finished", "failed"}]
    BY <1>1, RunUpdates DEF RunStarts, RunEnds, RunKilled
  <2>3. UNCHANGED <<counter, stored, pc, bf, started, history>>
    BY <1>1 DEF RunStarts, RunEnds, RunKilled
  <2>4. QED
    BY <2>1, <2>2, <2>3 DEF history
<1>2. ASSUME NEW r \in Runs, LiveRequest(r) PROVE TypeInv'
  <2>1. counter' \in CounterFile /\ counter'.count <= Allowance
    BY <1>2, CounterUpdates DEF LiveRequest, CounterFile
  <2>2. run' \in [Runs -> Run]
    <3>1. run' = [run EXCEPT ![r].state = "asking"]
      BY <1>2 DEF LiveRequest
    <3>2. QED
      BY <3>1, RunUpdates
  <2>3. live' \in Nat
    BY <1>2 DEF LiveRequest
  <2>4. QED
    BY <1>2, <2>1, <2>2, <2>3 DEF LiveRequest
<1>2a. ASSUME NEW r \in Runs, LiveRefused(r) PROVE TypeInv'
  BY <1>2a DEF LiveRefused
<1>3. ASSUME NEW r \in Runs, NEW throttled \in BOOLEAN,
             LiveAnswer(r, throttled)
      PROVE  TypeInv'
  <2>1. counter' \in CounterFile /\ counter'.count <= Allowance
    BY <1>3, CounterUpdates DEF LiveAnswer
  <2>2. run' \in [Runs -> Run]
    BY <1>3, RunUpdates DEF LiveAnswer
  <2>3. QED
    BY <1>3, <2>1, <2>2 DEF LiveAnswer, history
<1>4. CASE Start
  <2>3. counter' = counter /\ run' = run
    BY <1>4 DEF Start
  <2>5. done' \subseteq {"live", "fixture"}
    <3>1. \A r \in Runs : run[r].mode \in {"live", "fixture"}
      BY DEF Run
    <3>2. QED
      BY <1>4, <3>1 DEF Start
  <2>1. CASE Spendable = 0
    <3>1. bf' \in Backfill
      BY <1>4, <2>1, PlannedType DEF Start
    <3>2. pc' = "idle" /\ started' \in 0 .. Backfills
      BY <1>4, <2>1 DEF Start
    <3>3. QED
      BY <1>4, <2>3, <2>5, <3>1, <3>2 DEF Start
  <2>2. CASE Spendable # 0
    <3>1. bf' = [NoBackfill EXCEPT !.reserve = Reserve, !.cap = RequestCap,
                                   !.status = "running"]
      BY <1>4, <2>2 DEF Start
    <3>2. bf' \in Backfill
      BY <3>1, PlanFits, PlannedType
    <3>3. bf'.tries = 0 /\ bf'.status = "running"
      BY <3>1 DEF NoBackfill
    <3>4. pc' = "loop" /\ started' \in 0 .. Backfills
      BY <1>4, <2>2 DEF Start
    <3>5. QED
      BY <1>4, <2>3, <2>5, <3>2, <3>3, <3>4 DEF Start
  <2>6. QED
    BY <2>1, <2>2
<1>5. CASE LoopEnds
  BY <1>5 DEF LoopEnds, history
<1>6. CASE Skip
  <2>1. bf' \in Backfill /\ bf'.tries = 0 /\ bf'.status = bf.status
    BY <1>6, BackfillUpdates DEF Skip, NextPair, Backfill
  <2>2. QED
    BY <1>6, <2>1 DEF Skip, history
<1>7. CASE Stop
  BY <1>7 DEF Stop, Head, history
<1>8. CASE Fetch
  <2>1. bf.sent < bf.cap /\ bf.failures < MAX_CONSECUTIVE_FAILURES
    BY <1>8 DEF Fetch, Stops, Backfill, MAX_CONSECUTIVE_FAILURES
  <2>2. QED
    BY <1>8, <2>1 DEF Fetch, Head, history
<1>9. CASE Ask
  <2>1. bf' \in Backfill
    BY <1>9, BackfillUpdates DEF Ask
  <2>2. /\ bf'.next = bf.next /\ bf'.sent = bf.sent /\ bf'.cap = bf.cap
        /\ bf'.failures = bf.failures /\ bf'.status = bf.status
    BY <1>9 DEF Ask, Backfill
  <2>3. /\ counter' \in CounterFile /\ counter'.count <= Allowance
        /\ spent' \in Nat /\ dry' \in Nat
    BY <1>9, CounterUpdates DEF Ask, CounterFile
  <2>4. QED
    BY <1>9, <2>1, <2>2, <2>3 DEF Ask
<1>10. CASE BudgetSpent
  <2>1. bf' \in Backfill /\ bf'.status = bf.status
    BY <1>10, BackfillUpdates DEF BudgetSpent, Backfill
  <2>2. QED
    BY <1>10, <2>1 DEF BudgetSpent, history
<1>11. CASE Retry
  BY <1>11 DEF Retry, history
<1>12. ASSUME NEW complete \in BOOLEAN, Answers(complete) PROVE TypeInv'
  <2>1. bf' \in Backfill /\ bf'.tries = 0 /\ bf'.status = bf.status
    BY <1>12, BackfillUpdates DEF Answers, Backfill
  <2>2. stored' \subseteq PairIndex
    BY <1>12 DEF Answers, Backfill, PairIndex
  <2>3. QED
    BY <1>12, <2>1, <2>2 DEF Answers
<1>13. ASSUME NEW verdict \in Verdict, Failed(verdict) PROVE TypeInv'
  <2> DEFINE n == IF verdict = "no_row" THEN bf.sent + 1 ELSE bf.sent
  <2>1. n \in Nat
    BY DEF Backfill
  <2>2. bf' = [bf EXCEPT !.next = @ + 1, !.tries = 0, !.failed = @ + 1,
                         !.sent = n, !.failures = @ + 1]
    BY <1>13 DEF Failed
  <2> HIDE DEF n
  <2>3. bf \in Backfill /\ bf.next <= Pairs
    BY <1>13 DEF Failed
  <2>4. bf' \in Backfill
    BY <2>1, <2>2, <2>3, BackfillUpdates
  <2>5. bf'.tries = 0 /\ bf'.status = bf.status
    BY <2>2, <2>3 DEF Backfill
  <2>6. counter' \in CounterFile /\ counter'.count <= Allowance
    BY <1>13, CounterUpdates DEF Failed
  <2>7. QED
    BY <1>13, <2>4, <2>5, <2>6 DEF Failed, history
<1>14. CASE Parked
  <2>1. bf' \in Backfill /\ bf'.tries = 0 /\ bf'.status = bf.status
    BY <1>14, BackfillUpdates DEF Parked, Backfill
  <2>2. QED
    BY <1>14, <2>1 DEF Parked, history
<1>15. CASE Unreachable
  <2>1. bf' \in Backfill /\ bf'.status = bf.status
    BY <1>15, BackfillUpdates DEF Unreachable, Backfill
  <2>2. QED
    BY <1>15, <2>1 DEF Unreachable, history
<1>16. CASE Finish
  <2>1. ResultStatus \in {"partial", "succeeded"}
    BY DEF ResultStatus
  <2>2. bf' \in Backfill
    BY <1>16, <2>1 DEF Finish, Backfill
  <2>3. QED
    BY <1>16, <2>2 DEF Finish, history
<1>17. CASE Crash
  BY <1>17 DEF Crash, history
<1>18. CASE UNCHANGED vars
  BY <1>18 DEF vars, history
<1>19. QED
  BY <1>1, <1>2, <1>3, <1>4, <1>5, <1>6, <1>7, <1>8, <1>9, <1>10, <1>11,
     <1>12, <1>13, <1>14, <1>15, <1>16, <1>17, <1>18, <1>2a
  DEF Next, RunStep, BackfillStep

(* The initial state is well typed. *)
LEMMA TypeInit == Init => TypeInv
<1> SUFFICES ASSUME Init PROVE TypeInv
  OBVIOUS
<1>1. bf \in Backfill
  BY PlannedType DEF Init
<1>2. TypeOK
  <2>1. /\ row \in [RunType -> {"none", "running", "finished", "failed"}]
        /\ run \in [Runs -> Run]
    BY DEF Init
  <2>2. /\ counter \in CounterFile /\ counter.count <= Allowance
        /\ started \in 0 .. Backfills
    BY BackfillAssumption DEF Init, Empty, CounterFile
  <2>3. stored \subseteq PairIndex
    BY DEF Init
  <2>4. QED
    BY <1>1, <2>1, <2>2, <2>3 DEF Init, TypeOK
<1>3. LoopInv
  BY DEF Init, LoopInv
<1>4. QED
  BY <1>2, <1>3 DEF TypeInv

(* Every variable keeps its type: the counter stays within the allowance,  *)
(* no pair is asked for more often than its attempts.                      *)
THEOREM TypeCorrect == Spec => []TypeOK
<1>1. TypeInv => TypeOK
  BY DEF TypeInv
<1>2. QED
  BY <1>1, TypeInit, TypeStep, PTL DEF Spec

-----------------------------------------------------------------------------
(* The books: what a live run and the backfill have claimed since the plan *)
(* comes on top of what was claimed before it, which left room for the     *)
(* reserve and the cap; the usable requests of the backfill fit in its     *)
(* cap; and a live run is only refused once the day is spent, by the count *)
(* or by the provider.                                                     *)
AccountInv ==
  /\ bf.sent <= bf.cap
  /\ counter.count + bf.reserve + bf.cap <= Allowance + live + spent
  /\ refused => Exhausted(counter)

(* What the steps that are about other things leave alone.                 *)
Accounts == <<counter, live, spent, refused, bf.sent, bf.cap, bf.reserve>>

LEMMA AccountsKept ==
  ASSUME AccountInv, UNCHANGED Accounts
  PROVE  AccountInv'
BY DEF AccountInv, Accounts, Exhausted

(* A refusal keeps the books and leaves an exhausted day exhausted.        *)
LEMMA ThrottledIsExhausted ==
  ASSUME counter \in CounterFile, counter.count <= Allowance,
         Exhausted(counter)
  PROVE  Exhausted(Throttled)
<1>1. /\ Throttled.count = counter.count
      /\ counter.refused => Throttled.refused
  BY CounterUpdates
<1>2. QED
  BY <1>1 DEF Exhausted

(* No step of the backfill or of a live run upsets the books.              *)
LEMMA AccountStep == TypeInv /\ AccountInv /\ [Next]_vars => AccountInv'
<1> SUFFICES ASSUME TypeInv, AccountInv, [Next]_vars PROVE AccountInv'
  OBVIOUS
<1> USE BackfillAssumption
<1>1. /\ bf \in Backfill /\ counter \in CounterFile
      /\ counter.count \in Nat /\ counter.count <= Allowance
      /\ live \in Nat /\ spent \in Nat
      /\ bf.sent \in Nat /\ bf.cap \in Nat /\ bf.reserve \in Nat
  BY DEF TypeInv, TypeOK, CounterFile, Backfill
<1>2. CASE RunStep
  <2>1. ASSUME NEW r \in Runs, LiveRequest(r) PROVE AccountInv'
    <3>1. /\ counter'.count = counter.count + 1 /\ ~Exhausted(counter)
          /\ live' = live + 1
      BY <1>1, <2>1, CounterUpdates DEF LiveRequest
    <3>2. UNCHANGED <<bf, spent, refused>>
      BY <2>1 DEF LiveRequest
    <3>3. QED
      BY <1>1, <3>1, <3>2 DEF AccountInv
  <2>2. ASSUME NEW r \in Runs, LiveRefused(r) PROVE AccountInv'
    BY <2>2 DEF LiveRefused, AccountInv
  <2>3. ASSUME NEW r \in Runs, NEW throttled \in BOOLEAN,
               LiveAnswer(r, throttled)
        PROVE  AccountInv'
    <3>1. UNCHANGED <<bf, live, spent, refused>>
      BY <2>3 DEF LiveAnswer, history
    <3>2. counter' = counter \/ counter' = Throttled
      BY <2>3 DEF LiveAnswer
    <3>3. counter'.count = counter.count
      BY <1>1, <3>2, CounterUpdates
    <3>4. refused => Exhausted(counter)'
      BY <1>1, <3>2, ThrottledIsExhausted DEF AccountInv, Exhausted
    <3>5. QED
      BY <1>1, <3>1, <3>3, <3>4 DEF AccountInv
  <2>4. ASSUME NEW r \in Runs, NEW status \in {"finished", "failed"},
               RunStarts(r) \/ RunEnds(r, status) \/ RunKilled(r)
        PROVE  AccountInv'
    BY <2>4, AccountsKept DEF RunStarts, RunEnds, RunKilled, history, Accounts
  <2>5. QED
    BY <1>2, <2>1, <2>2, <2>3, <2>4 DEF RunStep
<1>3. CASE Start
  <2>1. counter' = counter /\ spent' = 0 /\ live' = 0 /\ ~refused'
    BY <1>3 DEF Start
  <2>2. CASE Spendable = 0
    <3>1. bf'.sent = 0 /\ bf'.cap = 0 /\ bf'.reserve = 0
      BY <1>3, <2>2 DEF Start, NoBackfill
    <3>2. QED
      BY <1>1, <2>1, <3>1 DEF AccountInv
  <2>3. CASE Spendable # 0
    <3>1. bf' = [NoBackfill EXCEPT !.reserve = Reserve, !.cap = RequestCap,
                                   !.status = "running"]
      BY <1>3, <2>3 DEF Start
    <3>2. bf'.sent = 0 /\ bf'.cap = RequestCap /\ bf'.reserve = Reserve
      BY <3>1 DEF NoBackfill
    <3>3. /\ RequestCap \in Nat /\ Reserve \in Nat
          /\ counter.count + Reserve + RequestCap <= Allowance
      BY <1>1, <2>3, PlanFits DEF TypeInv
    <3>4. QED
      BY <1>1, <2>1, <3>2, <3>3 DEF AccountInv
  <2>4. QED
    BY <2>2, <2>3
<1>4. CASE Ask
  <2>1. bf'.sent = bf.sent /\ bf'.cap = bf.cap /\ bf'.reserve = bf.reserve
    BY <1>1, <1>4 DEF Ask, Backfill
  <2>2. /\ counter'.count = counter.count + 1 /\ ~Exhausted(counter)
        /\ spent' = spent + 1 /\ UNCHANGED <<live, refused>>
    BY <1>1, <1>4, CounterUpdates DEF Ask
  <2>3. QED
    BY <1>1, <2>1, <2>2 DEF AccountInv
<1>5. ASSUME (\E complete \in BOOLEAN : Answers(complete))
             \/ \E verdict \in Verdict : Failed(verdict)
      PROVE  AccountInv'
  <2>1. bf.sent < bf.cap
    BY <1>5 DEF Answers, Failed, TypeInv, LoopInv
  <2>2. /\ bf'.sent \in {bf.sent, bf.sent + 1}
        /\ bf'.cap = bf.cap /\ bf'.reserve = bf.reserve
    BY <1>1, <1>5 DEF Answers, Failed, Backfill
  <2>3. /\ UNCHANGED <<live, spent, refused>>
        /\ counter' = counter \/ counter' = Throttled
    BY <1>5 DEF Answers, Failed, history
  <2>4. counter'.count = counter.count
    BY <1>1, <2>3, CounterUpdates
  <2>5. refused => Exhausted(counter)'
    BY <1>1, <2>3, ThrottledIsExhausted DEF AccountInv, Exhausted
  <2>6. QED
    BY <1>1, <2>1, <2>2, <2>3, <2>4, <2>5 DEF AccountInv
<1>6. CASE LoopEnds \/ Stop \/ Fetch \/ Retry \/ Crash \/ UNCHANGED vars
  BY <1>6, AccountsKept
  DEF LoopEnds, Stop, Fetch, Retry, Crash, vars, history, Accounts
<1>7. CASE Skip \/ BudgetSpent \/ Parked \/ Unreachable \/ Finish
  <2>1. bf'.sent = bf.sent /\ bf'.cap = bf.cap /\ bf'.reserve = bf.reserve
    BY <1>1, <1>7
    DEF Skip, NextPair, BudgetSpent, Parked, Unreachable, Finish, Backfill
  <2>2. QED
    BY <1>7, <2>1, AccountsKept
    DEF Skip, BudgetSpent, Parked, Unreachable, Finish, history, Accounts
<1>8. QED
  BY <1>2, <1>3, <1>4, <1>5, <1>6, <1>7 DEF Next, BackfillStep

(* A live run that is refused a request on a day that the provider has not *)
(* closed has had the reserve, but for what the backfill spent on requests *)
(* it does not count: whatever the allowance, the reserve and the cap, and *)
(* however many runs there are and however they interleave.                *)
THEOREM ReserveKept == Spec => []StarvedOnlyByFailures
<1>1. Init => AccountInv
  BY BackfillAssumption DEF Init, AccountInv, NoBackfill, Empty
<1>2. TypeInv /\ AccountInv => StarvedOnlyByFailures
  <2> SUFFICES ASSUME TypeInv, AccountInv, refused, ~counter.refused
               PROVE  live + (spent - bf.sent) >= bf.reserve
    BY DEF StarvedOnlyByFailures
  <2>1. /\ counter.count \in Nat /\ Allowance \in Nat
        /\ live \in Nat /\ spent \in Nat
        /\ bf.sent \in Nat /\ bf.cap \in Nat /\ bf.reserve \in Nat
    BY BackfillAssumption DEF TypeInv, TypeOK, Backfill, CounterFile
  <2>2. counter.count >= Allowance
    BY DEF AccountInv, Exhausted
  <2>3. QED
    BY <2>1, <2>2 DEF AccountInv
<1>3. QED
  BY <1>1, <1>2, TypeInit, TypeStep, AccountStep, PTL DEF Spec

-----------------------------------------------------------------------------
(* Without a usable answer, a backfill has spent at most the attempts of   *)
(* the pairs that failed in a row, and those of the pair it is at.         *)
QuietInv ==
  /\ dry <= MAX_CONSECUTIVE_FAILURES * Attempts
  /\ pc = "loop" =>
       /\ dry <= bf.failures * Attempts
       /\ bf.failures <= MAX_CONSECUTIVE_FAILURES
  /\ pc \in {"ask", "answer"} => dry <= bf.failures * Attempts + bf.tries

(* One more failed pair makes room for its attempts.                       *)
LEMMA OneMorePair ==
  ASSUME NEW f \in Nat, NEW tries \in 0 .. Attempts, NEW d \in Nat,
         f < MAX_CONSECUTIVE_FAILURES, d <= f * Attempts + tries
  PROVE  /\ d <= (f + 1) * Attempts
         /\ d <= MAX_CONSECUTIVE_FAILURES * Attempts
         /\ f + 1 <= MAX_CONSECUTIVE_FAILURES
<1>1. f \in {0, 1, 2} /\ Attempts \in Nat
  BY BackfillAssumption DEF MAX_CONSECUTIVE_FAILURES
<1>2. CASE f = 0
  BY <1>1, <1>2 DEF MAX_CONSECUTIVE_FAILURES
<1>3. CASE f = 1
  BY <1>1, <1>3 DEF MAX_CONSECUTIVE_FAILURES
<1>4. CASE f = 2
  BY <1>1, <1>4 DEF MAX_CONSECUTIVE_FAILURES
<1>5. QED
  BY <1>1, <1>2, <1>3, <1>4

(* No step lets a dry spell outgrow the pairs that failed.                 *)
LEMMA QuietStep == TypeInv /\ QuietInv /\ [Next]_vars => QuietInv'
<1> SUFFICES ASSUME TypeInv, QuietInv, [Next]_vars PROVE QuietInv'
  OBVIOUS
<1> USE BackfillAssumption
<1>1. /\ bf \in Backfill /\ dry \in Nat /\ Attempts \in Nat
      /\ bf.failures \in Nat /\ bf.tries \in 0 .. Attempts
  BY DEF TypeInv, TypeOK, Backfill
<1>2. pc \in {"ask", "answer"} =>
        /\ dry <= (bf.failures + 1) * Attempts
        /\ bf.failures + 1 <= MAX_CONSECUTIVE_FAILURES
  BY <1>1, OneMorePair DEF TypeInv, LoopInv, QuietInv
<1>3. CASE RunStep
  BY <1>3
  DEF RunStep, RunStarts, LiveRequest, LiveRefused, LiveAnswer, RunEnds,
      RunKilled, history, QuietInv
<1>4. CASE Start
  <2>1. dry' = 0 /\ pc' \in {"idle", "loop"}
    BY <1>4 DEF Start, TypeInv, TypeOK
  <2>2. bf'.failures = 0
    BY <1>4 DEF Start, NoBackfill
  <2>3. QED
    BY <1>1, <2>1, <2>2 DEF QuietInv, MAX_CONSECUTIVE_FAILURES
<1>5. CASE Skip
  BY <1>1, <1>5 DEF Skip, NextPair, Backfill, history, QuietInv
<1>6. CASE LoopEnds \/ Stop \/ Retry \/ Crash \/ UNCHANGED vars
  BY <1>1, <1>6
  DEF LoopEnds, Stop, Head, Retry, Crash, vars, history, QuietInv
<1>7. CASE Fetch
  <2>1. pc = "loop" /\ bf' = bf /\ dry' = dry /\ pc' = "ask"
    BY <1>7 DEF Fetch, Head, history
  <2>2. bf.failures * Attempts \in Nat
    BY <1>1
  <2>3. QED
    BY <1>1, <2>1, <2>2 DEF QuietInv
<1>8. CASE Ask
  <2>1. /\ pc = "ask" /\ pc' = "answer" /\ dry' = dry + 1
        /\ bf'.failures = bf.failures /\ bf'.tries = bf.tries + 1
    BY <1>1, <1>8 DEF Ask, Backfill
  <2>2. dry + 1 <= bf.failures * Attempts + (bf.tries + 1)
    BY <1>1, <2>1 DEF QuietInv
  <2>3. bf.tries + 1 \in 0 .. Attempts
    BY <1>1, <2>1 DEF TypeInv, LoopInv
  <2>4. dry + 1 <= MAX_CONSECUTIVE_FAILURES * Attempts
    BY <1>1, <2>1, <2>2, <2>3, OneMorePair DEF TypeInv, LoopInv
  <2>5. QED
    BY <2>1, <2>2, <2>4 DEF QuietInv
<1>9. ASSUME NEW complete \in BOOLEAN, Answers(complete) PROVE QuietInv'
  <2>1. dry' = 0 /\ pc' = "loop" /\ bf'.failures = 0
    BY <1>1, <1>9 DEF Answers, Backfill
  <2>2. QED
    BY <1>1, <2>1 DEF QuietInv, MAX_CONSECUTIVE_FAILURES
<1>10. ASSUME (\E verdict \in Verdict : Failed(verdict)) \/ Parked
       PROVE  QuietInv'
  <2>1. /\ pc \in {"ask", "answer"} /\ pc' = "loop" /\ dry' = dry
        /\ bf'.failures = bf.failures + 1
    BY <1>1, <1>10 DEF Failed, Parked, Backfill, history
  <2>2. QED
    BY <1>2, <2>1 DEF QuietInv
<1>11. CASE BudgetSpent \/ Unreachable \/ Finish
  BY <1>11 DEF BudgetSpent, Unreachable, Finish, history, QuietInv
<1>12. QED
  BY <1>3, <1>4, <1>5, <1>6, <1>7, <1>8, <1>9, <1>10, <1>11
  DEF Next, BackfillStep

(* A dead endpoint costs a backfill at most the attempts of                *)
(* MAX_CONSECUTIVE_FAILURES pairs, for every number of attempts.           *)
THEOREM DeadEndpointLeft == Spec => []DrySpellBounded
<1>1. Init => QuietInv
  BY BackfillAssumption DEF Init, QuietInv, MAX_CONSECUTIVE_FAILURES
<1>2. QuietInv => DrySpellBounded
  BY DEF QuietInv, DrySpellBounded
<1>3. QED
  BY <1>1, <1>2, TypeInit, TypeStep, QuietStep, PTL DEF Spec

-----------------------------------------------------------------------------
(* A row says finished only when some run has finished that wrote it.      *)
RowInv ==
  \A t \in RunType : row[t] = "finished" =>
    \E r \in Runs : run[r].type = t /\ run[r].state = "finished"

(* A run that has finished stays so, and a row is written by its end.      *)
LEMMA RowStep == TypeInv /\ RowInv /\ [Next]_vars => RowInv'
<1> SUFFICES ASSUME TypeInv, RowInv, [Next]_vars,
                    NEW t \in RunType, row'[t] = "finished"
             PROVE  \E r \in Runs : run'[r].type = t /\ run'[r].state = "finished"
  BY DEF RowInv
<1>1. run \in [Runs -> Run] /\ row \in [RunType -> {"none", "running", "finished", "failed"}]
  BY DEF TypeInv, TypeOK
<1>2. ASSUME row[t] = "finished",
             \A r \in Runs : run[r].state = "finished" => run'[r] = run[r]
      PROVE  \E r \in Runs : run'[r].type = t /\ run'[r].state = "finished"
  BY <1>2 DEF RowInv
<1>3. ASSUME NEW x \in Runs, RunStarts(x) \/ RunEnds(x, "failed")
      PROVE  \E r \in Runs : run'[r].type = t /\ run'[r].state = "finished"
  <2>1. row[t] = "finished"
    BY <1>1, <1>3 DEF RunStarts, RunEnds
  <2>2. \A r \in Runs : run[r].state = "finished" => run'[r] = run[r]
    BY <1>1, <1>3 DEF RunStarts, RunEnds
  <2>3. QED
    BY <1>2, <2>1, <2>2
<1>4. ASSUME NEW x \in Runs, RunEnds(x, "finished")
      PROVE  \E r \in Runs : run'[r].type = t /\ run'[r].state = "finished"
  <2>1. run[x] \in Run /\ run'[x] = [run[x] EXCEPT !.state = "finished"]
    BY <1>1, <1>4 DEF RunEnds
  <2>2. run'[x].state = "finished" /\ run'[x].type = run[x].type
    BY <2>1 DEF Run
  <2>3. CASE run[x].type = t
    BY <2>2, <2>3
  <2>4. CASE run[x].type # t
    <3>1. row[t] = "finished"
      BY <1>1, <1>4, <2>4 DEF RunEnds
    <3>2. \A r \in Runs : run[r].state = "finished" => run'[r] = run[r]
      BY <1>1, <1>4 DEF RunEnds
    <3>3. QED
      BY <1>2, <3>1, <3>2
  <2>5. QED
    BY <2>3, <2>4
<1>5. ASSUME NEW x \in Runs, LiveRequest(x) \/ LiveRefused(x) \/ RunKilled(x)
             \/ \E throttled \in BOOLEAN : LiveAnswer(x, throttled)
      PROVE  \E r \in Runs : run'[r].type = t /\ run'[r].state = "finished"
  <2>1. row[t] = "finished"
    BY <1>5 DEF LiveRequest, LiveRefused, RunKilled, LiveAnswer
  <2>2. \A r \in Runs : run[r].state = "finished" => run'[r] = run[r]
    BY <1>1, <1>5 DEF LiveRequest, LiveRefused, RunKilled, LiveAnswer
  <2>3. QED
    BY <1>2, <2>1, <2>2
<1>6. CASE BackfillStep \/ UNCHANGED vars
  <2>1. UNCHANGED <<run, row>>
    BY <1>6
    DEF BackfillStep, Start, LoopEnds, Skip, Stop, Fetch, Ask, BudgetSpent,
        Retry, Answers, Failed, Parked, Unreachable, Finish, Crash, vars
  <2>2. QED
    BY <1>2, <2>1
<1>7. QED
  BY <1>3, <1>4, <1>5, <1>6 DEF Next, RunStep

(* A backfill that has planned before a run came to its end has left the   *)
(* live reserve outside its cap, and keeps to its cap; one that could not  *)
(* leave it is over without a request.                                     *)
WithinCap ==
  /\ LiveReserve < Allowance
  /\ LiveReserve + bf.cap <= Allowance
  /\ bf.sent <= bf.cap

WaitInv == done = {} => WithinCap \/ (spent = 0 /\ pc = "idle")

(* No step spends before it may, or counts past the cap.                   *)
LEMMA WaitStep == TypeInv /\ RowInv /\ WaitInv /\ [Next]_vars => WaitInv'
<1> SUFFICES ASSUME TypeInv, RowInv, WaitInv, [Next]_vars, done' = {}
             PROVE  WithinCap' \/ (spent' = 0 /\ pc' = "idle")
  BY DEF WaitInv
<1>1. bf \in Backfill /\ bf.sent \in Nat /\ bf.cap \in Nat
  BY DEF TypeInv, TypeOK, Backfill
<1>2. CASE Start
  <2>1. ~LiveRunCompleted
    BY <1>2 DEF Start, RowInv, LiveRunCompleted
  <2>2. Reserve = LiveReserve /\ TypeOK
    BY <2>1 DEF Reserve, TypeInv
  <2>3. /\ Spendable \in Nat /\ counter.count \in Nat
        /\ RequestCap \in Nat /\ RequestCap <= Spendable
        /\ Spendable > 0 => counter.count + LiveReserve + Spendable = Allowance
    BY <2>2, PlanFits DEF TypeOK, CounterFile
  <2>4. CASE Spendable = 0
    BY <1>2, <2>4 DEF Start, WaitInv
  <2>5. CASE Spendable # 0
    <3>1. bf'.cap = RequestCap /\ bf'.sent = 0
      BY <1>2, <2>5 DEF Start, NoBackfill
    <3>2. LiveReserve < Allowance /\ LiveReserve + RequestCap <= Allowance
      BY <2>3, <2>5, BackfillAssumption
    <3>3. QED
      BY <2>3, <3>1, <3>2 DEF WithinCap
  <2>6. QED
    BY <2>4, <2>5
<1>3. CASE RunStep \/ UNCHANGED vars
  <2>1. UNCHANGED <<pc, bf, done, spent>>
    BY <1>3
    DEF RunStep, RunStarts, LiveRequest, LiveRefused, LiveAnswer, RunEnds,
        RunKilled, vars, history
  <2>2. QED
    BY <2>1 DEF WaitInv, WithinCap
<1>4. CASE BackfillStep /\ ~Start
  <2>1. done = {} /\ pc # "idle"
    BY <1>4
    DEF BackfillStep, LoopEnds, Skip, Stop, Fetch, Head, Ask, BudgetSpent,
        Retry, Answers, Failed, Parked, Unreachable, Finish, Crash, history
  <2>2. WithinCap
    BY <2>1 DEF WaitInv
  <2>3. ASSUME bf'.cap = bf.cap,
               bf'.sent = bf.sent \/ (pc = "answer" /\ bf'.sent = bf.sent + 1)
        PROVE  WithinCap'
    BY <1>1, <2>2, <2>3 DEF WithinCap, TypeInv, LoopInv
  <2>4. CASE LoopEnds \/ Skip \/ Stop \/ Fetch \/ Ask \/ BudgetSpent \/ Retry
    BY <1>1, <2>3, <2>4
    DEF LoopEnds, Skip, NextPair, Stop, Fetch, Ask, BudgetSpent, Retry, history,
        Backfill
  <2>5. CASE Parked \/ Unreachable \/ Finish \/ Crash
    BY <1>1, <2>3, <2>5 DEF Parked, Unreachable, Finish, Crash, history, Backfill
  <2>6. CASE \E complete \in BOOLEAN : Answers(complete)
    BY <1>1, <2>3, <2>6 DEF Answers, Backfill
  <2>7. CASE \E verdict \in Verdict : Failed(verdict)
    BY <1>1, <2>3, <2>7 DEF Failed, Backfill
  <2>8. QED
    BY <1>4, <2>4, <2>5, <2>6, <2>7 DEF BackfillStep
<1>5. QED
  BY <1>2, <1>3, <1>4 DEF Next

(* Until some run of the day has come to its end, whatever runs share a    *)
(* row, overwrite it or are killed, what a backfill counts as sent leaves  *)
(* the live reserve; on the free plan, where that is the whole allowance,  *)
(* it sends nothing.                                                       *)
THEOREM ReserveWaitsForARun == Spec => []WaitsForARun
<1>1. Init => WaitInv /\ RowInv
  BY DEF Init, WaitInv, RowInv
<1>2. TypeInv /\ WaitInv => WaitsForARun
  BY BackfillAssumption
  DEF TypeInv, TypeOK, WaitInv, WithinCap, WaitsForARun, Backfill
<1>3. QED
  BY <1>1, <1>2, TypeInit, TypeStep, RowStep, WaitStep, PTL DEF Spec

-----------------------------------------------------------------------------
(* Stored pairs stay stored, and only Finish says succeeded.               *)
LEMMA CompleteStep ==
  TypeInv /\ SucceededIsComplete /\ [Next]_vars => SucceededIsComplete'
<1> SUFFICES ASSUME TypeInv, SucceededIsComplete, [Next]_vars,
                    bf'.status = "succeeded"
             PROVE  stored' = PairIndex /\ bf'.failed = 0
  BY DEF SucceededIsComplete
<1> USE DEF TypeInv, LoopInv, SucceededIsComplete
<1>1. bf \in Backfill /\ bf.failed \in Nat
  BY DEF TypeOK, Backfill
<1>2. CASE RunStep
  BY <1>2
  DEF RunStep, RunStarts, LiveRequest, LiveRefused, LiveAnswer, RunEnds,
      RunKilled, history
<1>3. CASE Start
  <2>1. bf'.status # "succeeded"
    BY <1>3 DEF Start, NoBackfill
  <2>2. QED
    BY <2>1
<1>4. CASE LoopEnds \/ Stop \/ Fetch \/ Retry \/ Crash \/ UNCHANGED vars
  BY <1>4 DEF LoopEnds, Stop, Fetch, Head, Retry, Crash, vars, history
<1>5. CASE Skip \/ Ask \/ BudgetSpent \/ Parked \/ Unreachable
           \/ (\E complete \in BOOLEAN : Answers(complete))
           \/ \E verdict \in Verdict : Failed(verdict)
  <2>1. pc # "idle" /\ bf'.status = bf.status
    BY <1>1, <1>5
    DEF Skip, NextPair, Ask, BudgetSpent, Parked, Unreachable, Answers, Failed,
        Backfill
  <2>2. QED
    BY <2>1
<1>6. CASE Finish
  <2>1. bf'.status = ResultStatus /\ bf'.failed = bf.failed /\ stored' = stored
    BY <1>1, <1>6 DEF Finish, Backfill
  <2>2. QED
    BY <1>1, <2>1 DEF ResultStatus
<1>7. QED
  BY <1>2, <1>3, <1>4, <1>5, <1>6 DEF Next, BackfillStep

(* A backfill that says succeeded leaves no pair without its metrics,      *)
(* whatever earlier backfills, killed or not, had stored.                  *)
THEOREM SuccessIsComplete == Spec => []SucceededIsComplete
<1>1. Init => SucceededIsComplete
  BY DEF Init, NoBackfill, SucceededIsComplete
<1>2. QED
  BY <1>1, TypeInit, TypeStep, CompleteStep, PTL DEF Spec
=============================================================================
