------------------------ MODULE ProviderFetchProofs ------------------------
(***************************************************************************)
(* What TLAPS proves of ProviderFetch for every set of processes and       *)
(* endpoints, every allowance and every number of days, retries and        *)
(* crashes.                                                                *)
(***************************************************************************)
EXTENDS ProviderFetch, TLAPS

(* The locals before a call are those of some call.                        *)
LEMMA NoCallType == NoCall \in Call
<1>1. (CHOOSE e \in Endpoint : TRUE) \in Endpoint
  BY FetchAssumption
<1>2. 0 \in Day /\ 0 \in 0 .. Attempts - 1
  BY BudgetAssumption, FetchAssumption DEF Day
<1>3. Empty \in CounterFile
  BY DEF Empty, CounterFile
<1>4. QED
  BY <1>1, <1>2, <1>3 DEF NoCall, Call

(* What reserve() and note_quota_exhausted() write is a counter file. *)
LEMMA RewrittenFiles ==
  ASSUME NEW f \in CounterFile
  PROVE  Reserved(f) \in CounterFile /\ Refused(f) \in CounterFile
<1>1. Reserved(f) \in CounterFile
  BY DEF Reserved, CounterFile
<1>2. Refused(f) \in CounterFile
  BY DEF Refused, CounterFile
<1>3. QED
  BY <1>1, <1>2

(* What a step of a call does to the call's locals.                        *)
LEMMA CallUpdates ==
  ASSUME NEW c \in Call, NEW d \in Day, NEW f \in CounterFile
  PROVE  /\ [c EXCEPT !.day = d, !.file = f] \in Call
         /\ c.tries + 1 < Attempts => [c EXCEPT !.tries = @ + 1] \in Call
<1>1. [c EXCEPT !.day = d, !.file = f] \in Call
  BY DEF Call
<1>2. c.tries + 1 < Attempts => [c EXCEPT !.tries = @ + 1] \in Call
  BY FetchAssumption DEF Call
<1>3. QED
  BY <1>1, <1>2

(* No step takes a variable out of its type.                               *)
LEMMA TypeStep == TypeOK /\ [Next]_vars => TypeOK'
<1> SUFFICES ASSUME TypeOK, [Next]_vars PROVE TypeOK'
  OBVIOUS
<1> USE NoCallType
<1>1. ASSUME NEW p \in Proc, NEW e \in Endpoint, Fetch(p, e) PROVE TypeOK'
  BY <1>1 DEF Fetch, TypeOK, Goto, PC, Call, files, history
<1>2. ASSUME NEW p \in Proc, NewClient(p) PROVE TypeOK'
  BY <1>2 DEF NewClient, TypeOK, files, history
<1>3. ASSUME NEW p \in Proc, Guard(p) PROVE TypeOK'
  BY <1>3 DEF Guard, TypeOK, Goto, Return, PC, files, history
<1>4. ASSUME NEW p \in Proc, Reserve(p) PROVE TypeOK'
  <2>1. call' \in [Proc -> Call]
    <3>1. \/ call' = [call EXCEPT ![p] = NoCall]
          \/ call' = [call EXCEPT ![p].day = today, ![p].file = counter[today]]
      BY <1>4 DEF Reserve, Return
    <3>2. call[p] \in Call /\ today \in Day /\ counter[today] \in CounterFile
      BY DEF TypeOK
    <3>3. [call[p] EXCEPT !.day = today, !.file = counter[today]] \in Call
      BY <3>2, CallUpdates
    <3>4. QED
      BY <3>1, <3>3 DEF TypeOK
  <2>2. pc' \in [Proc -> PC]
    BY <1>4 DEF Reserve, TypeOK, Goto, Return, PC
  <2>3. QED
    BY <1>4, <2>1, <2>2 DEF Reserve, TypeOK, files, history
<1>5. ASSUME NEW p \in Proc, ReserveTruncate(p) PROVE TypeOK'
  BY <1>5 DEF ReserveTruncate, TypeOK, Goto, PC, Empty, CounterFile, history
<1>6. ASSUME NEW p \in Proc, ReserveWrite(p) PROVE TypeOK'
  <2>1. Reserved(call[p].file) \in CounterFile
    BY RewrittenFiles DEF TypeOK, Call
  <2>2. counter' \in [Day -> CounterFile]
    BY <1>6, <2>1 DEF ReserveWrite, TypeOK
  <2>3. claimed' \in [Day -> Nat]
    BY <1>6 DEF ReserveWrite, TypeOK, Call
  <2>4. call' \in [Proc -> Call] /\ pc' \in [Proc -> PC]
    BY <1>6 DEF ReserveWrite, TypeOK, Goto, PC, Call
  <2>5. QED
    BY <1>6, <2>2, <2>3, <2>4 DEF ReserveWrite, TypeOK
<1>7. ASSUME NEW p \in Proc, Fault(p) PROVE TypeOK'
  <2>1. call' \in [Proc -> Call]
    <3>1. \/ call' = [call EXCEPT ![p] = NoCall]
          \/ call' = [call EXCEPT ![p].tries = @ + 1] /\ call[p].tries + 1 < Attempts
      BY <1>7 DEF Fault, Return
    <3>2. call[p] \in Call /\ today \in Day /\ counter[today] \in CounterFile
      BY DEF TypeOK
    <3>3. QED
      BY <3>1, <3>2, CallUpdates DEF TypeOK
  <2>2. pc' \in [Proc -> PC]
    BY <1>7 DEF Fault, TypeOK, Goto, Return, PC
  <2>3. QED
    BY <1>7, <2>1, <2>2 DEF Fault, TypeOK, files, history
<1>8. ASSUME NEW p \in Proc, NEW status \in Status, Answer(p, status)
      PROVE  TypeOK'
  <2> DEFINE e == call[p].endpoint
  <2>1. e \in Endpoint
    BY DEF TypeOK, Call
  <2>2. call' \in [Proc -> Call] /\ pc' \in [Proc -> PC]
    <3>1. AfterAnswer(status) \in PC
      BY DEF AfterAnswer, PC
    <3>2. "idle" \in PC
      BY DEF PC
    <3>3. QED
      BY <1>8, <3>1, <3>2 DEF Answer, TypeOK, Goto, Return
  <2>3. cached' \in [Endpoint -> Status \union {"none"}]
    BY <1>8, <2>1 DEF Answer, CacheAfter, TypeOK
  <2>4. refusals' \in [Proc -> [Endpoint -> Nat]]
    <3>1. refusals[p][e] \in Nat
      BY <2>1 DEF TypeOK
    <3>2. RefusalsAfter(status, refusals[p][e]) \in Nat
      BY <3>1 DEF RefusalsAfter
    <3>3. QED
      BY <1>8, <2>1, <3>2 DEF Answer, TypeOK
  <2>5. QED
    BY <1>8, <2>2, <2>3, <2>4 DEF Answer, TypeOK
<1>9. ASSUME NEW p \in Proc, GateRead(p) PROVE TypeOK'
  <2>1. call' \in [Proc -> Call]
    <3>1. \/ call' = [call EXCEPT ![p] = NoCall]
          \/ call' = [call EXCEPT ![p].known = gated]
      BY <1>9 DEF GateRead, Return
    <3>2. call[p] \in Call /\ gated \in SUBSET Endpoint
      BY DEF TypeOK
    <3>3. [call[p] EXCEPT !.known = gated] \in Call
      BY <3>2 DEF Call
    <3>4. QED
      BY <3>1, <3>3 DEF TypeOK
  <2>2. pc' \in [Proc -> PC]
    BY <1>9 DEF GateRead, TypeOK, Goto, Return, PC
  <2>3. QED
    BY <1>9, <2>1, <2>2 DEF GateRead, TypeOK, files, history
<1>10. ASSUME NEW p \in Proc, GateTruncate(p) PROVE TypeOK'
  BY <1>10 DEF GateTruncate, TypeOK, Goto, PC, history
<1>11. ASSUME NEW p \in Proc, GateWrite(p) PROVE TypeOK'
  BY <1>11 DEF GateWrite, GatedWith, TypeOK, Goto, Return, PC, Call
<1>12. ASSUME NEW p \in Proc, QuotaRead(p) PROVE TypeOK'
  <2>1. call' \in [Proc -> Call]
    <3>1. \/ call' = [call EXCEPT ![p] = NoCall]
          \/ call' = [call EXCEPT ![p].day = today, ![p].file = counter[today]]
      BY <1>12 DEF QuotaRead, Return
    <3>2. call[p] \in Call /\ today \in Day /\ counter[today] \in CounterFile
      BY DEF TypeOK
    <3>3. [call[p] EXCEPT !.day = today, !.file = counter[today]] \in Call
      BY <3>2, CallUpdates
    <3>4. QED
      BY <3>1, <3>3 DEF TypeOK
  <2>2. pc' \in [Proc -> PC]
    BY <1>12 DEF QuotaRead, TypeOK, Goto, Return, PC
  <2>3. QED
    BY <1>12, <2>1, <2>2 DEF QuotaRead, TypeOK, files, history
<1>13. ASSUME NEW p \in Proc, QuotaTruncate(p) PROVE TypeOK'
  BY <1>13 DEF QuotaTruncate, TypeOK, Goto, PC, Empty, CounterFile, history
<1>14. ASSUME NEW p \in Proc, QuotaWrite(p) PROVE TypeOK'
  <2>1. Refused(call[p].file) \in CounterFile /\ call[p].day \in Day
    BY RewrittenFiles DEF TypeOK, Call
  <2>2. QED
    BY <1>14, <2>1 DEF QuotaWrite, TypeOK, Goto, Return, PC
<1>15. ASSUME NEW p \in Proc, Crash(p) PROVE TypeOK'
  <2>1. crashes' \in 0 .. MaxCrashes
    BY <1>15, FetchAssumption DEF Crash, TypeOK
  <2>2. refusals' \in [Proc -> [Endpoint -> Nat]]
    BY <1>15 DEF Crash, TypeOK
  <2>3. QED
    BY <1>15, <2>1, <2>2 DEF Crash, TypeOK, Goto, Return, PC, files, history
<1>16. CASE Midnight
  BY <1>16, BudgetAssumption DEF Midnight, TypeOK, Day, files, history
<1>17. CASE UNCHANGED vars
  BY <1>17 DEF vars, TypeOK, files, history
<1>18. QED
  BY <1>1, <1>2, <1>3, <1>4, <1>5, <1>6, <1>7, <1>8, <1>9, <1>10, <1>11,
     <1>12, <1>13, <1>14, <1>15, <1>16, <1>17 DEF Next, Step

(* Every variable keeps its type; in particular a call never uses more     *)
(* than its 1 + network_retries attempts.                                  *)
THEOREM TypeCorrect == Spec => []TypeOK
<1>1. Init => TypeOK
  BY NoCallType, BudgetAssumption, FetchAssumption
  DEF Init, TypeOK, Empty, CounterFile, Day, PC
<1>2. QED
  BY <1>1, TypeStep, PTL DEF Spec

-----------------------------------------------------------------------------
(* The assumptions of the sole-writer theorems: at most one process, and   *)
(* none is killed between two steps.  Without either one the theorems are  *)
(* false: the runs fetch_overspend and fetch_shared have the other cases.  *)
SoleWriter == /\ \A p, q \in Proc : p = q
              /\ MaxCrashes = 0

(* p has read a counter file and has not rewritten it yet. *)
Rewriting(p) == pc[p] \in {"reserve_truncate", "reserve_write",
                           "quota_truncate", "quota_write"}

Agrees(file, d) == /\ file.count = claimed[d]
                   /\ file.refused <=> d \in stopped

(* What p read is still what happened, and what it will write over.        *)
ReadIsCurrent ==
  \A p \in Proc : Rewriting(p) => Agrees(call[p].file, call[p].day)

(* A reservation about to be written is one the budget could afford.       *)
ReservationIsAffordable ==
  \A p \in Proc : pc[p] \in {"reserve_truncate", "reserve_write"} =>
     ~Exhausted(call[p].file)

SoleInv == /\ TypeOK
           /\ CounterIsExact
           /\ ReadIsCurrent
           /\ ReservationIsAffordable
           /\ ClaimedWithinAllowance

(* With one process and no crash, every step keeps the files exact.        *)
LEMMA SoleStep ==
  ASSUME SoleWriter
  PROVE  SoleInv /\ [Next]_vars => SoleInv'
<1> SUFFICES ASSUME SoleInv, [Next]_vars PROVE SoleInv'
  OBVIOUS
<1> USE DEF SoleInv
<1>0. TypeOK'
  BY TypeStep
<1> DEFINE Same == /\ UNCHANGED <<counter, claimed, stopped>>
                   /\ \A p \in Proc : Rewriting(p) <=> Rewriting(p)'
                   /\ \A p \in Proc : Rewriting(p) =>
                         pc'[p] = pc[p] /\ call'[p] = call[p]
(* A step that leaves the counters and every rewrite in progress alone.    *)
<1>1. Same => SoleInv'
  <2> SUFFICES ASSUME Same PROVE SoleInv'
    OBVIOUS
  <2>1. CounterIsExact'
    <3>1. \A d \in Day : Settled(d)' => Settled(d)
      BY DEF Settled, Rewriting
    <3>2. QED
      BY <3>1 DEF CounterIsExact
  <2>2. ReadIsCurrent'
    BY DEF ReadIsCurrent, Agrees
  <2>3. ReservationIsAffordable'
    BY DEF ReservationIsAffordable, Rewriting
  <2>4. ClaimedWithinAllowance'
    BY DEF ClaimedWithinAllowance
  <2>5. QED
    BY <1>0, <2>1, <2>2, <2>3, <2>4
(* A step that reads today's counter in order to rewrite it.               *)
<1>2. ASSUME NEW p \in Proc,
             pc[p] \in {"reserve", "quota"},
             pc' = [pc EXCEPT ![p] = pc'[p]],
             pc'[p] \in {"reserve_truncate", "quota_truncate"},
             pc'[p] = "reserve_truncate" => ~Exhausted(counter[today]),
             call' = [call EXCEPT ![p].day = today, ![p].file = counter[today]],
             UNCHANGED <<counter, claimed, stopped>>
      PROVE  SoleInv'
  <2>1. \A q \in Proc : q = p
    BY DEF SoleWriter
  <2>2. \A d \in Day : Settled(d) /\ Settled(d)'
    BY <1>2, <2>1 DEF Settled, TypeOK
  <2>3. \A d \in Day : Agrees(counter[d], d)
    BY <2>2 DEF CounterIsExact, Agrees
  <2>4. call'[p].day = today /\ call'[p].file = counter[today]
    BY <1>2 DEF TypeOK, Call
  <2>5. ReadIsCurrent'
    BY <1>2, <2>1, <2>3, <2>4 DEF ReadIsCurrent, Agrees, TypeOK
  <2>6. ReservationIsAffordable'
    BY <1>2, <2>1, <2>4 DEF ReservationIsAffordable, TypeOK
  <2>7. CounterIsExact' /\ ClaimedWithinAllowance'
    BY <1>2, <2>2 DEF CounterIsExact, ClaimedWithinAllowance
  <2>8. QED
    BY <1>0, <2>5, <2>6, <2>7
(* A step that truncates the file it has read.                             *)
<1>3. ASSUME NEW p \in Proc,
             \/ ReserveTruncate(p)
             \/ QuotaTruncate(p)
      PROVE  SoleInv'
  <2>1. \A q \in Proc : q = p
    BY DEF SoleWriter
  <2>2. /\ Rewriting(p) /\ Rewriting(p)'
        /\ pc'[p] \in {"reserve_write", "quota_write"}
        /\ pc[p] = "reserve_truncate" <=> pc'[p] = "reserve_write"
        /\ UNCHANGED <<call, claimed, stopped>>
        /\ counter' = [counter EXCEPT ![call[p].day] = Empty]
    BY <1>3 DEF ReserveTruncate, QuotaTruncate, Goto, Rewriting, TypeOK, history
  <2>3. CounterIsExact'
    <3>1. ASSUME NEW d \in Day, Settled(d)' PROVE d # call[p].day /\ Settled(d)
      BY <2>1, <2>2, <3>1 DEF Settled
    <3>2. \A d \in Day : d # call[p].day => counter'[d] = counter[d]
      BY <2>2 DEF TypeOK
    <3>3. QED
      BY <2>2, <3>1, <3>2 DEF CounterIsExact
  <2>4. ReadIsCurrent'
    BY <2>1, <2>2 DEF ReadIsCurrent, Agrees
  <2>5. ReservationIsAffordable'
    BY <2>1, <2>2 DEF ReservationIsAffordable, Rewriting
  <2>6. ClaimedWithinAllowance'
    BY <2>2 DEF ClaimedWithinAllowance
  <2>7. QED
    BY <1>0, <2>3, <2>4, <2>5, <2>6
<1>4. ASSUME NEW p \in Proc, ReserveWrite(p) PROVE SoleInv'
  <2> DEFINE d == call[p].day
             f == call[p].file
  <2>0. d \in Day /\ f \in CounterFile /\ claimed[d] \in Nat
    BY DEF TypeOK, Call
  <2>1. \A q \in Proc : q = p
    BY DEF SoleWriter
  <2>2. /\ pc[p] = "reserve_write" /\ pc'[p] = "send"
        /\ counter' = [counter EXCEPT ![d] = Reserved(f)]
        /\ claimed' = [claimed EXCEPT ![d] = @ + 1]
        /\ UNCHANGED stopped
    BY <1>4 DEF ReserveWrite, Goto, TypeOK
  <2>3. Agrees(f, d) /\ ~Exhausted(f)
    BY <2>2 DEF ReadIsCurrent, ReservationIsAffordable, Rewriting
  <2>4. ~Unlimited => claimed[d] < Allowance
    BY <2>0, <2>3, BudgetAssumption DEF Agrees, Exhausted, Unlimited
  <2>5. claimed'[d] = claimed[d] + 1
    BY <2>0, <2>2 DEF TypeOK
  <2>6. \A x \in Day : x # d => claimed'[x] = claimed[x] /\ counter'[x] = counter[x]
    BY <2>2 DEF TypeOK
  <2>7. CounterIsExact'
    <3>1. counter'[d] = Reserved(f)
      BY <2>0, <2>2 DEF TypeOK
    <3>2. counter'[d].count = claimed'[d]
      BY <2>3, <2>5, <3>1 DEF Agrees, Reserved
    <3>3. counter'[d].refused <=> d \in stopped'
      BY <2>2, <2>3, <3>1 DEF Agrees, Reserved
    <3>4. \A x \in Day : x # d => Settled(x)
      BY <2>1, <2>2 DEF Settled
    <3>5. QED
      BY <2>2, <2>6, <3>2, <3>3, <3>4 DEF CounterIsExact
  <2>8. ClaimedWithinAllowance'
    BY <2>0, <2>4, <2>5, <2>6, BudgetAssumption
    DEF ClaimedWithinAllowance, Unlimited, TypeOK
  <2>9. ReadIsCurrent' /\ ReservationIsAffordable'
    BY <2>1, <2>2 DEF ReadIsCurrent, ReservationIsAffordable, Rewriting
  <2>10. QED
    BY <1>0, <2>7, <2>8, <2>9
<1>5. ASSUME NEW p \in Proc, QuotaWrite(p) PROVE SoleInv'
  <2> DEFINE d == call[p].day
             f == call[p].file
  <2>0. d \in Day /\ f \in CounterFile
    BY DEF TypeOK, Call
  <2>1. \A q \in Proc : q = p
    BY DEF SoleWriter
  <2>2. /\ pc[p] = "quota_write" /\ pc'[p] = "idle"
        /\ counter' = [counter EXCEPT ![d] = Refused(f)]
        /\ stopped' = stopped \union {d}
        /\ UNCHANGED claimed
    BY <1>5 DEF QuotaWrite, Goto, Return, TypeOK
  <2>3. Agrees(f, d)
    BY <2>2 DEF ReadIsCurrent, Rewriting
  <2>4. counter'[d] = Refused(f) /\ \A x \in Day : x # d => counter'[x] = counter[x]
    BY <2>0, <2>2 DEF TypeOK
  <2>5. Refused(f).count = f.count /\ Refused(f).refused = TRUE
    BY <2>0 DEF Refused, CounterFile
  <2>6. \A x \in Day : x # d => Settled(x)
    BY <2>1, <2>2 DEF Settled
  <2>7. CounterIsExact'
    BY <2>2, <2>3, <2>4, <2>5, <2>6 DEF CounterIsExact, Agrees
  <2>8. ReadIsCurrent' /\ ReservationIsAffordable' /\ ClaimedWithinAllowance'
    BY <2>1, <2>2
    DEF ReadIsCurrent, ReservationIsAffordable, ClaimedWithinAllowance, Rewriting
  <2>9. QED
    BY <1>0, <2>7, <2>8
<1>6. ASSUME NEW p \in Proc, Step(p) PROVE SoleInv'
  <2>1. CASE Reserve(p) /\ pc'[p] = "reserve_truncate"
    <3>1. pc[p] = "reserve" /\ pc' = [pc EXCEPT ![p] = pc'[p]] 
      BY <2>1 DEF Reserve, Goto, Return, TypeOK
    <3>2. /\ ~Exhausted(counter[today])
          /\ call' = [call EXCEPT ![p].day = today, ![p].file = counter[today]]
          /\ UNCHANGED <<counter, claimed, stopped>>
      BY <2>1 DEF Reserve, Goto, Return, TypeOK, files, history
    <3>3. QED
      BY <1>2, <2>1, <3>1, <3>2
  <2>2. CASE QuotaRead(p) /\ pc'[p] = "quota_truncate"
    <3>1. pc[p] = "quota" /\ pc' = [pc EXCEPT ![p] = pc'[p]]
      BY <2>2 DEF QuotaRead, Goto, Return, TypeOK
    <3>2. /\ call' = [call EXCEPT ![p].day = today, ![p].file = counter[today]]
          /\ UNCHANGED <<counter, claimed, stopped>>
      BY <2>2 DEF QuotaRead, Goto, Return, TypeOK, files, history
    <3>3. QED
      BY <1>2, <2>2, <3>1, <3>2
  <2>3. CASE Reserve(p) /\ pc'[p] # "reserve_truncate"
    <3>1. Same
      BY <2>3 DEF Reserve, Goto, Return, Rewriting, TypeOK, files, history
    <3>2. QED
      BY <1>1, <3>1
  <2>4. CASE QuotaRead(p) /\ pc'[p] # "quota_truncate"
    <3>1. Same
      BY <2>4 DEF QuotaRead, Goto, Return, Rewriting, TypeOK, files, history
    <3>2. QED
      BY <1>1, <3>1
  <2>5. CASE Guard(p)
    <3>1. Same
      BY <2>5 DEF Guard, Goto, Return, Rewriting, TypeOK, files, history
    <3>2. QED
      BY <1>1, <3>1
  <2>6. CASE Fault(p)
    <3>1. Same
      BY <2>6 DEF Fault, Goto, Return, Rewriting, TypeOK, files, history
    <3>2. QED
      BY <1>1, <3>1
  <2>7. CASE \E status \in Status : Answer(p, status)
    <3>1. PICK status \in Status : Answer(p, status)
      BY <2>7
    <3>2. AfterAnswer(status) \in {"idle", "gate", "quota"}
      BY DEF AfterAnswer
    <3>3. Same
      BY <3>1, <3>2 DEF Answer, Goto, Return, Rewriting, TypeOK
    <3>4. QED
      BY <1>1, <3>3
  <2>8. CASE GateRead(p) \/ GateTruncate(p) \/ GateWrite(p)
    <3>1. Same
      BY <2>8 DEF GateRead, GateTruncate, GateWrite, Goto, Return, Rewriting,
                  TypeOK, files, history
    <3>2. QED
      BY <1>1, <3>1
  <2>9. QED
    BY <1>3, <1>4, <1>5, <1>6, <2>1, <2>2, <2>3, <2>4, <2>5, <2>6, <2>7, <2>8
    DEF Step
<1>7. ASSUME NEW p \in Proc, NEW e \in Endpoint, Fetch(p, e) PROVE SoleInv'
  <2>1. Same
    BY <1>7 DEF Fetch, Goto, Rewriting, TypeOK, files, history
  <2>2. QED
    BY <1>1, <2>1
<1>8. ASSUME NEW p \in Proc, NewClient(p) PROVE SoleInv'
  <2>1. Same
    BY <1>8 DEF NewClient, Rewriting, files, history
  <2>2. QED
    BY <1>1, <2>1
<1>9. ASSUME NEW p \in Proc, Crash(p) PROVE FALSE
  BY <1>9 DEF Crash, SoleWriter, TypeOK
<1>10. CASE Midnight
  <2>1. Same
    BY <1>10 DEF Midnight, Rewriting, files, history
  <2>2. QED
    BY <1>1, <2>1
<1>11. CASE UNCHANGED vars
  <2>1. Same
    BY <1>11 DEF vars, Rewriting, files, history
  <2>2. QED
    BY <1>1, <2>1
<1>12. QED
  BY <1>6, <1>7, <1>8, <1>9, <1>10, <1>11 DEF Next

(* The empty files are exact.                                              *)
LEMMA SoleInit ==
  ASSUME SoleWriter
  PROVE  Init => SoleInv
<1> SUFFICES ASSUME Init PROVE SoleInv
  OBVIOUS
<1>1. TypeOK
  BY NoCallType, BudgetAssumption, FetchAssumption
  DEF Init, TypeOK, Empty, CounterFile, Day, PC
<1>2. CounterIsExact
  BY DEF Init, CounterIsExact, Empty
<1>3. ReadIsCurrent /\ ReservationIsAffordable
  BY DEF Init, ReadIsCurrent, ReservationIsAffordable, Rewriting
<1>4. ClaimedWithinAllowance
  BY BudgetAssumption DEF Init, ClaimedWithinAllowance, Unlimited
<1>5. QED
  BY <1>1, <1>2, <1>3, <1>4 DEF SoleInv

(* ... so they are exact in every state.                                   *)
LEMMA SoleInvariant ==
  ASSUME SoleWriter
  PROVE  Spec => []SoleInv
<1>1. Init => SoleInv
  BY SoleInit
<1>2. SoleInv /\ [Next]_vars => SoleInv'
  BY SoleStep
<1>3. QED
  BY <1>1, <1>2, PTL DEF Spec

(* With one process that is not killed, never more requests are claimed    *)
(* against a day than its allowance, retries included.                     *)
THEOREM AllowanceKept ==
  ASSUME SoleWriter
  PROVE  Spec => []ClaimedWithinAllowance
<1>1. SoleInv => ClaimedWithinAllowance
  BY DEF SoleInv
<1>2. Spec => []SoleInv
  BY SoleInvariant
<1>3. QED
  BY <1>1, <1>2, PTL

(* With one process that is not killed, a day's counter file is exact      *)
(* whenever it is whole.                                                   *)
THEOREM CounterKept ==
  ASSUME SoleWriter
  PROVE  Spec => []CounterIsExact
<1>1. SoleInv => CounterIsExact
  BY DEF SoleInv
<1>2. Spec => []SoleInv
  BY SoleInvariant
<1>3. QED
  BY <1>1, <1>2, PTL

-----------------------------------------------------------------------------
(* Writing the counter of a reservation is a claim the allowance permits,  *)
(* writing a refusal is a stop, and no other step is visible.              *)
LEMMA PromiseStep ==
  ASSUME SoleWriter
  PROVE  SoleInv /\ [Next]_vars => [Promise!Next]_(Promise!vars)
<1> SUFFICES ASSUME SoleInv, [Next]_vars
             PROVE  Promise!Next \/ UNCHANGED <<claimed, stopped>>
  BY DEF Promise!vars
<1> USE DEF SoleInv
<1>1. ASSUME NEW p \in Proc, ReserveWrite(p) PROVE Promise!Next
  <2> DEFINE d == call[p].day
             f == call[p].file
  <2>1. d \in Day /\ f \in CounterFile /\ claimed[d] \in Nat
    BY DEF TypeOK, Call
  <2>2. pc[p] = "reserve_write"
    BY <1>1 DEF ReserveWrite
  <2>3. Agrees(f, d) /\ ~Exhausted(f)
    BY <2>2 DEF ReadIsCurrent, ReservationIsAffordable, Rewriting
  <2>4. Allowance # NoLimit => d \notin stopped /\ claimed[d] < Allowance
    BY <2>1, <2>3, BudgetAssumption DEF Agrees, Exhausted, Unlimited
  <2>5. Promise!Claim(d)
    BY <1>1, <2>4 DEF ReserveWrite, Promise!Claim
  <2>6. QED
    BY <2>1, <2>5 DEF Promise!Next
<1>2. ASSUME NEW p \in Proc, QuotaWrite(p) PROVE Promise!Next
  <2>1. call[p].day \in Day
    BY DEF TypeOK, Call
  <2>2. Promise!Stop(call[p].day)
    BY <1>2 DEF QuotaWrite, Promise!Stop
  <2>3. QED
    BY <2>1, <2>2 DEF Promise!Next
<1>3. ASSUME NEW p \in Proc, Step(p), ~ReserveWrite(p), ~QuotaWrite(p)
      PROVE  UNCHANGED <<claimed, stopped>>
  BY <1>3 DEF Step, Guard, Reserve, ReserveTruncate, Fault, Answer, GateRead,
     GateTruncate, GateWrite, QuotaRead, QuotaTruncate, history
<1>4. QED
  BY <1>1, <1>2, <1>3
  DEF Next, Fetch, NewClient, Crash, Midnight, vars, history

(* With one process that is not killed, the budget's files implement the   *)
(* daily allowance: what is claimed against a day stays within it, and     *)
(* nothing is claimed against a day once its refusal is on record.         *)
THEOREM DailyAllowanceImplemented ==
  ASSUME SoleWriter
  PROVE  Spec => ImplementsDailyAllowance
<1>1. Init => Promise!Init
  BY DEF Init, Promise!Init
<1>2. SoleInv /\ [Next]_vars => [Promise!Next]_(Promise!vars)
  BY PromiseStep
<1>3. Spec => []SoleInv
  BY SoleInvariant
<1>4. QED
  BY <1>1, <1>2, <1>3, PTL DEF Spec, ImplementsDailyAllowance, Promise!Spec

-----------------------------------------------------------------------------
(* Any number of processes, killed anywhere: the files understate.         *)
Within(file, d) == /\ file.count <= claimed[d]
                   /\ file.refused => d \in stopped

ReadsNeverOverstate ==
  \A p \in Proc :
    /\ Rewriting(p) => Within(call[p].file, call[p].day)
    /\ pc[p] \in {"gate_truncate", "gate_write"} =>
         call[p].known \subseteq gateNoted

FilesInv == TypeOK /\ FilesNeverOverstate /\ ReadsNeverOverstate

(* No step makes a file, or a reading of one, overstate.                   *)
LEMMA FilesStep == FilesInv /\ [Next]_vars => FilesInv'
<1> SUFFICES ASSUME FilesInv, [Next]_vars PROVE FilesInv'
  OBVIOUS
<1> USE DEF FilesInv
<1>0. TypeOK'
  BY TypeStep
(* What happened is only added to, so what was within it stays within it.  *)
<1>1. /\ \A d \in Day : claimed[d] <= claimed'[d]
      /\ stopped \subseteq stopped'
      /\ gateNoted \subseteq gateNoted'
  <2>1. ASSUME NEW p \in Proc, ReserveWrite(p) PROVE \A d \in Day : claimed[d] <= claimed'[d]
    BY <2>1 DEF ReserveWrite, TypeOK, Call
  <2>2. ASSUME NEW p \in Proc, Step(p), ~ReserveWrite(p) PROVE UNCHANGED claimed
    BY <2>2 DEF Step, Guard, Reserve, ReserveTruncate, Fault, Answer, GateRead,
       GateTruncate, GateWrite, QuotaRead, QuotaTruncate, QuotaWrite, history
  <2>3. ~(\E p \in Proc : ReserveWrite(p)) => UNCHANGED claimed
    BY <2>2 DEF Next, Fetch, NewClient, Crash, Midnight, vars, history
  <2>4. \A d \in Day : claimed[d] <= claimed'[d]
    BY <2>1, <2>3 DEF TypeOK
  <2>5. stopped \subseteq stopped' /\ gateNoted \subseteq gateNoted'
    BY DEF Next, Step, Fetch, NewClient, Crash, Midnight, vars, history, Guard,
       Reserve, ReserveTruncate, ReserveWrite, Fault, Answer, GateRead,
       GateTruncate, GateWrite, QuotaRead, QuotaTruncate, QuotaWrite
  <2>6. QED
    BY <2>4, <2>5
<1>2. \A f \in CounterFile, d \in Day :
        Within(f, d) => f.count <= claimed'[d] /\ (f.refused => d \in stopped')
  BY <1>0, <1>1 DEF Within, TypeOK, CounterFile
<1>3. \A d \in Day : Within(Empty, d)
  BY DEF Within, Empty, TypeOK
(* A day's file stays as it is or becomes one of these contents.           *)
<1>4. \A d \in Day : Within(counter[d], d)
  BY DEF FilesNeverOverstate, Within
<1>5. ASSUME \A d \in Day : \/ counter'[d] = counter[d]
                            \/ counter'[d] = Empty
                            \/ /\ counter'[d].count <= claimed'[d]
                               /\ counter'[d].refused => d \in stopped',
             gated' \subseteq gateNoted',
             \A p \in Proc :
               /\ Rewriting(p)' =>
                    \/ Rewriting(p) /\ call'[p].file = call[p].file
                                    /\ call'[p].day = call[p].day
                    \/ call'[p].file = counter[call'[p].day]
               /\ pc'[p] \in {"gate_truncate", "gate_write"} =>
                    call'[p].known \subseteq gateNoted
      PROVE  FilesInv'
  <2>1. FilesNeverOverstate'
    <3>1. \A d \in Day : counter[d] \in CounterFile /\ Empty \in CounterFile
      BY DEF TypeOK, Empty, CounterFile
    <3>2. QED
      BY <1>2, <1>3, <1>4, <1>5, <3>1 DEF FilesNeverOverstate
  <2>2. ReadsNeverOverstate'
    <3>1. ASSUME NEW p \in Proc, Rewriting(p)' PROVE Within(call[p].file, call[p].day)'
      <4>1. /\ call[p].file \in CounterFile /\ call[p].day \in Day
            /\ call'[p].day \in Day
            /\ \A d \in Day : counter[d] \in CounterFile
        BY <1>0 DEF TypeOK, Call
      <4>2. CASE Rewriting(p) /\ call'[p].file = call[p].file /\ call'[p].day = call[p].day
        BY <1>2, <4>1, <4>2 DEF ReadsNeverOverstate, Within
      <4>3. CASE call'[p].file = counter[call'[p].day]
        BY <1>2, <1>4, <4>1, <4>3 DEF Within
      <4>4. QED
        BY <1>5, <3>1, <4>2, <4>3
    <3>2. QED
      BY <1>1, <1>5, <3>1 DEF ReadsNeverOverstate
  <2>3. QED
    BY <1>0, <2>1, <2>2
<1>6. ASSUME NEW p \in Proc, ReserveWrite(p) PROVE FilesInv'
  <2> DEFINE d == call[p].day
             f == call[p].file
  <2>1. d \in Day /\ f \in CounterFile /\ claimed[d] \in Nat
    BY DEF TypeOK, Call
  <2>2. Within(f, d)
    BY <1>6 DEF ReserveWrite, ReadsNeverOverstate, Rewriting
  <2>3. counter'[d] = Reserved(f) /\ claimed'[d] = claimed[d] + 1 /\ stopped' = stopped
    BY <1>6, <2>1 DEF ReserveWrite, TypeOK
  <2>4. counter'[d].count <= claimed'[d] /\ (counter'[d].refused => d \in stopped')
    BY <2>1, <2>2, <2>3 DEF Within, Reserved, CounterFile
  <2>5. \A x \in Day : x # d => counter'[x] = counter[x]
    BY <1>6 DEF ReserveWrite, TypeOK
  <2>6. \A q \in Proc : q # p => pc'[q] = pc[q] /\ call'[q] = call[q]
    BY <1>6 DEF ReserveWrite, Goto, TypeOK
  <2>7. pc'[p] = "send" /\ gated' = gated
    BY <1>6 DEF ReserveWrite, Goto, TypeOK
  <2>8. QED
    BY <1>1, <1>5, <2>4, <2>5, <2>6, <2>7
    DEF Rewriting, ReadsNeverOverstate, FilesNeverOverstate
<1>7. ASSUME NEW p \in Proc, QuotaWrite(p) PROVE FilesInv'
  <2> DEFINE d == call[p].day
             f == call[p].file
  <2>1. d \in Day /\ f \in CounterFile
    BY DEF TypeOK, Call
  <2>2. Within(f, d)
    BY <1>7 DEF QuotaWrite, ReadsNeverOverstate, Rewriting
  <2>3. counter'[d] = Refused(f) /\ claimed' = claimed /\ stopped' = stopped \union {d}
    BY <1>7, <2>1 DEF QuotaWrite, TypeOK
  <2>4. Refused(f).count = f.count
    BY <2>1 DEF Refused, CounterFile
  <2>5. counter'[d].count <= claimed'[d] /\ d \in stopped'
    BY <2>2, <2>3, <2>4 DEF Within
  <2>6. \A x \in Day : x # d => counter'[x] = counter[x]
    BY <1>7 DEF QuotaWrite, TypeOK
  <2>7. \A q \in Proc : q # p => pc'[q] = pc[q] /\ call'[q] = call[q]
    BY <1>7 DEF QuotaWrite, Goto, Return, TypeOK
  <2>8. pc'[p] = "idle" /\ gated' = gated
    BY <1>7 DEF QuotaWrite, Goto, Return, TypeOK
  <2>9. QED
    BY <1>1, <1>5, <2>5, <2>6, <2>7, <2>8
    DEF Rewriting, ReadsNeverOverstate, FilesNeverOverstate
<1>8. ASSUME NEW p \in Proc, ReserveTruncate(p) \/ QuotaTruncate(p) PROVE FilesInv'
  <2>1. /\ \A d \in Day : counter'[d] = counter[d] \/ counter'[d] = Empty
        /\ call' = call /\ gated' = gated
        /\ \A q \in Proc : Rewriting(q)' => Rewriting(q)
        /\ \A q \in Proc : pc'[q] \in {"gate_truncate", "gate_write"} =>
             pc'[q] = pc[q]
    BY <1>8 DEF ReserveTruncate, QuotaTruncate, Goto, Rewriting, TypeOK, history
  <2>2. gated' \subseteq gateNoted'
    BY <1>1, <2>1 DEF FilesNeverOverstate
  <2>3. ASSUME NEW q \in Proc, pc'[q] \in {"gate_truncate", "gate_write"}
        PROVE  call'[q].known \subseteq gateNoted
    <3>1. pc'[q] = pc[q] /\ call'[q] = call[q]
      BY <2>1, <2>3 DEF Rewriting
    <3>2. QED
      BY <2>3, <3>1 DEF ReadsNeverOverstate
  <2>4. QED
    BY <1>5, <2>1, <2>2, <2>3 DEF Rewriting
<1>9. ASSUME NEW p \in Proc, Reserve(p) \/ QuotaRead(p) PROVE FilesInv'
  <2>1. /\ UNCHANGED <<counter, gated>>
        /\ \A q \in Proc : q # p => pc'[q] = pc[q] /\ call'[q] = call[q]
        /\ pc'[p] \notin {"gate_truncate", "gate_write"}
        /\ Rewriting(p)' => call'[p] = [call[p] EXCEPT !.day = today,
                                                      !.file = counter[today]]
    BY <1>9 DEF Reserve, QuotaRead, Goto, Return, Rewriting, TypeOK, files
  <2>2. Rewriting(p)' => call'[p].day = today /\ call'[p].file = counter[today]
    BY <2>1 DEF TypeOK, Call
  <2>3. \A q \in Proc : q # p => (Rewriting(q)' <=> Rewriting(q))
    BY <2>1 DEF Rewriting
  <2>4. QED
    BY <1>1, <1>5, <2>1, <2>2, <2>3 DEF ReadsNeverOverstate, FilesNeverOverstate
<1>10. ASSUME NEW p \in Proc, GateRead(p) PROVE FilesInv'
  <2>1. /\ UNCHANGED <<counter, gated>>
        /\ \A q \in Proc : q # p => pc'[q] = pc[q] /\ call'[q] = call[q]
        /\ pc'[p] \in {"idle", "gate_truncate"}
        /\ pc'[p] = "gate_truncate" => call'[p] = [call[p] EXCEPT !.known = gated]
    BY <1>10 DEF GateRead, Goto, Return, TypeOK, files
  <2>2. pc'[p] = "gate_truncate" => call'[p].known = gated
    BY <2>1 DEF TypeOK, Call
  <2>3. QED
    BY <1>1, <1>5, <2>1, <2>2 DEF Rewriting, ReadsNeverOverstate, FilesNeverOverstate
<1>11. ASSUME NEW p \in Proc, GateTruncate(p) PROVE FilesInv'
  <2>1. /\ UNCHANGED <<counter, call>> /\ gated' = {}
        /\ pc[p] = "gate_truncate" /\ pc' = [pc EXCEPT ![p] = "gate_write"]
    BY <1>11 DEF GateTruncate, Goto
  <2>2. QED
    BY <1>5, <2>1 DEF Rewriting, ReadsNeverOverstate, TypeOK
<1>12. ASSUME NEW p \in Proc, GateWrite(p) PROVE FilesInv'
  <2>1. /\ UNCHANGED counter
        /\ pc[p] = "gate_write" /\ pc' = [pc EXCEPT ![p] = "idle"]
        /\ \A q \in Proc : q # p => call'[q] = call[q]
        /\ gated' = call[p].known \union {call[p].endpoint}
        /\ gateNoted' = gateNoted \union {call[p].endpoint}
    BY <1>12 DEF GateWrite, GatedWith, Goto, Return, TypeOK
  <2>2. QED
    BY <1>5, <2>1 DEF Rewriting, ReadsNeverOverstate, TypeOK
(* The other steps leave the files alone and start no rewrite.             *)
<1>13. ASSUME UNCHANGED <<counter, gated>>,
              \A q \in Proc : \/ pc'[q] = pc[q] /\ call'[q] = call[q]
                              \/ pc'[q] \in {"idle", "guard", "reserve", "gate", "quota"}
       PROVE  FilesInv'
  BY <1>1, <1>5, <1>13 DEF Rewriting, ReadsNeverOverstate, FilesNeverOverstate
<1>14. ASSUME NEW p \in Proc, Guard(p) \/ Fault(p) \/ NewClient(p) \/ Crash(p)
       PROVE  FilesInv'
  <2>1. UNCHANGED <<counter, gated>>
    BY <1>14 DEF Guard, Fault, NewClient, Crash, files
  <2>2. \A q \in Proc : \/ pc'[q] = pc[q] /\ call'[q] = call[q]
                        \/ pc'[q] \in {"idle", "guard", "reserve", "gate", "quota"}
    BY <1>14 DEF Guard, Fault, NewClient, Crash, Goto, Return, TypeOK
  <2>3. QED
    BY <1>13, <2>1, <2>2
<1>15. ASSUME NEW p \in Proc, NEW status \in Status, Answer(p, status)
       PROVE  FilesInv'
  <2>1. AfterAnswer(status) \in {"idle", "gate", "quota"}
    BY DEF AfterAnswer
  <2>2. UNCHANGED <<counter, gated>>
    BY <1>15 DEF Answer
  <2>3. \A q \in Proc : \/ pc'[q] = pc[q] /\ call'[q] = call[q]
                        \/ pc'[q] \in {"idle", "guard", "reserve", "gate", "quota"}
    BY <1>15, <2>1 DEF Answer, Goto, Return, TypeOK
  <2>4. QED
    BY <1>13, <2>2, <2>3
<1>16. ASSUME NEW p \in Proc, NEW e \in Endpoint, Fetch(p, e) PROVE FilesInv'
  <2>1. UNCHANGED <<counter, gated>>
    BY <1>16 DEF Fetch, files
  <2>2. \A q \in Proc : \/ pc'[q] = pc[q] /\ call'[q] = call[q]
                        \/ pc'[q] \in {"idle", "guard", "reserve", "gate", "quota"}
    BY <1>16 DEF Fetch, Goto, TypeOK
  <2>3. QED
    BY <1>13, <2>1, <2>2
<1>17. CASE Midnight \/ UNCHANGED vars
  BY <1>13, <1>17 DEF Midnight, vars, files
<1>18. QED
  BY <1>6, <1>7, <1>8, <1>9, <1>10, <1>11, <1>12, <1>14, <1>15, <1>16, <1>17
  DEF Next, Step

(* However many processes share the files and wherever they are killed,    *)
(* no file counts a request nobody claimed, or records a refusal or a      *)
(* plan gate nobody met: a provider is never retired for no reason.        *)
THEOREM FilesUnderstate == Spec => []FilesNeverOverstate
<1>1. Init => FilesInv
  <2>1. Init => TypeOK
    BY NoCallType, BudgetAssumption, FetchAssumption
    DEF Init, TypeOK, Empty, CounterFile, Day, PC
  <2>2. Init => FilesNeverOverstate /\ ReadsNeverOverstate
    BY DEF Init, FilesNeverOverstate, ReadsNeverOverstate, Rewriting, Empty
  <2>3. QED
    BY <2>1, <2>2 DEF FilesInv
<1>2. FilesInv => FilesNeverOverstate
  BY DEF FilesInv
<1>3. QED
  BY <1>1, <1>2, FilesStep, PTL DEF Spec

-----------------------------------------------------------------------------
(* A call that got past the guard asks for an endpoint that is not parked, *)
(* and only the call itself can add to the endpoint's refusals.            *)
Asking(p) == pc[p] \in {"reserve", "reserve_truncate", "reserve_write", "send"}

NotParkedWhileAsked ==
  \A p \in Proc : Asking(p) => refusals[p][call[p].endpoint] < Threshold

ParkInv == TypeOK /\ ParkedAfterTwo /\ NotParkedWhileAsked

(* A call passes the guard below the threshold, so no answer exceeds it.   *)
LEMMA ParkStep == ParkInv /\ [Next]_vars => ParkInv'
<1> SUFFICES ASSUME ParkInv, [Next]_vars PROVE ParkInv'
  OBVIOUS
<1> USE DEF ParkInv
<1>0. TypeOK'
  BY TypeStep
(* A step that adds to no count and starts no request.                     *)
<1>1. ASSUME refusals' = refusals,
             \A q \in Proc : Asking(q)' => /\ Asking(q)
                                           /\ call'[q].endpoint = call[q].endpoint
      PROVE  ParkInv'
  BY <1>0, <1>1 DEF ParkedAfterTwo, NotParkedWhileAsked
<1>2. ASSUME NEW p \in Proc, Guard(p) PROVE ParkInv'
  <2>1. /\ refusals' = refusals
        /\ \A q \in Proc : q # p => pc'[q] = pc[q] /\ call'[q] = call[q]
        /\ Asking(p)' => MayAsk(p) /\ call'[p] = call[p]
    BY <1>2 DEF Guard, Goto, Return, Asking, TypeOK
  <2>2. NotParkedWhileAsked'
    BY <2>1 DEF NotParkedWhileAsked, Asking, MayAsk
  <2>3. QED
    BY <1>0, <2>1, <2>2 DEF ParkedAfterTwo
<1>3. ASSUME NEW p \in Proc, NEW status \in Status, Answer(p, status)
      PROVE  ParkInv'
  <2> DEFINE e == call[p].endpoint
  <2>1. e \in Endpoint /\ refusals[p][e] \in Nat
    BY DEF TypeOK, Call
  <2>2. refusals[p][e] < Threshold
    BY <1>3 DEF Answer, NotParkedWhileAsked, Asking
  <2>3. refusals'[p][e] = RefusalsAfter(status, refusals[p][e])
    BY <1>3, <2>1 DEF Answer, TypeOK
  <2>4. refusals'[p][e] <= Threshold
    BY <2>1, <2>2, <2>3 DEF RefusalsAfter, Threshold
  <2>5. \A q \in Proc, x \in Endpoint :
          q # p \/ x # e => refusals'[q][x] = refusals[q][x]
    BY <1>3 DEF Answer, TypeOK
  <2>6. ParkedAfterTwo'
    BY <2>4, <2>5 DEF ParkedAfterTwo
  <2>7. AfterAnswer(status) \in {"idle", "gate", "quota"}
    BY DEF AfterAnswer
  <2>8. ~Asking(p)'
    <3>1. pc' = [pc EXCEPT ![p] = AfterAnswer(status)]
      BY <1>3 DEF Answer, Goto, Return
    <3>2. pc'[p] \in {"idle", "gate", "quota"}
      BY <3>1, <2>7 DEF TypeOK
    <3>3. QED
      BY <3>2 DEF Asking
  <2>9. \A q \in Proc : q # p => pc'[q] = pc[q] /\ call'[q] = call[q]
    <3>1. pc' = [pc EXCEPT ![p] = AfterAnswer(status)]
      BY <1>3 DEF Answer, Goto, Return
    <3>2. call' = call \/ call' = [call EXCEPT ![p] = NoCall]
      BY <1>3 DEF Answer, Return
    <3>3. QED
      <4>1. pc \in [Proc -> PC] /\ call \in [Proc -> Call]
        BY DEF TypeOK
      <4>2. \A q \in Proc : q # p => pc'[q] = pc[q]
        BY <3>1, <4>1
      <4>3. \A q \in Proc : q # p => call'[q] = call[q]
        BY <3>2, <4>1
      <4>4. QED
        BY <4>2, <4>3
  <2>10. NotParkedWhileAsked'
    <3>1. SUFFICES ASSUME NEW q \in Proc, Asking(q)'
                   PROVE  (refusals[q][call[q].endpoint])' < Threshold
      BY DEF NotParkedWhileAsked
    <3>2. q # p
      BY <2>8, <3>1
    <3>3. Asking(q) /\ call'[q] = call[q]
      BY <2>9, <3>1, <3>2 DEF Asking
    <3>4. call[q].endpoint \in Endpoint
      BY DEF TypeOK, Call
    <3>5. refusals'[q][call[q].endpoint] = refusals[q][call[q].endpoint]
      BY <2>5, <3>2, <3>4
    <3>6. QED
      BY <3>3, <3>5 DEF NotParkedWhileAsked
  <2>11. QED
    BY <1>0, <2>6, <2>10
<1>4. ASSUME NEW p \in Proc, NewClient(p) \/ Crash(p) PROVE ParkInv'
  <2>1. /\ ~Asking(p)'
        /\ refusals' = [refusals EXCEPT ![p] = [e \in Endpoint |-> 0]]
        /\ \A q \in Proc : q # p => pc'[q] = pc[q] /\ call'[q] = call[q]
    BY <1>4 DEF NewClient, Crash, Goto, Return, Asking, TypeOK
  <2>2. ParkedAfterTwo'
    BY <2>1 DEF ParkedAfterTwo, Threshold, TypeOK
  <2>3. NotParkedWhileAsked'
    BY <2>1 DEF NotParkedWhileAsked, Asking, TypeOK
  <2>4. QED
    BY <1>0, <2>2, <2>3
<1>5. ASSUME NEW p \in Proc, Reserve(p) \/ ReserveTruncate(p) \/ ReserveWrite(p)
      PROVE  ParkInv'
  <2>1. refusals' = refusals
    BY <1>5 DEF Reserve, ReserveTruncate, ReserveWrite
  <2>2. \A q \in Proc : Asking(q)' => /\ Asking(q)
                                      /\ call'[q].endpoint = call[q].endpoint
    <3>1. CASE Reserve(p)
      <4>1. \A q \in Proc : q # p => pc'[q] = pc[q] /\ call'[q] = call[q]
        BY <3>1 DEF Reserve, Goto, Return, TypeOK
      <4>2. Asking(p) /\ (Asking(p)' => call'[p].endpoint = call[p].endpoint)
        BY <3>1 DEF Reserve, Goto, Return, Asking, TypeOK, Call
      <4>3. QED
        BY <4>1, <4>2 DEF Asking
    <3>2. CASE ReserveTruncate(p) \/ ReserveWrite(p)
      BY <3>2 DEF ReserveTruncate, ReserveWrite, Goto, Asking, TypeOK
    <3>3. QED
      BY <1>5, <3>1, <3>2
  <2>3. QED
    BY <1>1, <2>1, <2>2
<1>6. ASSUME NEW p \in Proc,
             Fault(p) \/ GateRead(p) \/ GateTruncate(p) \/ GateWrite(p)
             \/ QuotaRead(p) \/ QuotaTruncate(p) \/ QuotaWrite(p)
      PROVE  ParkInv'
  <2>1. refusals' = refusals /\ ~Asking(p)'
    BY <1>6 DEF Fault, GateRead, GateTruncate, GateWrite, QuotaRead,
       QuotaTruncate, QuotaWrite, Goto, Return, Asking, TypeOK
  <2>2. \A q \in Proc : q # p => pc'[q] = pc[q] /\ call'[q] = call[q]
    BY <1>6 DEF Fault, GateRead, GateTruncate, GateWrite, QuotaRead,
       QuotaTruncate, QuotaWrite, Goto, Return, TypeOK
  <2>3. QED
    BY <1>1, <2>1, <2>2 DEF Asking
<1>7. ASSUME NEW p \in Proc, NEW e \in Endpoint, Fetch(p, e) PROVE ParkInv'
  <2>1. refusals' = refusals /\ ~Asking(p)'
    BY <1>7 DEF Fetch, Goto, Asking, TypeOK
  <2>2. \A q \in Proc : q # p => pc'[q] = pc[q] /\ call'[q] = call[q]
    BY <1>7 DEF Fetch, Goto, TypeOK
  <2>3. QED
    BY <1>1, <2>1, <2>2 DEF Asking
<1>8. CASE Midnight \/ UNCHANGED vars
  BY <1>1, <1>8 DEF Midnight, vars, Asking
<1>9. QED
  BY <1>2, <1>3, <1>4, <1>5, <1>6, <1>7, <1>8 DEF Next, Step

(* No client is answered "malformed" more than twice by one endpoint in a  *)
(* run without a good answer in between, whatever other processes do.      *)
THEOREM RefusalsParked == Spec => []ParkedAfterTwo
<1>1. Init => ParkInv
  <2>1. Init => TypeOK
    BY NoCallType, BudgetAssumption, FetchAssumption
    DEF Init, TypeOK, Empty, CounterFile, Day, PC
  <2>2. Init => ParkedAfterTwo /\ NotParkedWhileAsked
    BY DEF Init, ParkedAfterTwo, NotParkedWhileAsked, Asking, Threshold
  <2>3. QED
    BY <2>1, <2>2 DEF ParkInv
<1>2. ParkInv => ParkedAfterTwo
  BY DEF ParkInv
<1>3. QED
  BY <1>1, <1>2, ParkStep, PTL DEF Spec

-----------------------------------------------------------------------------
(* The memo names what was recorded, except while p rewrites it, and then  *)
(* p knows it; what p is about to claim a request for is not on record.    *)
MemoOf(p) ==
  /\ pc[p] # "gate_write" => gated = gateNoted
  /\ pc[p] \in {"gate_truncate", "gate_write"} => call[p].known = gateNoted
  /\ pc[p] \in {"reserve", "reserve_truncate", "reserve_write"} =>
       call[p].endpoint \notin gateNoted

MemoInv == TypeOK /\ \A p \in Proc : MemoOf(p)

(* With one process, no step but the write of the memo touches what is on  *)
(* record, and nothing is asked without a look at the memo.                *)
LEMMA MemoStep ==
  ASSUME SoleWriter
  PROVE  MemoInv /\ [Next]_vars => MemoInv'
<1> SUFFICES ASSUME MemoInv, [Next]_vars PROVE MemoInv'
  OBVIOUS
<1>0. TypeOK /\ TypeOK' /\ \A p \in Proc : MemoOf(p)
  BY TypeStep DEF MemoInv
<1>1. ASSUME NEW p \in Proc, MemoOf(p)' PROVE MemoInv'
  BY <1>0, <1>1 DEF MemoInv, SoleWriter
(* A step of p that leaves the memo, and the endpoint it asks for.         *)
<1>2. ASSUME NEW p \in Proc, UNCHANGED <<gated, gateNoted>>,
             pc[p] # "gate_write", pc'[p] \notin {"reserve", "gate_truncate", "gate_write"},
             pc'[p] \in {"reserve_truncate", "reserve_write"} =>
                /\ pc[p] \in {"reserve", "reserve_truncate"}
                /\ call'[p].endpoint = call[p].endpoint
      PROVE  MemoInv'
  BY <1>0, <1>1, <1>2 DEF MemoOf
<1>3. ASSUME NEW p \in Proc, NEW e \in Endpoint, Fetch(p, e) PROVE MemoInv'
  BY <1>0, <1>2, <1>3 DEF Fetch, Goto, files, history, TypeOK
<1>4. ASSUME NEW p \in Proc, Guard(p) PROVE MemoInv'
  <2>1. MemoOf(p)'
    BY <1>0, <1>4 DEF Guard, MayAsk, Return, Goto, files, history, TypeOK, MemoOf
  <2>2. QED
    BY <1>1, <2>1
<1>5. ASSUME NEW p \in Proc, Reserve(p) PROVE MemoInv'
  <2>1. pc'[p] \in {"idle", "reserve_truncate"}
        /\ (pc'[p] = "reserve_truncate" => call'[p].endpoint = call[p].endpoint)
    BY <1>0, <1>5 DEF Reserve, Return, Goto, TypeOK, Call
  <2>2. QED
    BY <1>2, <1>5, <2>1 DEF Reserve, files, history
<1>6. ASSUME NEW p \in Proc, ReserveTruncate(p) \/ ReserveWrite(p) PROVE MemoInv'
  BY <1>0, <1>2, <1>6 DEF ReserveTruncate, ReserveWrite, Goto, history, TypeOK
<1>7. ASSUME NEW p \in Proc, Fault(p) PROVE MemoInv'
  BY <1>0, <1>2, <1>7 DEF Fault, Return, Goto, files, history, TypeOK
<1>8. ASSUME NEW p \in Proc, NEW status \in Status, Answer(p, status) PROVE MemoInv'
  <2>1. pc'[p] \in {"idle", "gate", "quota"}
    BY <1>0, <1>8 DEF Answer, AfterAnswer, Return, Goto, TypeOK
  <2>2. QED
    BY <1>2, <1>8, <2>1 DEF Answer
<1>9. ASSUME NEW p \in Proc, GateRead(p) PROVE MemoInv'
  <2>1. UNCHANGED <<gated, gateNoted>> /\ pc[p] = "gate"
        /\ (pc'[p] = "idle" \/ (pc'[p] = "gate_truncate" /\ call'[p].known = gated))
    BY <1>0, <1>9 DEF GateRead, Return, Goto, files, history, TypeOK, Call
  <2>2. MemoOf(p)'
    BY <1>0, <2>1 DEF MemoOf
  <2>3. QED
    BY <1>1, <2>2
<1>10. ASSUME NEW p \in Proc, GateTruncate(p) PROVE MemoInv'
  <2>1. pc[p] = "gate_truncate" /\ pc'[p] = "gate_write" /\ call' = call
        /\ gateNoted' = gateNoted
    BY <1>0, <1>10 DEF GateTruncate, Goto, history, TypeOK
  <2>2. MemoOf(p)'
    BY <1>0, <2>1 DEF MemoOf
  <2>3. QED
    BY <1>1, <2>2
<1>11. ASSUME NEW p \in Proc, GateWrite(p) PROVE MemoInv'
  <2>1. pc[p] = "gate_write" /\ pc'[p] = "idle"
        /\ gated' = call[p].known \union {call[p].endpoint}
        /\ gateNoted' = gateNoted \union {call[p].endpoint}
    BY <1>0, <1>11 DEF GateWrite, GatedWith, Return, Goto, TypeOK
  <2>2. MemoOf(p)'
    BY <1>0, <2>1 DEF MemoOf
  <2>3. QED
    BY <1>1, <2>2
<1>12. ASSUME NEW p \in Proc, QuotaRead(p) \/ QuotaTruncate(p) \/ QuotaWrite(p) PROVE MemoInv'
  BY <1>0, <1>2, <1>12
     DEF QuotaRead, QuotaTruncate, QuotaWrite, Return, Goto, files, history, TypeOK
<1>13. ASSUME NEW p \in Proc, Crash(p) PROVE MemoInv'
  BY <1>0, <1>13 DEF Crash, SoleWriter, TypeOK
<1>14. CASE UNCHANGED <<pc, call, gated, gateNoted>>
  BY <1>0, <1>14 DEF MemoInv, MemoOf
<1>15. QED
  BY <1>3, <1>4, <1>5, <1>6, <1>7, <1>8, <1>9, <1>10, <1>11, <1>12, <1>13, <1>14
     DEF Next, Step, NewClient, Midnight, vars, files, history

(* With one process, an endpoint recorded as gated is never asked again,   *)
(* on whatever later day or by whatever new client.                        *)
THEOREM GatedIsLeft ==
  ASSUME SoleWriter
  PROVE  Spec => NeverReprobed
<1> DEFINE Left == \A p \in Proc : ReserveWrite(p) => call[p].endpoint \notin gateNoted
<1>1. Init => MemoInv
  <2>1. Init => TypeOK
    BY NoCallType, BudgetAssumption, FetchAssumption
    DEF Init, TypeOK, Empty, CounterFile, Day, PC
  <2>2. Init => \A p \in Proc : MemoOf(p)
    BY DEF Init, MemoOf
  <2>3. QED
    BY <2>1, <2>2 DEF MemoInv
<1>2. MemoInv => Left
  BY DEF MemoInv, MemoOf, ReserveWrite
<1>3. MemoInv /\ [Next]_vars => [Left]_vars
  BY <1>2
<1>4. QED
  BY <1>1, <1>3, MemoStep, PTL DEF Spec, NeverReprobed
=============================================================================
