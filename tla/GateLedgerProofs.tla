-------------------------- MODULE GateLedgerProofs --------------------------
(***************************************************************************)
(* What TLAPS proves of GateLedger for any processes and tickers, any      *)
(* cooldown, universes of any size and any number of days, runs and kills: *)
(* that the ledger invents no rejection, and what a written report leaves. *)
(*                                                                         *)
(* update_history is a loop over a report of any length, so the lemmas     *)
(* start with induction over the naturals, from their well-foundedness.    *)
(***************************************************************************)
EXTENDS GateLedger, TLAPS, SequenceTheorems, FiniteSetTheorems,
        WellFoundedInduction

(* f holds the ledgers of update_history before and after each of the      *)
(* first m results.                                                        *)
IsLoop(f, records, results, date, m) ==
  f = [n \in 0 .. m |->
         IF n = 0 THEN records ELSE Advance(f[n - 1], results[n], date)]

(* A set of naturals that is not empty has a least one.                    *)
LEMMA LeastOf ==
  ASSUME NEW T \in SUBSET Nat, T # {}
  PROVE  \E i \in T : \A j \in T : i <= j
<1> DEFINE Below == {pair \in Nat \X Nat : pair[1] < pair[2]}
<1>1. IsWellFoundedOn(Below, Nat)
  BY NatLessThanWellFounded DEF OpToRel
<1> SUFFICES ASSUME NEW i \in T, \A j \in T : <<j, i>> \notin Below
             PROVE  \A j \in T : i <= j
  <2> HIDE DEF Below
  <2> QED
    BY <1>1, WFMin
<1>2. ASSUME NEW j \in T PROVE i <= j
  <2>1. <<j, i>> \in Nat \X Nat /\ i \in Nat /\ j \in Nat
    OBVIOUS
  <2>2. QED
    BY <2>1
<1>3. QED
  BY <1>2

(* A set that has 0 and the successor of each of its numbers has them all. *)
LEMMA Induction ==
  ASSUME NEW T, 0 \in T, \A n \in Nat : n \in T => n + 1 \in T
  PROVE  Nat \subseteq T
<1> SUFFICES ASSUME Nat \ T # {} PROVE FALSE
  OBVIOUS
<1>1. PICK i \in Nat \ T : \A j \in Nat \ T : i <= j
  BY LeastOf
<1>2. i - 1 \in Nat /\ i - 1 \notin Nat \ T
  BY <1>1
<1>3. QED
  BY <1>1, <1>2

(* update_history runs for any number of results.                          *)
LEMMA LoopExists ==
  ASSUME NEW records, NEW results, NEW date, NEW m \in Nat
  PROVE  \E f : IsLoop(f, records, results, date, m)
<1> DEFINE T == {n \in Nat : \E f : IsLoop(f, records, results, date, n)}
<1>1. 0 \in T
  <2>1. IsLoop([n \in 0 .. 0 |-> records], records, results, date, 0)
    BY DEF IsLoop
  <2>2. QED
    BY <2>1
<1>2. ASSUME NEW n \in Nat, n \in T PROVE n + 1 \in T
  <2>1. PICK f : IsLoop(f, records, results, date, n)
    BY <1>2
  <2> DEFINE g == [k \in 0 .. n + 1 |->
                     IF k <= n THEN f[k] ELSE Advance(f[n], results[n + 1], date)]
  <2>2. \A k \in 0 .. n + 1 :
           g[k] = IF k = 0 THEN records ELSE Advance(g[k - 1], results[k], date)
    <3> SUFFICES ASSUME NEW k \in 0 .. n + 1
                 PROVE  g[k] = IF k = 0 THEN records ELSE Advance(g[k - 1], results[k], date)
      OBVIOUS
    <3>1. CASE k <= n
      <4>1. f[k] = IF k = 0 THEN records ELSE Advance(f[k - 1], results[k], date)
        BY <2>1, <3>1 DEF IsLoop
      <4>2. g[k] = f[k] /\ (k # 0 => g[k - 1] = f[k - 1])
        BY <3>1
      <4>3. QED
        BY <4>1, <4>2
    <3>2. CASE k = n + 1
      BY <3>2
    <3>3. QED
      BY <3>1, <3>2
  <2>3. IsLoop(g, records, results, date, n + 1)
    <3> HIDE DEF g
    <3>1. g = [k \in 0 .. n + 1 |-> g[k]]
      BY DEF g
    <3>2. QED
      BY <2>2, <3>1 DEF IsLoop
  <2>4. QED
    BY <2>3
<1>3. Nat \subseteq T
  <2> HIDE DEF T
  <2>1. QED
    BY <1>1, <1>2, Induction
<1>4. QED
  BY <1>3

(* What update_history returns is the last ledger of its loop.             *)
LEMMA UpdateIsLoop ==
  ASSUME NEW records, NEW results, NEW date, Len(results) \in Nat
  PROVE  \E f : /\ IsLoop(f, records, results, date, Len(results))
                /\ UpdateHistory(records, results, date) = f[Len(results)]
<1> DEFINE f == CHOOSE g : IsLoop(g, records, results, date, Len(results))
<1>1. IsLoop(f, records, results, date, Len(results))
  BY LoopExists
<1>2. UpdateHistory(records, results, date) = f[Len(results)]
  BY DEF UpdateHistory, IsLoop
<1>3. QED
  BY <1>1, <1>2

-----------------------------------------------------------------------------
(* active_history keeps the records that are active, and changes none.     *)
LEMMA ActiveType ==
  ASSUME NEW records \in Ledger, NEW date
  PROVE  /\ ActiveHistory(records, date) \in Ledger
         /\ \A t \in Ticker : ActiveHistory(records, date)[t] # None =>
              /\ ActiveHistory(records, date)[t] = records[t]
              /\ records[t] # None /\ IsActive(records[t], date)
BY DEF ActiveHistory, Ledger

(* A rejection counts at least 1.                                          *)
LEMMA OccurrencesType ==
  ASSUME NEW record \in Record \union {None}
  PROVE  OccurrencesOf(record) \in Nat \ {0}
BY DEF OccurrencesOf, Record

(* What update_history leaves of the ticker of one result.                 *)
Advanced(records, result, date) ==
  LET old == ActiveHistory(records, date)[result.ticker]
  IN  IF result.scored THEN None
      ELSE [first |-> IF old = None THEN date ELSE old.first,
            last |-> date, occurrences |-> OccurrencesOf(old)]

(* update_history on one result touches the record of its ticker only.     *)
LEMMA AdvanceEffect ==
  ASSUME NEW records \in Ledger, NEW result \in Result, NEW date \in Day
  PROVE  /\ Advance(records, result, date) \in Ledger
         /\ Advance(records, result, date) =
              [records EXCEPT ![result.ticker] = Advanced(records, result, date)]
         /\ Advanced(records, result, date) \in Record \union {None}
<1> DEFINE old == ActiveHistory(records, date)[result.ticker]
<1>1. result.ticker \in Ticker /\ result.scored \in BOOLEAN
  BY DEF Result
<1>2. old \in Record \union {None}
  BY <1>1, ActiveType DEF Ledger
<1>3. OccurrencesOf(old) \in Nat
  BY <1>2, OccurrencesType
<1>4. Advanced(records, result, date) \in Record \union {None}
  <2> HIDE DEF old
  <2>1. (IF old = None THEN date ELSE old.first) \in Day
    BY <1>2 DEF Record
  <2>2. [first |-> IF old = None THEN date ELSE old.first,
         last |-> date, occurrences |-> OccurrencesOf(old)] \in Record
    BY <1>3, <2>1 DEF Record
  <2>3. QED
    BY <2>2 DEF Advanced, old
<1>5. Advance(records, result, date) =
        [records EXCEPT ![result.ticker] = Advanced(records, result, date)]
  BY DEF Advance, Advanced
<1>6. QED
  BY <1>1, <1>4, <1>5 DEF Ledger

(* The steps of the loop.                                                  *)
LEMMA LoopSteps ==
  ASSUME NEW records \in Ledger, NEW results \in Seq(Result), NEW date \in Day,
         NEW f, IsLoop(f, records, results, date, Len(results))
  PROVE  /\ f[0] = records
         /\ \A n \in 1 .. Len(results) :
              /\ f[n] = Advance(f[n - 1], results[n], date)
              /\ results[n] \in Result
BY DEF IsLoop

(* Each ledger of the loop is a ledger.                                    *)
LEMMA LoopType ==
  ASSUME NEW records \in Ledger, NEW results \in Seq(Result), NEW date \in Day,
         NEW f, IsLoop(f, records, results, date, Len(results))
  PROVE  \A n \in 0 .. Len(results) : f[n] \in Ledger
<1> DEFINE T == {n \in Nat : n <= Len(results) => f[n] \in Ledger}
<1>1. Len(results) \in Nat
  OBVIOUS
<1>2. 0 \in T
  BY LoopSteps
<1>3. ASSUME NEW n \in Nat, n \in T PROVE n + 1 \in T
  <2>1. CASE n + 1 <= Len(results)
    <3>1. f[n] \in Ledger
      BY <1>1, <1>3, <2>1
    <3>2. n + 1 \in 1 .. Len(results)
      BY <2>1
    <3>3. f[n + 1] = Advance(f[n], results[n + 1], date) /\ results[n + 1] \in Result
      BY <3>2, LoopSteps
    <3>4. f[n + 1] \in Ledger
      BY <3>1, <3>3, AdvanceEffect
    <3>5. QED
      BY <3>4
  <2>2. QED
    BY <1>1, <2>1
<1>4. Nat \subseteq T
  <2> HIDE DEF T
  <2>1. QED
    BY <1>2, <1>3, Induction
<1>5. QED
  BY <1>1, <1>4

(* A record of the ledger that update_history leaves is the old one, or    *)
(* that of a rejection on the date, which goes on from the old one.        *)
Renewed(records, results, date, now, t) ==
  now[t] # None /\ now[t] # records[t] =>
    /\ GatedOut(results, t) # {}
    /\ now[t].last = date
    /\ \/ now[t].first = date
       \/ records[t] # None /\ now[t].first = records[t].first

(* The same of a whole report: its loop ends in a ledger whose records    *)
(* are renewed.                                                            *)
LEMMA UpdateEffect ==
  ASSUME NEW records \in Ledger, NEW results \in Seq(Result), NEW date \in Day
  PROVE  /\ UpdateHistory(records, results, date) \in Ledger
         /\ \A t \in Ticker :
              Renewed(records, results, date, UpdateHistory(records, results, date), t)
<1>1. Len(results) \in Nat
  OBVIOUS
<1>2. PICK f : /\ IsLoop(f, records, results, date, Len(results))
               /\ UpdateHistory(records, results, date) = f[Len(results)]
  BY <1>1, UpdateIsLoop
<1>3. \A n \in 0 .. Len(results) : f[n] \in Ledger
  BY <1>2, LoopType
<1> DEFINE T == {n \in Nat : n <= Len(results) =>
                   \A t \in Ticker : Renewed(records, results, date, f[n], t)}
<1>4. 0 \in T
  BY <1>2, LoopSteps DEF Renewed
<1>5. ASSUME NEW n \in Nat, n \in T PROVE n + 1 \in T
  <2> SUFFICES ASSUME n + 1 <= Len(results), NEW t \in Ticker
               PROVE  Renewed(records, results, date, f[n + 1], t)
    OBVIOUS
  <2> DEFINE r == results[n + 1]
  <2>1. n + 1 \in 1 .. Len(results) /\ n \in 0 .. Len(results)
    BY <1>1
  <2>2. f[n + 1] = Advance(f[n], r, date) /\ r \in Result
    BY <1>2, <2>1, LoopSteps
  <2>3. f[n] \in Ledger /\ Renewed(records, results, date, f[n], t)
    BY <1>1, <1>3, <1>5, <2>1
  <2>4. f[n + 1] = [f[n] EXCEPT ![r.ticker] = Advanced(f[n], r, date)]
    <3> HIDE DEF r, T
    <3>1. f[n] \in Ledger
      BY <2>3
    <3>2. Advance(f[n], r, date) = [f[n] EXCEPT ![r.ticker] = Advanced(f[n], r, date)]
      BY <2>2, <3>1, AdvanceEffect
    <3>3. QED
      BY <2>2, <3>2
  <2>5. CASE r.ticker # t
    <3>1. f[n + 1][t] = f[n][t]
      BY <2>3, <2>4, <2>5 DEF Ledger
    <3>2. QED
      BY <2>3, <3>1 DEF Renewed
  <2>6. CASE r.ticker = t
    <3>1. f[n + 1][t] = Advanced(f[n], r, date)
      BY <2>3, <2>4, <2>6 DEF Ledger
    <3>2. CASE r.scored
      BY <3>1, <3>2 DEF Advanced, Renewed
    <3>3. CASE ~r.scored
      <4>1. n + 1 \in GatedOut(results, t)
        BY <2>1, <2>6, <3>3 DEF GatedOut
      <4> DEFINE old == ActiveHistory(f[n], date)[t]
      <4>2. old # None => f[n][t] # None /\ old = f[n][t]
        BY <2>3, ActiveType
      <4> HIDE DEF old
      <4>3. f[n + 1][t].last = date
            /\ f[n + 1][t].first = IF old = None THEN date ELSE old.first
        BY <2>6, <3>1, <3>3 DEF Advanced, old
      <4>4. QED
        BY <2>3, <4>1, <4>2, <4>3 DEF Renewed
    <3>4. QED
      BY <3>2, <3>3
  <2>7. QED
    BY <2>5, <2>6
<1>6. Nat \subseteq T
  <2> HIDE DEF T
  <2>1. QED
    BY <1>4, <1>5, Induction
<1>7. \A t \in Ticker : Renewed(records, results, date, f[Len(results)], t)
  BY <1>1, <1>6
<1>8. QED
  BY <1>1, <1>2, <1>3, <1>7

(* One step of the loop, as the record of one ticker sees it.              *)
LEMMA LoopOnTicker ==
  ASSUME NEW records \in Ledger, NEW results \in Seq(Result), NEW date \in Day,
         NEW f, IsLoop(f, records, results, date, Len(results)),
         NEW t \in Ticker, NEW n \in Nat, n + 1 <= Len(results)
  PROVE  /\ f[n] \in Ledger /\ results[n + 1] \in Result
         /\ f[n + 1][t] = IF results[n + 1].ticker = t
                           THEN Advanced(f[n], results[n + 1], date) ELSE f[n][t]
<1> DEFINE r == results[n + 1]
<1>1. n + 1 \in 1 .. Len(results) /\ n \in 0 .. Len(results)
  OBVIOUS
<1>2. f[n + 1] = Advance(f[n], r, date) /\ r \in Result
  BY <1>1, LoopSteps
<1>3. f[n] \in Ledger
  BY <1>1, LoopType
<1> HIDE DEF r
<1>4. f[n + 1] = [f[n] EXCEPT ![r.ticker] = Advanced(f[n], r, date)]
  BY <1>2, <1>3, AdvanceEffect
<1>5. f[n + 1][t] = IF r.ticker = t THEN Advanced(f[n], r, date) ELSE f[n][t]
  BY <1>3, <1>4 DEF Ledger
<1>6. QED
  BY <1>2, <1>3, <1>5 DEF r

(* The rejections of a ticker among the first n results.                   *)
GatedUpTo(results, t, n) ==
  {i \in 1 .. n : results[i].ticker = t /\ ~results[i].scored}

(* There are finitely many, and a further result adds itself or none.      *)
LEMMA GatedCount ==
  ASSUME NEW results \in Seq(Result), NEW t, NEW n \in Nat
  PROVE  /\ GatedUpTo(results, t, Len(results)) = GatedOut(results, t)
         /\ Cardinality(GatedUpTo(results, t, n)) \in Nat
         /\ Cardinality(GatedUpTo(results, t, n + 1)) =
              Cardinality(GatedUpTo(results, t, n)) +
                (IF results[n + 1].ticker = t /\ ~results[n + 1].scored
                 THEN 1 ELSE 0)
<1> DEFINE G == GatedUpTo(results, t, n)
<1>1. GatedUpTo(results, t, Len(results)) = GatedOut(results, t)
  BY DEF GatedUpTo, GatedOut
<1>2. IsFiniteSet(G) /\ n + 1 \notin G
  <2>1. IsFiniteSet(1 .. n) /\ G \subseteq 1 .. n
    BY FS_Interval DEF GatedUpTo
  <2>2. QED
    BY <2>1, FS_Subset DEF GatedUpTo
<1>3. Cardinality(G) \in Nat
  BY <1>2, FS_CardinalityType
<1>4. GatedUpTo(results, t, n + 1) =
        IF results[n + 1].ticker = t /\ ~results[n + 1].scored
        THEN G \union {n + 1} ELSE G
  BY DEF GatedUpTo
<1> HIDE DEF G
<1>5. Cardinality(G \union {n + 1}) = Cardinality(G) + 1
  BY <1>2, FS_AddElement
<1>6. QED
  BY <1>1, <1>3, <1>4, <1>5 DEF G

(* update_history adds to the count of a ticker at most its rejections.    *)
LEMMA UpdateCounts ==
  ASSUME NEW records \in Ledger, NEW results \in Seq(Result), NEW date \in Day,
         NEW t \in Ticker, NEW had \in Nat,
         records[t] # None => records[t].occurrences <= had,
         UpdateHistory(records, results, date)[t] # None
  PROVE  UpdateHistory(records, results, date)[t].occurrences
           <= had + Cardinality(GatedOut(results, t))
<1>1. Len(results) \in Nat
  OBVIOUS
<1>2. PICK f : /\ IsLoop(f, records, results, date, Len(results))
               /\ UpdateHistory(records, results, date) = f[Len(results)]
  BY <1>1, UpdateIsLoop
<1> DEFINE T == {n \in Nat : n <= Len(results) /\ f[n][t] # None =>
                   f[n][t].occurrences
                     <= had + Cardinality(GatedUpTo(results, t, n))}
<1>3. 0 \in T
  <2>1. f[0] = records
    BY <1>2, LoopSteps
  <2>2. Cardinality(GatedUpTo(results, t, 0)) \in Nat
    BY GatedCount
  <2>3. records[t] # None => records[t].occurrences \in Nat
    BY DEF Ledger, Record
  <2>4. QED
    BY <2>1, <2>2, <2>3
<1>4. ASSUME NEW n \in Nat, n \in T PROVE n + 1 \in T
  <2> SUFFICES ASSUME n + 1 <= Len(results), f[n + 1][t] # None
               PROVE  f[n + 1][t].occurrences
                        <= had + Cardinality(GatedUpTo(results, t, n + 1))
    OBVIOUS
  <2> DEFINE r == results[n + 1]
             old == ActiveHistory(f[n], date)[t]
             c == Cardinality(GatedUpTo(results, t, n))
  <2>1. /\ f[n] \in Ledger
        /\ f[n + 1][t] = IF r.ticker = t THEN Advanced(f[n], r, date) ELSE f[n][t]
    BY <1>2, LoopOnTicker
  <2>2. f[n][t] # None => f[n][t].occurrences \in Nat /\ f[n][t].occurrences <= had + c
    BY <1>1, <1>4, <2>1 DEF Ledger, Record
  <2>3. /\ c \in Nat
        /\ Cardinality(GatedUpTo(results, t, n + 1)) =
             c + (IF r.ticker = t /\ ~r.scored THEN 1 ELSE 0)
    BY GatedCount
  <2>4. old # None => f[n][t] # None /\ old = f[n][t]
    BY <2>1, ActiveType
  <2>5. r.ticker = t /\ ~r.scored => f[n + 1][t].occurrences = OccurrencesOf(old)
    BY <2>1 DEF Advanced
  <2>6. r.ticker = t => ~r.scored
    BY <2>1 DEF Advanced
  <2> HIDE DEF r, old, c
  <2>7. CASE r.ticker = t
    BY <2>2, <2>3, <2>4, <2>5, <2>6, <2>7 DEF OccurrencesOf
  <2>8. CASE r.ticker # t
    BY <2>1, <2>2, <2>3, <2>8
  <2>9. QED
    BY <2>7, <2>8
<1>5. Nat \subseteq T
  <2> HIDE DEF T
  <2>1. QED
    BY <1>3, <1>4, Induction
<1>6. QED
  BY <1>1, <1>2, <1>5, GatedCount

(* Of a ticker that the report accepts, update_history leaves at most the  *)
(* rejections that follow in the report.                                   *)
LEMMA UpdateStartsOver ==
  ASSUME NEW records \in Ledger, NEW results \in Seq(Result), NEW date \in Day,
         NEW t \in Ticker, NEW i \in DOMAIN results,
         results[i].ticker = t, results[i].scored,
         UpdateHistory(records, results, date)[t] # None
  PROVE  /\ UpdateHistory(records, results, date)[t].first = date
         /\ UpdateHistory(records, results, date)[t].occurrences
              <= Cardinality(GatedOut(results, t))
<1>1. Len(results) \in Nat /\ i \in 1 .. Len(results)
  OBVIOUS
<1>2. PICK f : /\ IsLoop(f, records, results, date, Len(results))
               /\ UpdateHistory(records, results, date) = f[Len(results)]
  BY <1>1, UpdateIsLoop
<1> DEFINE T == {n \in Nat : i <= n /\ n <= Len(results) /\ f[n][t] # None =>
                   /\ f[n][t].first = date
                   /\ f[n][t].occurrences <= Cardinality(GatedUpTo(results, t, n))}
<1>3. 0 \in T
  BY <1>1
<1>4. ASSUME NEW n \in Nat, n \in T PROVE n + 1 \in T
  <2> SUFFICES ASSUME i <= n + 1, n + 1 <= Len(results), f[n + 1][t] # None
               PROVE  /\ f[n + 1][t].first = date
                      /\ f[n + 1][t].occurrences
                           <= Cardinality(GatedUpTo(results, t, n + 1))
    OBVIOUS
  <2> DEFINE r == results[n + 1]
             old == ActiveHistory(f[n], date)[t]
             c == Cardinality(GatedUpTo(results, t, n))
  <2>1. /\ f[n] \in Ledger
        /\ f[n + 1][t] = IF r.ticker = t THEN Advanced(f[n], r, date) ELSE f[n][t]
    BY <1>2, LoopOnTicker
  <2>2. r.ticker = t => ~r.scored
    BY <2>1 DEF Advanced
  <2>3. i <= n
    BY <1>1, <2>2
  <2>4. f[n][t] # None =>
          /\ f[n][t].first = date /\ f[n][t].occurrences <= c
          /\ f[n][t].occurrences \in Nat
    BY <1>1, <1>4, <2>1, <2>3 DEF Ledger, Record
  <2>5. /\ c \in Nat
        /\ Cardinality(GatedUpTo(results, t, n + 1)) =
             c + (IF r.ticker = t /\ ~r.scored THEN 1 ELSE 0)
    BY GatedCount
  <2>6. old # None => f[n][t] # None /\ old = f[n][t]
    BY <2>1, ActiveType
  <2>7. r.ticker = t =>
          /\ f[n + 1][t].occurrences = OccurrencesOf(old)
          /\ f[n + 1][t].first = IF old = None THEN date ELSE old.first
    BY <2>1, <2>2 DEF Advanced
  <2> HIDE DEF r, old, c
  <2>8. CASE r.ticker = t
    BY <2>2, <2>4, <2>5, <2>6, <2>7, <2>8 DEF OccurrencesOf
  <2>9. CASE r.ticker # t
    BY <2>1, <2>4, <2>5, <2>9
  <2>10. QED
    BY <2>8, <2>9
<1>5. Nat \subseteq T
  <2> HIDE DEF T
  <2>1. QED
    BY <1>3, <1>4, Induction
<1>6. QED
  BY <1>1, <1>2, <1>5, GatedCount

(* For a ticker that the report names once, the loop comes to one step     *)
(* from the ledger as it was read.                                         *)
LEMMA UpdateOnce ==
  ASSUME NEW records \in Ledger, NEW results \in Seq(Result), NEW date \in Day,
         NEW i \in DOMAIN results, NamedOnce(results, i)
  PROVE  UpdateHistory(records, results, date)[results[i].ticker]
           = Advanced(records, results[i], date)
<1> DEFINE t == results[i].ticker
<1>1. Len(results) \in Nat /\ i \in 1 .. Len(results) /\ t \in Ticker
  <2>1. results[i] \in Result /\ Len(results) \in Nat /\ i \in 1 .. Len(results)
    OBVIOUS
  <2>2. QED
    BY <2>1 DEF Result
<1>2. PICK f : /\ IsLoop(f, records, results, date, Len(results))
               /\ UpdateHistory(records, results, date) = f[Len(results)]
  BY <1>1, UpdateIsLoop
<1> DEFINE T == {n \in Nat : n <= Len(results) =>
                   f[n][t] = IF i <= n THEN Advanced(records, results[i], date)
                             ELSE records[t]}
<1>3. 0 \in T
  BY <1>1, <1>2, LoopSteps
<1>4. ASSUME NEW n \in Nat, n \in T PROVE n + 1 \in T
  <2> SUFFICES ASSUME n + 1 <= Len(results)
               PROVE  f[n + 1][t] = IF i <= n + 1
                                    THEN Advanced(records, results[i], date)
                                    ELSE records[t]
    OBVIOUS
  <2> DEFINE r == results[n + 1]
  <2>1. f[n + 1][t] = IF r.ticker = t THEN Advanced(f[n], r, date) ELSE f[n][t]
    BY <1>1, <1>2, LoopOnTicker
  <2>2. r.ticker = t => n + 1 = i
    BY <1>1 DEF NamedOnce
  <2>3. CASE n + 1 = i
    <3>1. f[n][t] = records[t]
      BY <1>1, <1>4, <2>3
    <3>2. Advanced(f[n], r, date) = Advanced(records, r, date)
      BY <1>1, <2>3, <3>1 DEF Advanced, ActiveHistory
    <3>3. QED
      BY <2>1, <2>3, <3>2
  <2>4. CASE n + 1 # i
    BY <1>1, <1>4, <2>1, <2>2, <2>4
  <2>5. QED
    BY <2>3, <2>4
<1>5. Nat \subseteq T
  <2> HIDE DEF T
  <2>1. QED
    BY <1>3, <1>4, Induction
<1>6. QED
  BY <1>1, <1>2, <1>5

-----------------------------------------------------------------------------
(* The locals of a run have their types.                                   *)
LEMMA ActionTypes ==
  ASSUME TypeOK, NEW p \in Proc
  PROVE  /\ run[p].date \in Day
         /\ run[p].history \in Ledger /\ run[p].held \in Ledger
         /\ run[p].results \in Seq(Result)
BY DEF TypeOK, Run

(* So have those of a process that runs nothing.                           *)
LEMMA NoRunType == NoRun \in Run /\ NoLedger \in Ledger
<1>1. 0 \in Day
  BY LedgerAssumption DEF Day
<1>2. <<>> \in Seq(Result)
  OBVIOUS
<1>3. NoLedger \in Ledger
  BY DEF NoLedger, Ledger
<1>4. QED
  BY <1>1, <1>2, <1>3 DEF NoRun, Run

(* The gate gives one result for each entry, and counts by the history.    *)
LEMMA GateEffect ==
  ASSUME NEW history \in Ledger, NEW universe \in Universe
  PROVE  /\ RunGate(universe, history) \in Seq(Result)
         /\ \A i \in DOMAIN RunGate(universe, history) :
              LET r == RunGate(universe, history)[i]
              IN  r.occurrences = IF r.scored THEN 0 ELSE OccurrencesOf(history[r.ticker])
<1>1. PICK n \in 0 .. MaxEntries : universe \in [1 .. n -> Entry]
  BY DEF Universe
<1>2. n \in Nat /\ DOMAIN universe = 1 .. n
  BY <1>1, LedgerAssumption
<1> DEFINE results == RunGate(universe, history)
<1>3. ASSUME NEW i \in 1 .. n
      PROVE  /\ results[i] \in Result /\ results[i].ticker = universe[i].ticker
             /\ results[i].occurrences = IF results[i].scored THEN 0
                                         ELSE OccurrencesOf(history[results[i].ticker])
  <2>1. universe[i].ticker \in Ticker /\ universe[i].passes \in BOOLEAN
    BY <1>1 DEF Entry
  <2>2. OccurrencesOf(history[universe[i].ticker]) \in Nat
    BY <2>1, OccurrencesType DEF Ledger
  <2>3. (universe[i].passes /\ IsFirst(universe, i)) \in BOOLEAN
    BY <2>1
  <2> DEFINE scored == universe[i].passes /\ IsFirst(universe, i)
  <2>4. results[i] = [ticker |-> universe[i].ticker, scored |-> scored,
                      occurrences |-> IF scored THEN 0
                                      ELSE OccurrencesOf(history[universe[i].ticker])]
    BY <1>2 DEF RunGate
  <2> HIDE DEF scored, results
  <2>5. scored \in BOOLEAN
    BY <2>3 DEF scored
  <2>6. QED
    BY <2>1, <2>2, <2>4, <2>5 DEF Result
<1>4. results = [i \in 1 .. n |-> results[i]]
  BY <1>2 DEF RunGate
<1>5. results \in Seq(Result) /\ DOMAIN results = 1 .. n
  <2> HIDE DEF results
  <2>1. results \in [1 .. n -> Result]
    BY <1>3, <1>4
  <2>2. QED
    BY <1>2, <2>1
<1>6. QED
  BY <1>3, <1>5

(* The variables have their types at first ...                             *)
LEMMA TypeInit == Init => TypeOK
BY NoRunType, LedgerAssumption DEF Init, TypeOK, Day

(* What a written report adds to the rejections of each ticker.            *)
WrittenOut(p) ==
  [t \in Ticker |-> flagged[t] + Cardinality(GatedOut(run[p].results, t))]

LEMMA WrittenType ==
  ASSUME TypeOK, NEW p \in Proc
  PROVE  /\ WrittenOut(p) \in [Ticker -> Nat]
         /\ \A t \in Ticker : flagged[t] <= WrittenOut(p)[t]
<1>1. run[p].results \in Seq(Result) /\ Len(run[p].results) \in Nat
  BY ActionTypes
<1>2. \A t \in Ticker : Cardinality(GatedOut(run[p].results, t)) \in Nat
  BY <1>1, GatedCount
<1>3. QED
  BY <1>2 DEF WrittenOut, TypeOK

(* ... and after each step.                                                *)
LEMMA TypeStep == TypeOK /\ [Next]_vars => TypeOK'
<1> SUFFICES ASSUME TypeOK, [Next]_vars PROVE TypeOK'
  OBVIOUS
<1>1. ASSUME NEW p \in Proc, LoadHistory(p) PROVE TypeOK'
  <2>1. ActiveHistory(ledger, today) \in Ledger
    BY ActiveType DEF TypeOK
  <2>2. [NoRun EXCEPT !.date = today, !.history = ActiveHistory(ledger, today)] \in Run
    BY <2>1, NoRunType DEF TypeOK, Run
  <2>3. QED
    BY <1>1, <2>2 DEF LoadHistory, Goto, TypeOK
<1>2. ASSUME NEW p \in Proc, NEW universe \in Universe, Gate(p, universe) PROVE TypeOK'
  <2>1. RunGate(universe, run[p].history) \in Seq(Result)
    BY ActionTypes, GateEffect
  <2>2. run' \in [Proc -> Run]
    BY <1>2, <2>1 DEF Gate, TypeOK, Run
  <2>3. QED
    BY <1>2, <2>2 DEF Gate, Goto, TypeOK
<1>3. ASSUME NEW p \in Proc, LoadLedger(p) PROVE TypeOK'
  <2>1. run' \in [Proc -> Run]
    BY <1>3 DEF LoadLedger, TypeOK, Run
  <2>2. QED
    BY <1>3, <2>1 DEF LoadLedger, Goto, TypeOK
<1>4. ASSUME NEW p \in Proc, WriteLedger(p) PROVE TypeOK'
  <2>1. ledger' \in Ledger
    BY <1>4, ActionTypes, UpdateEffect DEF WriteLedger
  <2>2. run' \in [Proc -> Run] /\ pc' \in [Proc -> {"idle", "gate", "update", "write"}]
    BY <1>4, NoRunType DEF WriteLedger, Goto, TypeOK
  <2>3. /\ flagged' = WrittenOut(p)
        /\ flagDays' \in [Ticker -> SUBSET Day]
    BY <1>4, ActionTypes DEF WriteLedger, WrittenOut, TypeOK
  <2>4. today' = today
    BY <1>4 DEF WriteLedger
  <2>5. QED
    BY <2>1, <2>2, <2>3, <2>4, WrittenType DEF TypeOK
<1>5. ASSUME NEW p \in Proc, Abort(p) PROVE TypeOK'
  BY <1>5, NoRunType DEF Abort, Goto, TypeOK
<1>6. CASE Midnight
  BY <1>6, LedgerAssumption DEF Midnight, TypeOK, Day
<1>7. CASE Over \/ UNCHANGED vars
  BY <1>7 DEF Over, TypeOK, vars
<1>8. QED
  BY <1>1, <1>2, <1>3, <1>4, <1>5, <1>6, <1>7 DEF Next

(* The variables have their types: no step makes a record that is not one. *)
THEOREM TypeCorrect == Spec => []TypeOK
BY TypeInit, TypeStep, PTL DEF Spec

-----------------------------------------------------------------------------
(* A record is dated to days on which a run wrote a rejection.             *)
Dated(records) ==
  \A t \in Ticker : records[t] # None =>
    records[t].first \in flagDays[t] /\ records[t].last \in flagDays[t]

(* The history of a run is active, and its report counts by that history.  *)
Judged(p) ==
  /\ \A t \in Ticker : run[p].history[t] # None =>
       IsActive(run[p].history[t], run[p].date)
  /\ \A i \in DOMAIN run[p].results :
       LET r == run[p].results[i]
       IN  r.occurrences = IF r.scored THEN 0 ELSE OccurrencesOf(run[p].history[r.ticker])

DatesInv ==
  /\ TypeOK
  /\ Dated(ledger)
  /\ \A p \in Proc : Dated(run[p].held) /\ Dated(run[p].history) /\ Judged(p)

(* A process that runs nothing has nothing dated or judged wrongly.        *)
LEMMA NoRunDated ==
  ASSUME NEW p \in Proc, run[p] = NoRun
  PROVE  Dated(run[p].held) /\ Dated(run[p].history) /\ Judged(p)
BY DEF NoRun, NoLedger, Dated, Judged

(* A step that only moves the run of p, and adds days, keeps the others.   *)
LEMMA OthersDated ==
  ASSUME DatesInv, NEW p \in Proc, NEW x, run' = [run EXCEPT ![p] = x],
         \A t \in Ticker : flagDays[t] \subseteq flagDays'[t]
  PROVE  \A q \in Proc : q # p => Dated(run[q].held)' /\ Dated(run[q].history)' /\ Judged(q)'
<1> SUFFICES ASSUME NEW q \in Proc, q # p
             PROVE  Dated(run[q].held)' /\ Dated(run[q].history)' /\ Judged(q)'
  OBVIOUS
<1>1. run'[q] = run[q]
  BY DEF DatesInv, TypeOK
<1>2. Dated(run[q].held) /\ Dated(run[q].history) /\ Judged(q)
  BY DEF DatesInv
<1>3. Dated(run[q].held)' /\ Dated(run[q].history)'
  BY <1>1, <1>2 DEF Dated
<1>4. Judged(q)'
  BY <1>1, <1>2 DEF Judged
<1>5. QED
  BY <1>3, <1>4

(* Records stay dated, whichever run takes a step: those that a run read   *)
(* before others wrote are dated to days that stay.                        *)
LEMMA DatesStep == DatesInv /\ [Next]_vars => DatesInv'
<1> SUFFICES ASSUME DatesInv, [Next]_vars PROVE DatesInv'
  OBVIOUS
<1>0. TypeOK /\ TypeOK'
  BY TypeStep DEF DatesInv
<1>1. ASSUME NEW p \in Proc, LoadHistory(p) PROVE DatesInv'
  <2> DEFINE x == [NoRun EXCEPT !.date = today, !.history = ActiveHistory(ledger, today)]
  <2>1. run' = [run EXCEPT ![p] = x] /\ ledger' = ledger /\ flagDays' = flagDays
    BY <1>1 DEF LoadHistory
  <2>2. run'[p] = x
    BY <1>0, <2>1 DEF TypeOK
  <2>3. x.date = today /\ x.history = ActiveHistory(ledger, today)
        /\ x.results = <<>> /\ x.held = NoLedger
    BY DEF NoRun
  <2> HIDE DEF x
  <2>4. Dated(run[p].held)'
    BY <2>2, <2>3 DEF Dated, NoLedger
  <2>5. \A t \in Ticker : run'[p].history[t] # None =>
          run'[p].history[t] = ledger[t] /\ ledger[t] # None /\ IsActive(ledger[t], today)
    BY <1>0, <2>2, <2>3, ActiveType DEF TypeOK
  <2>6. Dated(run[p].history)'
    BY <2>1, <2>5 DEF Dated, DatesInv
  <2>7. Judged(p)'
    BY <2>2, <2>3, <2>5 DEF Judged
  <2>8. \A q \in Proc : q # p => Dated(run[q].held)' /\ Dated(run[q].history)' /\ Judged(q)'
    BY <2>1, OthersDated
  <2>9. Dated(ledger)'
    BY <2>1 DEF Dated, DatesInv
  <2>10. QED
    BY <1>0, <2>4, <2>6, <2>7, <2>8, <2>9 DEF DatesInv
<1>2. ASSUME NEW p \in Proc, NEW universe \in Universe, Gate(p, universe) PROVE DatesInv'
  <2> DEFINE x == [run[p] EXCEPT !.results = RunGate(universe, run[p].history)]
  <2>1. run' = [run EXCEPT ![p] = x] /\ ledger' = ledger /\ flagDays' = flagDays
    BY <1>2 DEF Gate
  <2>2. run'[p] = x
    BY <1>0, <2>1 DEF TypeOK
  <2>3. x.date = run[p].date /\ x.history = run[p].history /\ x.held = run[p].held
        /\ x.results = RunGate(universe, run[p].history)
    BY <1>0 DEF TypeOK, Run
  <2> HIDE DEF x
  <2>4. Dated(run[p].held)' /\ Dated(run[p].history)'
    BY <2>1, <2>2, <2>3 DEF Dated, DatesInv
  <2>5. Judged(p)'
    BY <1>0, <2>2, <2>3, ActionTypes, GateEffect DEF Judged, DatesInv
  <2>6. \A q \in Proc : q # p => Dated(run[q].held)' /\ Dated(run[q].history)' /\ Judged(q)'
    BY <2>1, OthersDated
  <2>7. Dated(ledger)'
    BY <2>1 DEF Dated, DatesInv
  <2>8. QED
    BY <1>0, <2>4, <2>5, <2>6, <2>7 DEF DatesInv
<1>3. ASSUME NEW p \in Proc, LoadLedger(p) PROVE DatesInv'
  <2> DEFINE x == [run[p] EXCEPT !.held = ledger]
  <2>1. run' = [run EXCEPT ![p] = x] /\ ledger' = ledger /\ flagDays' = flagDays
    BY <1>3 DEF LoadLedger
  <2>2. run'[p] = x
    BY <1>0, <2>1 DEF TypeOK
  <2>3. x.date = run[p].date /\ x.history = run[p].history /\ x.held = ledger
        /\ x.results = run[p].results
    BY <1>0 DEF TypeOK, Run
  <2> HIDE DEF x
  <2>4. Dated(run[p].held)' /\ Dated(run[p].history)'
    BY <2>1, <2>2, <2>3 DEF Dated, DatesInv
  <2>5. Judged(p)'
    BY <2>2, <2>3 DEF Judged, DatesInv
  <2>6. \A q \in Proc : q # p => Dated(run[q].held)' /\ Dated(run[q].history)' /\ Judged(q)'
    BY <2>1, OthersDated
  <2>7. Dated(ledger)'
    BY <2>1 DEF Dated, DatesInv
  <2>8. QED
    BY <1>0, <2>4, <2>5, <2>6, <2>7 DEF DatesInv
<1>4. ASSUME NEW p \in Proc, WriteLedger(p) PROVE DatesInv'
  <2> DEFINE now == UpdateHistory(run[p].held, run[p].results, run[p].date)
  <2>1. run' = [run EXCEPT ![p] = NoRun] /\ ledger' = now
    BY <1>4 DEF WriteLedger
  <2>2. \A t \in Ticker :
          flagDays'[t] = flagDays[t] \union
            (IF GatedOut(run[p].results, t) = {} THEN {} ELSE {run[p].date})
    BY <1>4 DEF WriteLedger
  <2>3. \A t \in Ticker : Renewed(run[p].held, run[p].results, run[p].date, now, t)
    BY <1>0, ActionTypes, UpdateEffect
  <2>4. Dated(run[p].held)
    BY DEF DatesInv
  <2> HIDE DEF now
  <2>5. Dated(ledger)'
    <3> SUFFICES ASSUME NEW t \in Ticker, ledger'[t] # None
                 PROVE  ledger'[t].first \in flagDays'[t] /\ ledger'[t].last \in flagDays'[t]
      BY DEF Dated
    <3>1. CASE now[t] = run[p].held[t]
      BY <2>1, <2>2, <2>4, <3>1 DEF Dated
    <3>2. CASE now[t] # run[p].held[t]
      BY <2>1, <2>2, <2>3, <2>4, <3>2 DEF Dated, Renewed
    <3>3. QED
      BY <3>1, <3>2
  <2>6. run'[p] = NoRun
    BY <1>0, <2>1 DEF TypeOK
  <2>7. Dated(run[p].held)' /\ Dated(run[p].history)' /\ Judged(p)'
    BY <2>6 DEF NoRun, NoLedger, Dated, Judged
  <2>8. \A q \in Proc : q # p => Dated(run[q].held)' /\ Dated(run[q].history)' /\ Judged(q)'
    BY <2>1, <2>2, OthersDated
  <2>9. QED
    BY <1>0, <2>5, <2>7, <2>8 DEF DatesInv
<1>5. ASSUME NEW p \in Proc, Abort(p) PROVE DatesInv'
  <2>1. run' = [run EXCEPT ![p] = NoRun] /\ ledger' = ledger /\ flagDays' = flagDays
    BY <1>5 DEF Abort
  <2>2. run'[p] = NoRun
    BY <1>0, <2>1 DEF TypeOK
  <2>3. Dated(run[p].held)' /\ Dated(run[p].history)' /\ Judged(p)'
    BY <2>2 DEF NoRun, NoLedger, Dated, Judged
  <2>4. \A q \in Proc : q # p => Dated(run[q].held)' /\ Dated(run[q].history)' /\ Judged(q)'
    BY <2>1, OthersDated
  <2>5. Dated(ledger)'
    BY <2>1 DEF Dated, DatesInv
  <2>6. QED
    BY <1>0, <2>3, <2>4, <2>5 DEF DatesInv
<1>6. CASE Midnight \/ Over \/ UNCHANGED vars
  <2>1. ledger' = ledger /\ run' = run /\ flagDays' = flagDays
    BY <1>6 DEF Midnight, Over, vars
  <2>2. QED
    BY <1>0, <2>1 DEF DatesInv, Dated, Judged
<1>7. QED
  BY <1>1, <1>2, <1>3, <1>4, <1>5, <1>6 DEF Next

(* At first there is no record.                                            *)
LEMMA DatesInit == Init => DatesInv
<1> SUFFICES ASSUME Init PROVE DatesInv
  OBVIOUS
<1>1. TypeOK
  BY TypeInit
<1>2. Dated(ledger)
  BY DEF Init, Dated, NoLedger
<1>3. \A p \in Proc : run[p] = NoRun
  BY DEF Init
<1>4. QED
  BY <1>1, <1>2, <1>3, NoRunDated DEF DatesInv

(* Whatever runs overlap or die, a count above 1 in a report rests on a    *)
(* rejection that some run wrote within the cooldown before its date.      *)
THEOREM RepeatsAreRecent == Spec => []RepeatIsRecent
<1>1. DatesInv => RepeatIsRecent
  <2> SUFFICES ASSUME DatesInv, NEW p \in Proc, NEW i \in DOMAIN run[p].results,
                      run[p].results[i].occurrences > 1
               PROVE  \E d \in flagDays[run[p].results[i].ticker] :
                        Cooldown = 0 \/ d + Cooldown >= run[p].date
    BY DEF RepeatIsRecent
  <2> DEFINE t == run[p].results[i].ticker
  <2>1. t \in Ticker
    <3>1. run[p].results \in Seq(Result)
      BY ActionTypes DEF DatesInv
    <3>2. run[p].results[i] \in Result
      BY <3>1
    <3>3. QED
      BY <3>2 DEF Result
  <2>2. run[p].history[t] # None
    BY DEF DatesInv, Judged, OccurrencesOf
  <2>3. IsActive(run[p].history[t], run[p].date) /\ run[p].history[t].last \in flagDays[t]
    BY <2>1, <2>2 DEF DatesInv, Judged, Dated
  <2>4. QED
    BY <2>3 DEF IsActive
<1>2. QED
  BY <1>1, DatesInit, DatesStep, PTL DEF Spec

-----------------------------------------------------------------------------
(* A record counts no more rejections than were written.                   *)
Counted(records) == \A t \in Ticker : records[t] # None =>
                      records[t].occurrences <= flagged[t]

CountsInv ==
  /\ DatesInv
  /\ Counted(ledger)
  /\ \A p \in Proc : Counted(run[p].held)

(* A process that runs nothing counts nothing.                             *)
LEMMA NoRunCounted ==
  ASSUME NEW p \in Proc, run[p] = NoRun
  PROVE  Counted(run[p].held)
BY DEF NoRun, NoLedger, Counted

(* A step that only moves the run of p, and counts up, keeps the others.   *)
LEMMA OthersCounted ==
  ASSUME CountsInv, NEW p \in Proc, NEW x, run' = [run EXCEPT ![p] = x],
         \A t \in Ticker : flagged[t] <= flagged'[t],
         flagged' \in [Ticker -> Nat]
  PROVE  \A q \in Proc : q # p => Counted(run[q].held)'
<1> SUFFICES ASSUME NEW q \in Proc, q # p
             PROVE  Counted(run[q].held)'
  OBVIOUS
<1>1. run'[q] = run[q] /\ TypeOK
  BY DEF CountsInv, DatesInv, TypeOK
<1>2. Counted(run[q].held)
  BY DEF CountsInv
<1>3. run[q].held \in Ledger
  BY <1>1, ActionTypes
<1>4. \A t \in Ticker : run[q].held[t] # None => run[q].held[t].occurrences \in Nat
  BY <1>3 DEF Ledger, Record
<1>5. Counted(run[q].held)'
  BY <1>1, <1>2, <1>4 DEF Counted, TypeOK
<1>6. QED
  BY <1>5

(* The same of a step that counts nothing.                                 *)
LEMMA UnchangedCounted ==
  ASSUME CountsInv, NEW p \in Proc, NEW x, run' = [run EXCEPT ![p] = x],
         flagged' = flagged
  PROVE  \A q \in Proc : q # p => Counted(run[q].held)'
<1>1. flagged \in [Ticker -> Nat]
  BY DEF CountsInv, DatesInv, TypeOK
<1>2. \A t \in Ticker : flagged[t] <= flagged'[t]
  BY <1>1
<1>3. QED
  BY <1>1, <1>2, OthersCounted

(* A run adds to what it read of a ticker at most the rejections that its  *)
(* report adds to those written.                                           *)
LEMMA WriteCounts ==
  ASSUME CountsInv, NEW p \in Proc, WriteLedger(p)
  PROVE  Counted(ledger)'
<1> SUFFICES ASSUME NEW t \in Ticker, ledger'[t] # None
             PROVE  ledger'[t].occurrences <= flagged'[t]
  BY DEF Counted
<1>1. TypeOK
  BY DEF CountsInv, DatesInv
<1>2. run[p].held \in Ledger /\ run[p].results \in Seq(Result) /\ run[p].date \in Day
  BY <1>1, ActionTypes
<1>3. flagged[t] \in Nat
      /\ (run[p].held[t] # None => run[p].held[t].occurrences <= flagged[t])
  BY <1>1 DEF TypeOK, CountsInv, Counted
<1>4. /\ ledger' = UpdateHistory(run[p].held, run[p].results, run[p].date)
      /\ flagged'[t] = flagged[t] + Cardinality(GatedOut(run[p].results, t))
  BY DEF WriteLedger
<1>5. QED
  BY <1>2, <1>3, <1>4, UpdateCounts

(* The ledger stays counted, whichever run takes a step.                   *)
LEMMA CountsStep == CountsInv /\ [Next]_vars => CountsInv'
<1> SUFFICES ASSUME CountsInv, [Next]_vars PROVE CountsInv'
  OBVIOUS
<1>0. TypeOK /\ TypeOK' /\ DatesInv'
  BY TypeStep, DatesStep DEF CountsInv, DatesInv
<1>1. ASSUME NEW p \in Proc, LoadHistory(p) PROVE CountsInv'
  <2> DEFINE x == [NoRun EXCEPT !.date = today, !.history = ActiveHistory(ledger, today)]
  <2>1. run' = [run EXCEPT ![p] = x] /\ ledger' = ledger /\ flagged' = flagged
    BY <1>1 DEF LoadHistory
  <2>2. run'[p] = x
    BY <1>0, <2>1 DEF TypeOK
  <2>3. x.results = <<>> /\ x.held = NoLedger
    BY DEF NoRun
  <2> HIDE DEF x
  <2>4. Counted(run[p].held)'
    BY <2>2, <2>3 DEF Counted, NoLedger
  <2>5. \A q \in Proc : q # p => Counted(run[q].held)'
    BY <2>1, UnchangedCounted
  <2>6. Counted(ledger)'
    BY <2>1 DEF Counted, CountsInv
  <2>7. QED
    BY <1>0, <2>4, <2>5, <2>6 DEF CountsInv
<1>2. ASSUME NEW p \in Proc, NEW universe \in Universe, Gate(p, universe) PROVE CountsInv'
  <2> DEFINE x == [run[p] EXCEPT !.results = RunGate(universe, run[p].history)]
  <2>1. run' = [run EXCEPT ![p] = x] /\ ledger' = ledger /\ flagged' = flagged
    BY <1>2 DEF Gate
  <2>2. run'[p] = x
    BY <1>0, <2>1 DEF TypeOK
  <2>3. x.held = run[p].held /\ x.results = RunGate(universe, run[p].history)
    BY <1>0 DEF TypeOK, Run
  <2> HIDE DEF x
  <2>5. Counted(run[p].held)'
    BY <2>1, <2>2, <2>3 DEF Counted, CountsInv
  <2>6. \A q \in Proc : q # p => Counted(run[q].held)'
    BY <2>1, UnchangedCounted
  <2>7. Counted(ledger)'
    BY <2>1 DEF Counted, CountsInv
  <2>8. QED
    BY <1>0, <2>5, <2>6, <2>7 DEF CountsInv
<1>3. ASSUME NEW p \in Proc, LoadLedger(p) PROVE CountsInv'
  <2> DEFINE x == [run[p] EXCEPT !.held = ledger]
  <2>1. run' = [run EXCEPT ![p] = x] /\ ledger' = ledger /\ flagged' = flagged
    BY <1>3 DEF LoadLedger
  <2>2. run'[p] = x
    BY <1>0, <2>1 DEF TypeOK
  <2>3. x.held = ledger /\ x.results = run[p].results
    BY <1>0 DEF TypeOK, Run
  <2> HIDE DEF x
  <2>4. Counted(run[p].held)'
    BY <2>1, <2>2, <2>3 DEF Counted, CountsInv
  <2>5. \A q \in Proc : q # p => Counted(run[q].held)'
    BY <2>1, UnchangedCounted
  <2>6. Counted(ledger)'
    BY <2>1 DEF Counted, CountsInv
  <2>7. QED
    BY <1>0, <2>4, <2>5, <2>6 DEF CountsInv
<1>4. ASSUME NEW p \in Proc, WriteLedger(p) PROVE CountsInv'
  <2>1. run' = [run EXCEPT ![p] = NoRun]
        /\ flagged' = WrittenOut(p)
    BY <1>4 DEF WriteLedger, WrittenOut
  <2>2. run'[p] = NoRun
    BY <1>0, <2>1 DEF TypeOK
  <2>3. Counted(run[p].held)'
    BY <2>2 DEF NoRun, NoLedger, Counted
  <2>4. \A t \in Ticker : flagged[t] <= flagged'[t]
    BY <1>0, <2>1, WrittenType
  <2>5. \A q \in Proc : q # p => Counted(run[q].held)'
    BY <1>0, <2>1, <2>4, OthersCounted DEF TypeOK
  <2>6. QED
    BY <1>0, <1>4, <2>3, <2>5, WriteCounts DEF CountsInv
<1>5. ASSUME NEW p \in Proc, Abort(p) PROVE CountsInv'
  <2>1. run' = [run EXCEPT ![p] = NoRun] /\ ledger' = ledger /\ flagged' = flagged
    BY <1>5 DEF Abort
  <2>2. run'[p] = NoRun
    BY <1>0, <2>1 DEF TypeOK
  <2>3. Counted(run[p].held)'
    BY <2>2 DEF NoRun, NoLedger, Counted
  <2>4. \A q \in Proc : q # p => Counted(run[q].held)'
    BY <2>1, UnchangedCounted
  <2>5. Counted(ledger)'
    BY <2>1 DEF Counted, CountsInv
  <2>6. QED
    BY <1>0, <2>3, <2>4, <2>5 DEF CountsInv
<1>6. CASE Midnight \/ Over \/ UNCHANGED vars
  <2>1. ledger' = ledger /\ run' = run /\ flagged' = flagged
    BY <1>6 DEF Midnight, Over, vars
  <2>2. QED
    BY <1>0, <2>1 DEF CountsInv, Counted
<1>7. QED
  BY <1>1, <1>2, <1>3, <1>4, <1>5, <1>6 DEF Next

(* So it is counted in every state.                                        *)
LEMMA CountsInvariance == Spec => []CountsInv
<1>1. Init => CountsInv
  <2> SUFFICES ASSUME Init PROVE CountsInv
    OBVIOUS
  <2>1. DatesInv
    BY DatesInit
  <2>2. Counted(ledger)
    BY DEF Init, Counted, NoLedger
  <2>3. \A p \in Proc : run[p] = NoRun
    BY DEF Init
  <2>4. QED
    BY <2>1, <2>2, <2>3, NoRunCounted DEF CountsInv
<1>2. QED
  BY <1>1, CountsStep, PTL DEF Spec

(* However runs overlap and wherever they die, the ledger counts no more   *)
(* rejections of a ticker than runs wrote, and dates them to days of those *)
(* (updates are lost, never invented).                                     *)
THEOREM LedgerNeverOverstates == Spec => []NeverOverstated
<1>1. CountsInv => NeverOverstated
  BY DEF CountsInv, DatesInv, Counted, Dated, NeverOverstated
<1>2. QED
  BY <1>1, CountsInvariance, PTL

(* Whatever other runs did before, the streak of a ticker that a written   *)
(* report accepts is over: at most the rejections of its further entries   *)
(* in that report are left.                                                *)
THEOREM AcceptedStreakEnds == Spec => AcceptedStartsOver
<1> DEFINE StartsOver(p, i) ==
             LET t == run[p].results[i].ticker
             IN  run[p].results[i].scored /\ ledger'[t] # None =>
                   /\ ledger'[t].first = run[p].date
                   /\ ledger'[t].occurrences
                        <= Cardinality(GatedOut(run[p].results, t))
           Ends == \A p \in Proc : WriteLedger(p) =>
                     \A i \in DOMAIN run[p].results : StartsOver(p, i)
<1>1. TypeOK => Ends
  <2> SUFFICES ASSUME TypeOK, NEW p \in Proc, WriteLedger(p),
                      NEW i \in DOMAIN run[p].results
               PROVE  StartsOver(p, i)
    OBVIOUS
  <2>1. run[p].held \in Ledger /\ run[p].results \in Seq(Result) /\ run[p].date \in Day
    BY ActionTypes
  <2>2. run[p].results[i].ticker \in Ticker
    <3>1. run[p].results[i] \in Result
      BY <2>1
    <3>2. QED
      BY <3>1 DEF Result
  <2>3. ledger' = UpdateHistory(run[p].held, run[p].results, run[p].date)
    BY DEF WriteLedger
  <2>4. QED
    BY <2>1, <2>2, <2>3, UpdateStartsOver
<1>2. TypeOK /\ [Next]_vars => [Ends]_vars
  BY <1>1
<1>3. QED
  BY <1>2, TypeCorrect, PTL DEF Spec, AcceptedStartsOver

(* The count that the ledger gets of a ticker named once is the one that   *)
(* the report published, unless another run changed what is active in      *)
(* between.                                                                *)
THEOREM CountsMatch == Spec => CountMatchesReport
<1> DEFINE Match == \A p \in Proc : WriteLedger(p) =>
             \A i \in DOMAIN run[p].results :
               LET r == run[p].results[i]
               IN  /\ ~r.scored
                   /\ NamedOnce(run[p].results, i)
                   /\ ActiveHistory(run[p].held, run[p].date) = run[p].history
                   => ledger'[r.ticker].occurrences = r.occurrences
<1>1. DatesInv => Match
  <2> SUFFICES ASSUME DatesInv, NEW p \in Proc, WriteLedger(p),
                      NEW i \in DOMAIN run[p].results, ~run[p].results[i].scored,
                      NamedOnce(run[p].results, i),
                      ActiveHistory(run[p].held, run[p].date) = run[p].history
               PROVE  ledger'[run[p].results[i].ticker].occurrences
                        = run[p].results[i].occurrences
    OBVIOUS
  <2>1. run[p].results[i].occurrences = OccurrencesOf(run[p].history[run[p].results[i].ticker])
    BY DEF DatesInv, Judged
  <2>2. ledger'[run[p].results[i].ticker] =
          Advanced(run[p].held, run[p].results[i], run[p].date)
    <3>1. run[p].held \in Ledger /\ run[p].results \in Seq(Result) /\ run[p].date \in Day
      BY ActionTypes DEF DatesInv
    <3>2. ledger' = UpdateHistory(run[p].held, run[p].results, run[p].date)
      BY DEF WriteLedger
    <3>3. QED
      BY <3>1, <3>2, UpdateOnce
  <2>3. Advanced(run[p].held, run[p].results[i], run[p].date).occurrences =
          OccurrencesOf(run[p].history[run[p].results[i].ticker])
    BY DEF Advanced
  <2>4. QED
    BY <2>1, <2>2, <2>3
<1>2. DatesInv /\ [Next]_vars => [Match]_vars
  BY <1>1
<1>3. QED
  BY <1>2, DatesInit, DatesStep, PTL DEF Spec, CountMatchesReport
=============================================================================
