---------------------------- MODULE Normalizers ----------------------------
(***************************************************************************)
(* The feeds behind S_M, S_I and S_S as their normalizers read them        *)
(* (src/briefing_app/providers/normalizers.py).  A payload that is not     *)
(* data is rejected as a whole, and so is one with a row whose date cannot *)
(* be read; a row without a date is skipped, or dated today, or by another *)
(* field, which differs from feed to feed.  A row is what a component may  *)
(* use of it.  Rows are at places: the places of a list or, where some are *)
(* skipped, those of them that are left.                                   *)
(***************************************************************************)
EXTENDS Payloads, Integers, Sequences, SequencesExt, FiniteSetsExt

CONSTANTS Absent, Unreadable,  \* a date or figure left out; a date no parser reads
          Rejected             \* a NormalizationError

Usable(body, required) == Validated(body, required, FALSE) = "ok"

(* parse_date and parse_datetime: no date is today.                        *)
DayOf(date, today) == IF date = Absent THEN today ELSE date

(* The common shape: rows are those the normalizer does not skip, dates    *)
(* the fields it parses of them.                                           *)
Normalized(body, required, rows, dates, Item(_)) ==
  IF \/ ~Usable(body, required)
     \/ \E i \in DOMAIN rows : \E f \in dates : rows[i][f] = Unreadable
  THEN Rejected
  ELSE [i \in DOMAIN rows |-> Item(rows[i])]

-----------------------------------------------------------------------------
(* Analysts.  Both feeds of FMP report what stands, which is dated today;  *)
(* the rows of Finnhub are monthly, and those of another symbol skipped.   *)
(* No feed that is asked gives a previous rating or target.                *)
Signal(day, rating, target) ==
  [day |-> day, rating |-> rating, previous |-> "none",
   target |-> target, previousTarget |-> 0, action |-> "standing"]

GradesConsensus(body, rows, today) ==
  LET counted == RestrictValues(rows, LAMBDA r : r.rating # "none")
  IN  Normalized(body, {"root"}, counted, {"date"},
                 LAMBDA r : Signal(DayOf(r.date, today), r.rating, 0))

PriceTargetConsensus(body, rows, today) ==
  LET given == RestrictValues(rows, LAMBDA r : r.target # 0)
  IN  Normalized(body, {"root"}, given, {"date"},
                 LAMBDA r : Signal(DayOf(r.date, today), "none", r.target))

RecommendationTrends(body, rows) ==
  LET kept == RestrictValues(rows, LAMBDA r : /\ r.about # "other"
                                              /\ r.rating # "none" /\ r.date # Absent)
  IN  Normalized(body, {"root"}, kept, {"date"}, LAMBDA r : Signal(r.date, r.rating, 0))

-----------------------------------------------------------------------------
(* News.  Alpha Vantage's are kept whatever they are about, and those      *)
(* without a time are of now; Finnhub's must have one, and not be about    *)
(* others only; FMP's must have one.                                       *)
Article(r, today) == [day |-> DayOf(r.date, today), keys |-> r.keys, tone |-> r.tone]

AlphaVantageNews(body, rows, today) ==
  Normalized(body, {"feed"}, rows, {"date"}, LAMBDA r : Article(r, today))

FinnhubNews(body, rows, today) ==
  LET kept == RestrictValues(rows, LAMBDA r : r.date # Absent /\ r.about # "other")
  IN  Normalized(body, {"root"}, kept, {"date"}, LAMBDA r : Article(r, today))

FmpNews(body, rows, today) ==
  LET kept == RestrictValues(rows, LAMBDA r : r.date # Absent)
  IN  Normalized(body, {"root"}, kept, {"date"}, LAMBDA r : Article(r, today))

-----------------------------------------------------------------------------
(* Insiders.  The rows of FMP and Alpha Vantage have no footnotes, so no   *)
(* plan.  told says what a feed gives as the type of a trade: its code; a  *)
(* security, in whose name there is neither code nor direction; or nothing,*)
(* and the letter of an acquisition or a disposal is all there is to read. *)
(* The day is that of the trade, or else of the filing.                    *)
LetterSide(r) == IF r.acquired THEN "buy" ELSE "sell"

RowTrade(source, r, day) ==
  [source |-> source, day |-> day, insider |-> r.insider, role |-> r.role,
   code |-> IF r.told[source] = "code" THEN r.code ELSE "unknown", plan |-> FALSE,
   side |-> IF r.told[source] = "letter" THEN LetterSide(r) ELSE "unsaid",
   value |-> r.value]

InsiderRows(source, body, required, rows) ==
  LET kept == RestrictValues(rows, LAMBDA r : r.traded # Absent \/ r.filed # Absent)
  IN  Normalized(body, required, kept, {"traded", "filed"},
                 LAMBDA r : RowTrade(source, r, IF r.traded = Absent THEN r.filed ELSE r.traded))

(* Form 4 has the code, the notes linked to the row and the mark of a plan.*)
FormTrade(r, day) ==
  [source |-> "sec_edgar", day |-> day, insider |-> r.insider, role |-> r.role,
   code |-> r.code, plan |-> r.plan, side |-> r.side, value |-> r.value]

(* A date that cannot be read is as good as none; the period of the report *)
(* and the filing stand in.  A form, of one row here, without one is       *)
(* rejected.                                                               *)
Form4Day(r) ==
  CASE r.traded \notin {Absent, Unreadable}  -> r.traded
    [] r.traded \in {Absent, Unreadable} /\ r.period \notin {Absent, Unreadable} -> r.period
    [] OTHER -> r.filed

OwnershipDocument(readable, r) ==
  IF ~readable \/ Form4Day(r) = Absent THEN Rejected ELSE FormTrade(r, Form4Day(r))

-----------------------------------------------------------------------------
(* Congress: market-wide, a bad date in any row costs the whole list.      *)
CongressTrades(body, rows) ==
  LET kept == RestrictValues(rows, LAMBDA r : r.about # "blank" /\ r.traded # Absent)
      Item(r) == [about |-> r.about, day |-> r.traded, dated |-> r.disclosed # Absent,
                  disclosed |-> DayOf(r.disclosed, r.traded), kind |-> r.kind,
                  amount |-> r.amount, link |-> r.link]
  IN  Normalized(body, {"root"}, kept, {"traded", "disclosed"}, Item)

(* ApeWisdom: every ticker, as of the day of the run.                      *)
RetailMomentum(body, rows) ==
  Normalized(body, {}, RestrictValues(rows, LAMBDA r : r.mentions # Absent), {},
             LAMBDA r : [about |-> r.about, mentions |-> r.mentions, prior |-> r.prior])

-----------------------------------------------------------------------------
(* Macro series, oldest first.  A hole in a series is skipped.             *)
Figure(period, released, value) ==
  [period |-> period, released |-> released, value |-> value]
Printed(rows) == RestrictValues(rows, LAMBDA r : r.date # Absent /\ r.value # Absent)

(* list.sort, which is stable: the places in the order of their keys.      *)
Ahead(keys, i) ==
  {j \in DOMAIN keys : keys[j] < keys[i] \/ (keys[j] = keys[i] /\ j < i)}
InOrder(keys) ==
  [n \in 1 .. Cardinality(DOMAIN keys) |->
     CHOOSE i \in DOMAIN keys : Cardinality(Ahead(keys, i)) = n - 1]
OldestFirst(rows) ==
  LET order == InOrder([i \in DOMAIN rows |-> rows[i].date])
  IN  [n \in DOMAIN order |-> rows[order[n]]]

EconomicIndicators(body, rows) ==
  LET items == Normalized(body, {"root"}, Printed(rows), {"date"}, LAMBDA r : r)
      ordered == OldestFirst(items)
  IN  IF items = Rejected THEN Rejected
      ELSE [i \in DOMAIN ordered |-> Figure(ordered[i].date, -1, ordered[i].value)]

(* Of the two series of treasury_rates, the curve: both yields are needed. *)
TreasuryCurve(body, rows) ==
  LET dated == RestrictValues(rows, LAMBDA r : r.date # Absent)
      items == Normalized(body, {"root"}, dated, {"date"}, LAMBDA r : r)
      whole == OldestFirst(RestrictValues(items, LAMBDA r : Absent \notin {r.ten, r.two}))
  IN  IF items = Rejected THEN Rejected
      ELSE [i \in DOMAIN whole |-> Figure(whole[i].date, -1, whole[i].ten - whole[i].two)]

(* _median_period_gap_days: the upper of the two in the middle; 0 is none. *)
MedianGap(days) ==
  LET gaps == [i \in 1 .. Len(days) - 1 |-> days[i + 1] - days[i]]
  IN  IF gaps = <<>> THEN 0 ELSE gaps[InOrder(gaps)[Len(gaps) \div 2 + 1]]

CarriedFromStart(period, end, releases) ==   \* mutant: matched on the period's start
  LET later == {d \in releases : d >= period}
  IN  IF later = {} THEN -1 ELSE Min(later)

CarriedByLast(period, end, releases) ==   \* mutant: the newest release, not the first
  LET later == {d \in releases : d >= end}
  IN  IF end <= period \/ later = {} THEN -1 ELSE Max(later)

(* _release_carrying_period: the first release once the period is over;    *)
(* -1 where the calendar cannot say.                                       *)
CarriedBy(period, end, releases) ==
  LET later == {d \in releases : d >= end}
  IN  IF end <= period \/ later = {} THEN -1 ELSE Min(later)

(* FRED's observations: a period ends where the next one begins, and the   *)
(* newest after the usual gap.                                             *)
SeriesObservations(body, rows, releases) ==
  LET items == Normalized(body, {"observations"}, Printed(rows), {"date"}, LAMBDA r : r)
      seq == OldestFirst(items)
      gap == MedianGap([i \in DOMAIN seq |-> seq[i].date])
      End(i) == IF i < Len(seq) THEN seq[i + 1].date ELSE seq[i].date + gap
  IN  IF items = Rejected THEN Rejected
      ELSE [i \in DOMAIN seq |->
              Figure(seq[i].date, CarriedBy(seq[i].date, End(i), releases), seq[i].value)]

(* FMP's calendar: released figures, some with an estimate.                *)
CalendarEvents(body, rows) ==
  LET dated == RestrictValues(rows, LAMBDA r : r.date # Absent)
      Event(r) == [name |-> r.name, factor |-> r.factor, day |-> r.date,
                   estimated |-> Absent \notin {r.actual, r.estimate},
                   actual |-> r.actual, estimate |-> r.estimate, previous |-> r.previous]
  IN  Normalized(body, {}, dated, {"date"}, Event)

(* FRED's release dates; a list that is rejected leaves none.              *)
ReleaseDates(body, rows) ==
  LET dated == RestrictValues(rows, LAMBDA r : r.date # Absent)
      items == Normalized(body, {"release_dates"}, dated, {"date"}, LAMBDA r : r.date)
  IN  IF items = Rejected THEN {} ELSE Range(items)
=============================================================================
