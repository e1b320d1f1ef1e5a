--------------------------- MODULE TickerEvidence ---------------------------
(***************************************************************************)
(* From what the world publishes about a ticker to its component scores:   *)
(* the legs of pull_ticker behind S_M, S_I and S_S (pipeline.py of         *)
(* src/briefing_app), their normalizers and their builders, run day after  *)
(* day.  A figure is printed some days after its period; insiders trade    *)
(* and file later; analysts, newspapers and members of Congress speak up.  *)
(* A run asks each feed of its chains, which answers, refuses, or answers  *)
(* with a payload or a date that is of no use.                             *)
(*                                                                         *)
(* A run is one step: its order of requests is the matter of LivePulls.    *)
(* Left out: what a feed says of other symbols, pages and filings beyond   *)
(* the first, and S_F, which no source is wired to.                        *)
(***************************************************************************)
EXTENDS Normalizers, InsiderComponent, MacroComponent, SentimentComponent

CONSTANTS
  Configs,             \* by name: chains, exposure, faults of a run, days
  Schedules, Lag,      \* lengths of the periods; days from one's end to its print
  Values,              \* figures; Absent is a print that is missing
  Filings, Opinions, Stories, Disclosures, Attention,   \* what may be published
  MacroAge, MinHistory, InsiderWindow, ValueScale, SignalAge,
  Baseline, PoliticalWindow, DisclosureLag, Spot,   \* the windows, scaled down
  MaxFilings, MaxRows, \* EDGAR_FORM4_MAX_FILINGS; rows of the congressional feed
  MaxItems             \* bound on what is published

Feed == {"fred_release", "fred_dates", "fred_series", "fmp_indicator",
         "fmp_treasury", "fmp_calendar", "form4", "fmp_insider", "av_insider",
         "fmp_grades", "fmp_targets", "finnhub_trends", "av_news", "fmp_news",
         "finnhub_news", "congress", "apewisdom"}
Fault == {"refused", "complaint", "undated", "unreadable"}

(* What the rows of a trade give as its type.                              *)
RowFeed == {"fmp", "alpha_vantage"}
ToldAs == {"code", "security", "letter"}

(* A chain names its providers in order; events: FMP's calendar.           *)
Config == [macro : Seq({"fred", "fmp"}), insider : Seq({"sec_edgar", "fmp", "alpha_vantage"}),
           analyst : Seq({"fmp", "finnhub"}), news : Seq({"alpha_vantage", "fmp", "finnhub"}),
           political : BOOLEAN, retail : BOOLEAN, issuer : BOOLEAN]

ASSUME ConfigsAssumption ==
  \A c \in Range(Configs) :
    /\ c.chains \in Config /\ c.days \in Nat   \* bound on the days
    /\ \A r \in c.faults : DOMAIN r \subseteq Feed /\ Range(r) \subseteq Fault
ASSUME FilingsAssumption ==
  /\ \A t \in Filings : t.lag \in Nat /\ FormTrade(t, 0) \in Transaction
                       /\ t.acquired \in BOOLEAN /\ t.told \in [RowFeed -> ToldAs]
  /\ ValueScale # 0
ASSUME SpeakersAssumption ==
  /\ Opinions \subseteq [rating : STRING, target : Nat]
  /\ Stories \subseteq [keys : SUBSET STRING, tone : Reading, about : STRING]
  /\ Disclosures \subseteq
       [about : STRING, kind : STRING, amount : Nat, link : STRING, lag : Nat]
  /\ Attention \subseteq
       Seq([about : STRING, mentions : Nat \union {Absent}, prior : Int])
  /\ DisclosureLag # 0
ASSUME HolesAssumption ==
  /\ Absent \notin Int /\ Unreadable \notin Int
  /\ Rejected \notin Seq(Int) \union Seq([date : Int, value : Int])
                    \union Seq([period : Int, released : Int, value : Int])
ASSUME SeriesAssumption == Values \subseteq Int \union {Absent} /\ MinHistory >= 3
ASSUME WorldAssumption ==
  /\ Schedules \subseteq Seq(Nat \ {0}) /\ Lag \in Nat
  /\ {MacroAge, MinHistory, InsiderWindow, ValueScale, SignalAge, Baseline,
      PoliticalWindow, DisclosureLag, Spot, MaxFilings, MaxRows, MaxItems} \subseteq Nat

VARIABLES
  setup,               \* the name of the configuration
  today,
  schedule, figures,   \* the calendar of the series, and its prints so far
  filings, opinions, stories, disclosures,   \* what was published, oldest first
  archive,             \* congressional rows in the raw cache, of earlier days
  result               \* today's run: scores, readings, sources of the trades
                       \* of insiders, whether all was well

config == Configs[setup]

world == <<schedule, figures, filings, opinions, stories, disclosures>>
vars == <<setup, today, world, archive, result>>

NoRun == [done |-> FALSE, macro |-> NoComponent, insider |-> NoComponent,
          sentiment |-> NoComponent, readings |-> {}, sources |-> {}, whole |-> FALSE]

Init ==
  /\ setup \in DOMAIN Configs
  /\ schedule \in (IF config.chains.macro = <<>> THEN {<<>>} ELSE Schedules)
  /\ today = 0
  /\ figures = <<>> /\ filings = <<>> /\ opinions = <<>>
  /\ stories = <<>> /\ disclosures = <<>> /\ archive = <<>>
  /\ result = NoRun

-----------------------------------------------------------------------------
(* The world.                                                              *)
Start(k)   == SumFunction(SubSeq(schedule, 1, k - 1))
Release(k) == Start(k + 1) + Lag
Due == Len(figures) < Len(schedule) /\ Release(Len(figures) + 1) <= today

Published == Len(filings) + Len(opinions) + Len(stories) + Len(disclosures)
Open == ~result.done /\ ~Due /\ Published < MaxItems

Publish(v) ==
  /\ Due
  /\ figures' = Append(figures, v)
  /\ UNCHANGED <<setup, today, schedule, filings, opinions, stories, disclosures,
                 archive, result>>

FileTrade(t) ==
  /\ Open /\ config.chains.insider # <<>> /\ t.lag <= today
  /\ filings' = Append(filings, [traded |-> today - t.lag, filed |-> today,
                                 period |-> today - t.lag, insider |-> t.insider,
                                 role |-> t.role, code |-> t.code, plan |-> t.plan,
                                 side |-> t.side, acquired |-> t.acquired,
                                 told |-> t.told, value |-> t.value])
  /\ UNCHANGED <<setup, today, schedule, figures, opinions, stories, disclosures,
                 archive, result>>

GiveOpinion(o) ==
  /\ Open /\ config.chains.analyst # <<>>
  /\ opinions' = Append(opinions, [date |-> today, rating |-> o.rating,
                                   target |-> o.target, about |-> "ticker"])
  /\ UNCHANGED <<setup, today, schedule, figures, filings, stories, disclosures,
                 archive, result>>

RunStory(s) ==
  /\ Open /\ config.chains.news # <<>>
  /\ stories' = Append(stories, [date |-> today, keys |-> s.keys, tone |-> s.tone,
                                 about |-> s.about])
  /\ UNCHANGED <<setup, today, schedule, figures, filings, opinions, disclosures,
                 archive, result>>

Disclose(d) ==
  /\ Open /\ config.chains.political /\ d.lag <= today
  /\ disclosures' = Append(disclosures,
                           [traded |-> today - d.lag, disclosed |-> today, about |-> d.about,
                            kind |-> d.kind, amount |-> d.amount, link |-> d.link])
  /\ UNCHANGED <<setup, today, schedule, figures, filings, opinions, stories,
                 archive, result>>

NextDay ==
  /\ ~Due /\ today < config.days
  /\ today' = today + 1
  /\ result' = NoRun
  /\ UNCHANGED <<setup, world, archive>>

-----------------------------------------------------------------------------
(* A feed's answer.  A fault of a date is in its last row.                 *)
Ok(reply, feed) == feed \notin DOMAIN reply
BodyOf(reply, feed, path) ==
  IF ~Ok(reply, feed) /\ reply[feed] \in {"refused", "complaint"}
  THEN [form |-> "object", says |-> "complaint", holds |-> {}]
  ELSE [form |-> "object", says |-> "rows", holds |-> {path}]
Marred(reply, feed, rows, field) ==
  IF rows = <<>> \/ Ok(reply, feed) \/ reply[feed] \in {"refused", "complaint"} THEN rows
  ELSE [rows EXCEPT ![Max(DOMAIN rows)][field] =
          IF reply[feed] = "undated" THEN Absent ELSE Unreadable]

Items(list) == IF list = Rejected THEN <<>> ELSE list

(* Several lists as one, in their order.                                   *)
Together(lists) ==
  [p \in UNION {{k} \X DOMAIN lists[k] : k \in DOMAIN lists} |-> lists[p[1]][p[2]]]
Before(q, p) == q[1] < p[1] \/ (q[1] = p[1] /\ q[2] < p[2])

(* Providers are asked in turn until one has something.                    *)
FirstOf(chain, Ask(_)) ==
  LET some == {i \in DOMAIN chain : Ask(chain[i]) # <<>>}
  IN  IF some = {} THEN <<>> ELSE Ask(chain[Min(some)])

LastOf(n, list) == Restrict(list, {i \in DOMAIN list : i > Len(list) - n})
Standing == LastOf(1, opinions)

(* _analyst_signals: FMP's two feeds together, Finnhub's when they have    *)
(* nothing.  FMP's consensus is the one that stands, and has no date.      *)
Analysts(provider, reply) ==
  LET undated == [i \in DOMAIN Standing |-> [Standing[i] EXCEPT !.date = Absent]]
      grades  == GradesConsensus(BodyOf(reply, "fmp_grades", "root"),
                                 Marred(reply, "fmp_grades", undated, "date"), today)
      targets == PriceTargetConsensus(BodyOf(reply, "fmp_targets", "root"),
                                      Marred(reply, "fmp_targets", undated, "date"), today)
      trends  == RecommendationTrends(BodyOf(reply, "finnhub_trends", "root"),
                                      Marred(reply, "finnhub_trends", opinions, "date"))
  IN  IF provider = "fmp" THEN Together(<<Items(grades), Items(targets)>>)
      ELSE Items(trends)

(* _news_batch.                                                            *)
Newspapers(provider, reply) ==
  Items(CASE provider = "alpha_vantage" ->
               AlphaVantageNews(BodyOf(reply, "av_news", "feed"),
                                Marred(reply, "av_news", stories, "date"), today)
          [] provider = "fmp" ->
               FmpNews(BodyOf(reply, "fmp_news", "root"),
                       Marred(reply, "fmp_news", stories, "date"), today)
          [] provider = "finnhub" ->
               FinnhubNews(BodyOf(reply, "finnhub_news", "root"),
                           Marred(reply, "finnhub_news", stories, "date"), today))

(* _insider_transactions; of EDGAR, a document for each of the newest      *)
(* filings in the window, and one that is of no use leaves the others.     *)
Form4s(reply) ==
  LET recent == {i \in DOMAIN filings : filings[i].filed >= today - InsiderWindow}
      newest == {i \in recent : Cardinality({j \in recent : j > i}) < MaxFilings}
      rows   == Marred(reply, "form4", Restrict(filings, newest), "traded")
      Readable(i) == i # Max(newest) \/ Ok(reply, "form4") \/ reply["form4"] # "complaint"
      forms  == [i \in newest |-> OwnershipDocument(Readable(i), rows[i])]
  IN  IF ~Ok(reply, "form4") /\ reply["form4"] = "refused" THEN <<>>
      ELSE RestrictValues(forms, LAMBDA form : form # Rejected)

Insiders(provider, reply) ==
  CASE provider = "sec_edgar" -> Form4s(reply)
    [] provider = "fmp" ->
         Items(InsiderRows("fmp", BodyOf(reply, "fmp_insider", "root"), {"root"},
                           Marred(reply, "fmp_insider", filings, "traded")))
    [] provider = "alpha_vantage" ->
         Items(InsiderRows("alpha_vantage", BodyOf(reply, "av_insider", "data"), {"data"},
                           Marred(reply, "av_insider", filings, "traded")))

(* _political_trades_for_run: the latest disclosures, then the payloads    *)
(* other days left in the raw cache; of those with the same link, or else  *)
(* the same content, the first.                                            *)
Latest == LastOf(MaxRows, disclosures)
CongressRows(reply) == Marred(reply, "congress", Latest, "traded")
CongressAnswers(reply) == Ok(reply, "congress") \/ reply["congress"] \in {"undated", "unreadable"}

Dedupe(trades) ==
  LET known(p) == \E q \in DOMAIN trades : Before(q, p) /\ trades[q].link = trades[p].link
  IN  Restrict(trades, {p \in DOMAIN trades : ~known(p)})

Congress(reply) ==
  LET Read_(rows) == Items(CongressTrades(BodyOf(reply, "none", "root"), rows))
      now  == IF CongressAnswers(reply) THEN Read_(CongressRows(reply)) ELSE <<>>
      Kept(a) == today - a.day \in 1 .. PoliticalWindow
      all == [k \in {0} \union DOMAIN archive |->
                IF k = 0 THEN now ELSE IF Kept(archive[k]) THEN Read_(archive[k].rows)
                                       ELSE <<>>]
  IN  IF config.chains.political
      THEN RestrictValues(Dedupe(Together(all)), LAMBDA t : t.about = "ticker")
      ELSE <<>>

(* _retail_momentum_for_run.                                               *)
RetailRows(attention, reply) ==
  IF ~config.chains.retail THEN <<>>
  ELSE RestrictValues(Items(RetailMomentum(BodyOf(reply, "apewisdom", "results"), attention)),
                      LAMBDA r : r.about = "ticker")

(* The printed figures, as the feeds give them.                            *)
Prints == [k \in DOMAIN figures |-> [date |-> Start(k), value |-> figures[k]]]

(* _fred_series_releases, _fred_release_dates and _fred_macro_readings;    *)
(* the dates asked for end with the day of the run.                        *)
FredReading(reply) ==
  LET days == IF Ok(reply, "fred_release")
              THEN ReleaseDates(BodyOf(reply, "fred_dates", "release_dates"),
                     Marred(reply, "fred_dates",
                            [k \in DOMAIN figures |-> [date |-> Release(k)]], "date"))
              ELSE {}
      series == SeriesObservations(BodyOf(reply, "fred_series", "observations"),
                                   Marred(reply, "fred_series", Prints, "date"), days)
  IN  ReleaseChange(Items(series), "cpi", today, MacroAge, MinHistory)

(* FMP's indicators and treasury rates, which print the same figures here. *)
FmpReadings(reply) ==
  LET series == EconomicIndicators(BodyOf(reply, "fmp_indicator", "root"),
                                   Marred(reply, "fmp_indicator", Prints, "date"))
      yields == [k \in DOMAIN figures |->
                   [date |-> Start(k), ten |-> figures[k], two |-> 0]]
      curve  == TreasuryCurve(BodyOf(reply, "fmp_treasury", "root"),
                              Marred(reply, "fmp_treasury", yields, "date"))
  IN  {ReleaseChange(Items(series), "cpi", today, MacroAge, MinHistory),
       ReleaseChange(Items(curve), "yield_curve", today, MacroAge, MinHistory)}

(* _macro_readings_for_run: the first provider that gives a reading.       *)
Readings(reply) ==
  LET Of(provider) ==
        (IF provider = "fred" THEN {FredReading(reply)} ELSE FmpReadings(reply)) \ {NoReading}
      some == {i \in DOMAIN config.chains.macro : Of(config.chains.macro[i]) # {}}
  IN  IF some = {} THEN {} ELSE Of(config.chains.macro[Min(some)])

(* _macro_calendar_for_run: FRED's has no estimates, and none if no        *)
(* release is known; of FMP's, each print against the one before it.       *)
Calendar(reply) ==
  LET events == [k \in DOMAIN figures |->
                   [name |-> "print", factor |-> "unemployment", date |-> Release(k),
                    actual |-> figures[k], previous |-> 0,
                    estimate |-> IF k = 1 THEN Absent ELSE figures[k - 1]]]
      fmp  == Range(Items(CalendarEvents(BodyOf(reply, "fmp_calendar", "root"),
                                         Marred(reply, "fmp_calendar", events, "date"))))
      Answers_(provider) == provider = "fmp" \/ Ok(reply, "fred_release")
      some == {i \in DOMAIN config.chains.macro : Answers_(config.chains.macro[i])}
  IN  IF some # {} /\ config.chains.macro[Min(some)] = "fmp" THEN fmp ELSE {}

-----------------------------------------------------------------------------
(* pull_ticker: the three components of the ticker.                        *)
Run(reply, attention) ==
  /\ ~Due /\ ~result.done /\ (config.chains.retail \/ attention = <<>>)
  /\ LET readings == Readings(reply)
         articles == FirstOf(config.chains.news, LAMBDA p : Newspapers(p, reply))
         signals  == FirstOf(config.chains.analyst, LAMBDA p : Analysts(p, reply))
         trades   == FirstOf(config.chains.insider, LAMBDA p : Insiders(p, reply))
     IN  result' =
           [done |-> TRUE, whole |-> DOMAIN reply = {}, readings |-> readings,
            sources |-> {trades[i].source : i \in DOMAIN trades},
            macro |-> Macro(config.exposure, readings, Calendar(reply), today, MacroAge),
            insider |-> Insider(config.chains.issuer, trades, today, InsiderWindow, ValueScale),
            sentiment |->
              Sentiment(config.chains.issuer,
                        Institutional(signals, News(articles, today, Baseline), Spot,
                                      today, SignalAge),
                        Retail(RetailRows(attention, reply)),
                        PoliticalFlow(Congress(reply), today, PoliticalWindow, DisclosureLag))]
  /\ archive' = IF config.chains.political /\ CongressAnswers(reply) /\ Latest # <<>>
                THEN Append(archive, [day |-> today, rows |-> CongressRows(reply)])
                ELSE archive
  /\ UNCHANGED <<setup, today, world>>

Next ==
  \/ \E v \in Values : Publish(v)
  \/ \E t \in Filings : FileTrade(t)
  \/ \E o \in Opinions : GiveOpinion(o)
  \/ \E s \in Stories : RunStory(s)
  \/ \E d \in Disclosures : Disclose(d)
  \/ \E r \in config.faults, a \in Attention : Run(r, a)
  \/ NextDay

Spec == Init /\ [][Next]_vars

-----------------------------------------------------------------------------
(* A macro reading is never dated later than it was known: it is of a      *)
(* figure that is out, and its date is from the start of its period to the *)
(* day of its print.  A later date would let an old figure pass for fresh. *)
(* It is the newest figure, or, when a feed fails, the one before it.  The *)
(* window holds of a calendar: no period is longer than another by more    *)
(* than the days to its print, and at most one print is missing.           *)
PrintedFigures == {k \in DOMAIN figures : figures[k] # Absent}
Newest   == Max(PrintedFigures)
Later(k) == {j \in PrintedFigures : j > k}
Sporadic == Cardinality({k \in 1 .. Newest : figures[k] = Absent}) <= 1
Even     == \A i, j \in DOMAIN schedule : schedule[i] <= schedule[j] + Lag

NeverYoungerThanItsRelease ==
  \A r \in result.readings :
    /\ r.day <= today
    /\ Sporadic /\ Even =>
         \E k \in PrintedFigures :
           /\ r.day \in Start(k) .. Release(k)
           /\ Cardinality(Later(k)) <= 1 /\ (result.whole => k = Newest)

(* A figure that is out and within the bound scores on the day it was      *)
(* printed: with FRED first, answering, and a series of regular periods    *)
(* that moves unevenly, each printed before the next one ends, the reading *)
(* is of the newest print and carries its date, so that a monthly series   *)
(* does not go stale between two prints.                                   *)
Regular == \A i, j \in DOMAIN schedule : schedule[i] = schedule[j]
Prompt  == \A i \in DOMAIN schedule : Lag < schedule[i]
Moving  == \E i, j \in 1 .. Len(figures) - 1 :
             figures[i + 1] - figures[i] # figures[j + 1] - figures[j]

CurrentPrintScores ==
  /\ result.done /\ result.whole
  /\ config.chains.macro # <<>> /\ config.chains.macro[1] = "fred"
  /\ figures # <<>> /\ PrintedFigures = DOMAIN figures /\ Regular /\ Prompt /\ Moving
  /\ Len(figures) > MinHistory /\ today - Release(Newest) <= MacroAge
  => \E r \in result.readings : r.factor = "cpi" /\ r.day = Release(Newest)

(* S_S rests on analysts: it is scored only where one has spoken, whose    *)
(* word stands or is fresh; and where all of them say the same, neither    *)
(* the news, nor retail traders, nor Congress turns its sign.              *)
Voices == {i \in DOMAIN opinions : \/ i = Len(opinions)
                                   \/ today - opinions[i].date <= SignalAge}
UrgesBuying(o) == o.rating = "strong_buy" /\ 4 * o.target >= 5 * Spot
UrgesSelling(o) == o.rating = "sell" /\ o.target # 0 /\ 4 * o.target <= 3 * Spot

SentimentRestsOnAnalysts ==
  result.sentiment.available =>
    /\ Voices # {} /\ config.chains.issuer
    /\ (\A i \in Voices : UrgesBuying(opinions[i])) => result.sentiment.score > 0
    /\ (\A i \in Voices : UrgesSelling(opinions[i])) => result.sentiment.score < 0

(* What S_I may count.  Of a Form 4, a trade that an insider made of his   *)
(* own on the market, whatever grants, exercises and planned sales are     *)
(* filed beside it.  Of the rows of another feed, also a trade whose plan  *)
(* the row does not say, and one of which it says but the letter.          *)
OwnBuy(t)  == ~t.plan /\ (t.code = "P" \/ (t.code = "unknown" /\ t.side = "buy"))
OwnSell(t) == ~t.plan /\ (t.code = "S" \/ (t.code = "unknown" /\ t.side = "sell"))
CountsAs(t, sources, own, code, side) ==
  \/ own
  \/ \E feed \in sources \intersect RowFeed :
       \/ t.told[feed] = "code" /\ t.code = code
       \/ t.told[feed] = "letter" /\ LetterSide(t) = side
MayBuy(i, sources)  == CountsAs(filings[i], sources, OwnBuy(filings[i]), "P", "buy")
MaySell(i, sources) == CountsAs(filings[i], sources, OwnSell(filings[i]), "S", "sell")

Recent == {i \in DOMAIN filings :
             \/ today - filings[i].traded <= InsiderWindow
             \/ today - filings[i].filed <= InsiderWindow}

(* S_I is the conviction of insiders: it is scored only where, within the  *)
(* window, one of them made or filed a trade that may count; and where no  *)
(* such trade is a sale, it is positive, where none is a purchase,         *)
(* negative.  So a fallback that says less of the trades than EDGAR does   *)
(* can cost it no more than plans and bare letters.                        *)
InsidersAgree ==
  result.insider.available =>
    /\ \E i \in Recent : MayBuy(i, result.sources) \/ MaySell(i, result.sources)
    /\ (\A i \in Recent : ~MaySell(i, result.sources)) => result.insider.score > 0
    /\ (\A i \in Recent : ~MayBuy(i, result.sources)) => result.insider.score < 0
=============================================================================
