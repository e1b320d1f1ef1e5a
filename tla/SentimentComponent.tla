------------------------- MODULE SentimentComponent -------------------------
(***************************************************************************)
(* S_S (src/briefing_app/components/sentiment.py): what analysts say, with *)
(* the news beside it, and the attention of retail traders; disclosures of *)
(* Congress are added on top.  The transcript leg is always n/a, with no   *)
(* weight.                                                                 *)
(***************************************************************************)
EXTENDS SubScores, Sequences, SequencesExt

(* _RATING_SCORES; any other text is no rating.                            *)
RatingScore == [strong_buy |-> 100, buy |-> 60, hold |-> 0,
                underperform |-> -60, sell |-> -100]
Rated(rating) == rating \in DOMAIN RatingScore

(* _revision_score: of the ratings, the targets, or the action; 0 is no    *)
(* target.                                                                 *)
Revision(s) ==
  CASE Rated(s.rating) /\ Rated(s.previous) /\ RatingScore[s.rating] # RatingScore[s.previous]
         -> Reads(RatingScore[s.rating] - RatingScore[s.previous])
    [] ~(Rated(s.rating) /\ Rated(s.previous) /\ RatingScore[s.rating] # RatingScore[s.previous])
         -> IF s.target # 0 /\ s.previousTarget # 0
              THEN Reads(Quotient(10000 * (s.target - s.previousTarget), 15 * s.previousTarget))
            ELSE CASE s.action = "up"   -> Reads(60)
                   [] s.action = "down" -> Reads(-60)
                   [] OTHER             -> NA

(* _price_target_upside, a quarter of the spot being full.                 *)
Upside(signals, fresh, spot) ==
  LET targets == {i \in fresh : signals[i].target > 0}
      n       == Cardinality(targets)
      total   == SumFunction([i \in targets |-> signals[i].target])
  IN  IF targets = {} \/ spot = 0 THEN NA
      ELSE Reads(Quotient(400 * (total - n * spot), n * spot))

(* deduplicate_articles: the newest of a story, told by its URL or title;  *)
(* an article that is dropped makes none of its keys known.                *)
Newer(articles, i) ==
  {j \in DOMAIN articles : \/ articles[j].day > articles[i].day
                           \/ articles[j].day = articles[i].day /\ j > i}
Unique(articles) ==
  LET kept[i \in DOMAIN articles] ==
        \A j \in Newer(articles, i) :
          kept[j] => articles[j].keys \intersect articles[i].keys = {}
  IN  {i \in DOMAIN articles : kept[i]}

(* summarize_news and its use: the last day against the baseline before    *)
(* it.  A day ends at the hour of the run.                                 *)
News(articles, today, baseline) ==
  LET scored  == {i \in Unique(articles) : articles[i].tone.measured}
      recent  == {i \in scored : articles[i].day >= today}
      earlier == {i \in scored : articles[i].day \in today - baseline + 1 .. today - 1}
      Tone(these) == MeanOf([i \in these |-> articles[i].tone.score])
  IN  IF recent = {} THEN NA
      ELSE Reads(2 * (Tone(recent).score - Tone(earlier).score))

(* _institutional_sub_score: the news are capped at their nominal share.   *)
Institutional(signals, news, spot, today, maxAge) ==
  LET fresh == {i \in DOMAIN signals : ~IsStale(signals[i].day, today, maxAge)}
      rated == {i \in fresh : Rated(signals[i].rating)}
      moved == {i \in fresh : Revision(signals[i]).measured}
  IN  Combine([ratings      |-> Leg(MeanOf([i \in rated |-> RatingScore[signals[i].rating]]),
                                    35, NoCeiling),
               revisions    |-> Leg(MeanOf([i \in moved |-> Revision(signals[i]).score]),
                                    25, NoCeiling),
               price_target |-> Leg(Upside(signals, fresh, spot), 15, NoCeiling),
               news         |-> Leg(news, 25, 25)])

(* _retail_sub_score, of the snapshots for the ticker: none or one, made   *)
(* on the day of the run.  A prior of -1 is not given.                     *)
MinMentions == 5
Retail(snapshots) ==
  IF DOMAIN snapshots = {} THEN NA
  ELSE LET one   == snapshots[Min(DOMAIN snapshots)]
           now   == one.mentions
           prior == one.prior
       IN  IF prior < 0 \/ Max({now, prior}) < MinMentions THEN NA
           ELSE Reads(Quotient(100 * (now - prior), Max({now, prior, 10})))

-----------------------------------------------------------------------------
(* _political_trade_weight: recency, delay of the disclosure, and amount,  *)
(* in percent; past is the age at which nothing is left, lag the delay.    *)
TradeWeight(t, today, past, lag) ==
  LET age   == today - t.day
      delay == Min({lag, Max({0, t.disclosed - t.day})})
      timely == IF t.dated THEN Max({10, (100 * (lag - delay)) \div lag}) ELSE 25
  IN  IF age \in 0 .. past THEN (past - age) * timely * t.amount ELSE 0

(* _political_flow_sub_score, of the trades in the ticker.                 *)
PoliticalFlow(trades, today, past, lag) ==
  LET Side(i)   == CASE trades[i].kind = "purchase" -> 1
                     [] trades[i].kind = "sale"     -> -1
                     [] OTHER                       -> 0
      Weight(i) == TradeWeight(trades[i], today, past, lag)
      scored    == {i \in DOMAIN trades : Side(i) # 0 /\ Weight(i) > 0}
  IN  IF scored = {} THEN NA
      ELSE Reads(Quotient(100 * SumFunction([i \in scored |-> Side(i) * Weight(i)]),
                          SumFunction([i \in scored |-> Weight(i)])))

(* POLITICAL_FLOW_MAX_IMPACT: five points, and only on a base score.       *)
Overlay(base, political) ==
  IF base.measured /\ political.measured
    THEN Reads(base.score + Quotient(5 * political.score, 100))
    ELSE base

(* build_sentiment_component.                                              *)
Sentiment(issuer, institutional, retail, political) ==
  LET analysts == IF issuer THEN institutional ELSE NA
      base == Combine([institutional  |-> Leg(analysts, 80, NoCeiling),
                       executive_tone |-> Leg(NA, 0, NoCeiling),
                       retail         |-> Leg(retail, 20, 20)])
      full == analysts.measured /\ retail.measured
  IN  Component_(Overlay(base, political),
                 IF full THEN "verified" ELSE "partial", "aggregator")
=============================================================================
