----------------------------- MODULE MCEvidence -----------------------------
(* The instance of TickerEvidence that TLC checks: a configuration for     *)
(* each component, whose feeds share nothing with those of the others, and *)
(* one for an index, which has no issuer.                                  *)
EXTENDS TickerEvidence

\* No feed fails, or one does in some way, or both of a pair refuse: those
\* that leave a component to the next feed but one.  A complaint is a refusal
\* to all feeds but those whose answers stand apart; a standing rating has no
\* date to lose.
FaultsOf(feed) ==
  CASE feed \in {"form4", "congress"} -> Fault
    [] feed \in {"fmp_grades", "fmp_targets"} -> {"refused", "unreadable"}
    [] OTHER -> {"refused", "undated", "unreadable"}
FailuresOf(feeds, pairs) ==
  {<<>>} \union UNION {[{feed} -> FaultsOf(feed)] : feed \in feeds}
    \union {[f \in pair |-> "refused"] : pair \in pairs}

NoChains == [macro |-> <<>>, insider |-> <<>>, analyst |-> <<>>, news |-> <<>>,
             political |-> FALSE, retail |-> FALSE, issuer |-> TRUE]
NoExposure == [declared |-> FALSE, sensitivity |-> [cpi |-> 0], stance |-> NA]

MCConfigs ==
  [macro |->
   [chains |-> [NoChains EXCEPT !.macro = <<"fred", "fmp">>],
    exposure |-> [declared |-> TRUE, stance |-> NA,
                  sensitivity |-> [cpi |-> -50, yield_curve |-> 50, unemployment |-> -100]],
    faults |-> FailuresOf({"fred_release", "fred_dates", "fred_series",
                           "fmp_indicator", "fmp_treasury", "fmp_calendar"},
                          {{"fred_series", "fmp_indicator"}, {"fred_release", "fmp_calendar"}}),
    days |-> 13],
   insider |->
   [chains |-> [NoChains EXCEPT !.insider = <<"sec_edgar", "fmp", "alpha_vantage">>],
    exposure |-> NoExposure,
    faults |-> FailuresOf({"form4", "fmp_insider", "av_insider"}, {{"form4", "fmp_insider"}}),
    days |-> 2],
   sentiment |->
   [chains |-> [NoChains EXCEPT !.analyst = <<"fmp", "finnhub">>, !.news = <<"alpha_vantage", "finnhub">>,
                                !.political = TRUE, !.retail = TRUE],
    exposure |-> NoExposure,
    faults |-> FailuresOf({"fmp_grades", "fmp_targets", "finnhub_trends", "av_news",
                           "finnhub_news", "congress"}, {{"fmp_grades", "fmp_targets"}}),
    days |-> 1],
   index |->
   [chains |-> [NoChains EXCEPT !.news = <<"fmp">>, !.political = TRUE, !.retail = TRUE,
                                !.insider = <<"sec_edgar">>, !.issuer = FALSE],
    exposure |-> NoExposure, faults |-> FailuresOf({"apewisdom"}, {}), days |-> 1]]

\* Periods of even length, or uneven; a print may be missing.
MCSchedules == {<<2, 2, 2, 2, 2>>, <<2, 3, 2, 3>>}
MCValues == {Absent, 0, 3}

\* FMP names the type of most trades; Alpha Vantage the security of most.
Filed(role, code, side, value, lag, fmp, av) ==
  [insider |-> role, role |-> role, code |-> code, plan |-> FALSE, side |-> side,
   acquired |-> side = "buy", told |-> [fmp |-> fmp, alpha_vantage |-> av],
   value |-> value, lag |-> lag]
MCFilings ==
  {Filed("ceo", "P", "buy", 1, 0, "code", "security"),
   Filed("director", "P", "buy", 0, 1, "code", "letter"),
   Filed("cfo", "S", "sell", 9, 1, "code", "code"),
   Filed("other", "unknown", "sell", 9, 0, "letter", "security"),
   Filed("other", "mechanical", "sell", 9, 0, "code", "letter"),
   [Filed("ceo", "S", "sell", 9, 0, "code", "security") EXCEPT !.plan = TRUE]}

MCOpinions ==
  {[rating |-> "strong_buy", target |-> 130], [rating |-> "sell", target |-> 75],
   [rating |-> "hold", target |-> 0]}
MCStories ==
  {[keys |-> {"url"}, tone |-> Reads(100), about |-> "ticker"],
   [keys |-> {"url", "title"}, tone |-> Reads(-100), about |-> "other"]}
MCDisclosures ==
  {[about |-> "ticker", kind |-> "sale", amount |-> 100, link |-> "report", lag |-> 1],
   [about |-> "other", kind |-> "purchase", amount |-> 25, link |-> "report", lag |-> 0]}
MCAttention ==
  {<<>>, <<[about |-> "ticker", mentions |-> 20, prior |-> 0]>>,
   <<[about |-> "ticker", mentions |-> 0, prior |-> 20]>>}
=============================================================================
