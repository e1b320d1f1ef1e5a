----------------------------- MODULE LivePulls -----------------------------
(***************************************************************************)
(* The pulls of a live run (LiveDataSource of src/briefing_app/            *)
(* pipeline.py) and its health.  The accepted tickers are pulled one after *)
(* another; each leg of a pull walks its chain of providers.  Four feeds   *)
(* are market-wide: the first ticker fetches them, the others reuse them.  *)
(* A refusal is an issue of the ticker; any other exception ends its pull, *)
(* and what it had is dropped.                                             *)
(*                                                                         *)
(* A step is one request, reduced to its reply, or the end of a leg.  Left *)
(* out: the SPY overview, whose failures only leave evidence, cache-only   *)
(* replay, and the market dates other than the run's.                      *)
(***************************************************************************)
EXTENDS Naturals, Sequences

CONSTANTS
  Ticker, Provider, None,
  Configs,      \* the configurations and universes a run may have
  Pages,        \* RETAIL_MOMENTUM_PAGES
  Sessions,     \* FINRA_LOOKBACK_SESSIONS
  Filings,      \* EDGAR_FORM4_MAX_FILINGS
  Series        \* FRED series of the declared factors

(* PROVIDER_CHAIN_LEGS: the chains that are read.                          *)
ChainName == {"options", "prices", "short_interest", "macro", "earnings",
              "news", "analyst", "political", "retail", "insider"}

(* accepted: the tickers, in the order of the gate report, which accepts   *)
(* none twice; warned: the load of the universe had a warning or an error; *)
(* funds have no issuer; keyed: what needs no credential or has it.  A     *)
(* chain that names a provider twice is left out.                          *)
Distinct(s) == \A i, j \in DOMAIN s : s[i] = s[j] => i = j

Config ==
  {c \in [order : [ChainName -> Seq(Provider)], keyed : SUBSET Provider,
          promoted : SUBSET Ticker, accepted : Seq(Ticker),
          warned : BOOLEAN, funds : SUBSET Ticker, stored : BOOLEAN] :
     Distinct(c.accepted) /\ \A n \in ChainName : Distinct(c.order[n])}

ASSUME ConfigsAssumption == Configs \subseteq Config
ASSUME BoundsAssumption ==
  /\ {Pages, Sessions, Filings, Series} \subseteq Nat \ {0}
  /\ None \notin Ticker

(* The legs, in the order of pull_ticker.                                  *)
Leg == {"options", "prices", "short_interest", "baselines", "calendar",
        "readings", "earnings", "news", "analyst", "political",
        "past_political", "retail", "insider", "compute", "health", "done"}
Shared == {"calendar", "readings", "political", "retail"}

After == [options |-> "prices", prices |-> "short_interest",
          short_interest |-> "baselines", baselines |-> "calendar",
          calendar |-> "readings", readings |-> "earnings",
          earnings |-> "news", news |-> "analyst", analyst |-> "political",
          political |-> "past_political", past_political |-> "retail",
          retail |-> "insider", insider |-> "compute",
          compute |-> "options", health |-> "done", done |-> "done"]

(* A reply has data for the ticker, or none, or cannot be normalized; or   *)
(* the client refuses it; or the call raises something else, such as a     *)
(* decoding error.                                                         *)
Answers     == {"data", "none", "unreadable"}
Entitlement == {"no_credentials", "plan_gated", "paywalled"}
Unreached   == {"budget_exhausted", "throttled", "network_error"}
Unusable    == {"missing", "malformed", "repeat_refusal"}
Refusals    == Entitlement \union Unreached \union Unusable
Reply       == Answers \union Refusals \union {"fault"}

SeverityOfAll(reply) ==   \* mutant: standing facts are kept as well
  CASE reply \in Unreached                       -> {"outage"}
    [] reply \in Unusable \union {"unreadable"}  -> {"degraded"}
    [] reply \in Entitlement                     -> {"normal"}
    [] OTHER                                     -> {}

SeverityOfBudget(reply) ==   \* mutant: a spent budget is a standing fact
  CASE reply \in Unreached \ {"budget_exhausted"}  -> {"outage"}
    [] reply \in Unusable \union {"unreadable"}    -> {"degraded"}
    [] OTHER                                       -> {}

SeverityOfGate(reply) ==   \* mutant: a plan gate falls to the default
  CASE reply \in Unreached                         -> {"outage"}
    [] reply \in Unusable \union {"unreadable", "plan_gated"} -> {"degraded"}
    [] OTHER                                       -> {}

(* _issue_severity, of what escalates.                                     *)
Severity(reply) ==
  CASE reply \in Unreached                       -> {"outage"}
    [] reply \in Unusable \union {"unreadable"}  -> {"degraded"}
    [] OTHER                                     -> {}

VARIABLES
  config,      \* the configuration of the run
  todo,        \* the tickers to pull; the first is being pulled
  leg,         \* the leg being pulled
  order,       \* the providers left for it; the first is being asked
  tried,       \* requests made of that provider
  feed,        \* what the leg has so far
  pull,        \* what the pull of the ticker has so far
  memo,        \* the market-wide feeds, as fetched
  memoFor,     \* the ticker that fetched them
  releases,    \* the releases FRED's series resolved to, and whether all are
  used,        \* used[k][s]: whose fetch of feed s the pull of k has
  kept,        \* ticker_data: what the completed pulls had
  failed, scored,   \* tickers with a failure; tickers with a composite
  diagnostics, status,
  amiss        \* history: what went wrong, by where it should show

vars == <<config, todo, leg, order, tried, feed, pull, memo, memoFor, releases,
          used, kept, failed, scored, diagnostics, status, amiss>>

Severities == {"outage", "degraded"}
Feed == [from : SUBSET Provider, answered : SUBSET Provider,
         issues : SUBSET Severities]
NoFeed == [from |-> {}, answered |-> {}, issues |-> {}]

Pull == [answered : SUBSET Provider, issues : SUBSET Severities]
NoPull == [answered |-> {}, issues |-> {}]
Kept == [tickers : SUBSET Ticker, answered : SUBSET Provider,
         issues : [Ticker -> SUBSET Severities]]

Line == {"warned", "failed", "unreached", "unanswered", "unscored"} \union Severities

TypeOK ==
  /\ config \in Configs
  /\ todo \in Seq(Ticker)
  /\ leg \in Leg
  /\ order \in Seq(Provider)
  /\ tried \in Nat
  /\ feed \in Feed
  /\ pull \in Pull
  /\ memo \in [Shared -> Feed]
  /\ memoFor \in [Shared -> Ticker \union {None}]
  /\ releases \in [known : BOOLEAN, count : Nat]
  /\ used \in [Ticker -> [Shared -> Ticker \union {None}]]
  /\ kept \in Kept
  /\ failed \subseteq Ticker
  /\ scored \subseteq Ticker
  /\ diagnostics \subseteq Line
  /\ status \in {"running", "succeeded", "partial"}
  /\ amiss \subseteq {"lost", "session", "quiet", "fault"}

-----------------------------------------------------------------------------
(* The chain a leg of ticker k walks.  Macro has two legs and one chain; a *)
(* promoted ticker asks Alpha Vantage for news first; nobody is asked of   *)
(* the issuer of a fund.                                                   *)
NewsOrder(k) ==
  LET news == config.order["news"]
      At == {i \in DOMAIN news : news[i] = "alpha_vantage"}
      i  == CHOOSE i \in At : TRUE
  IN  IF At # {} /\ k \in config.promoted
        THEN <<"alpha_vantage">> \o SubSeq(news, 1, i - 1) \o SubSeq(news, i + 1, Len(news))
        ELSE news

Chain(l, k) ==
  IF l \in {"analyst", "insider"} /\ k \in config.funds THEN <<>>
  ELSE CASE l \in {"calendar", "readings"}  -> config.order["macro"]
         [] l = "news"                      -> NewsOrder(k)
         [] l \in ChainName \ {"news", "macro"} -> config.order[l]
         [] OTHER                           -> <<>>

(* The providers the module has a hook for.                                *)
Wired == [options |-> {"cboe", "alpha_vantage"},
          prices |-> {"fmp", "twelve_data", "alpha_vantage"},
          short_interest |-> {"finra"},
          calendar |-> {"fred", "fmp"}, readings |-> {"fred", "fmp"},
          earnings |-> {"fmp", "alpha_vantage"},
          news |-> {"finnhub", "alpha_vantage", "fmp"},
          analyst |-> {"fmp", "finnhub"}, political |-> {"fmp"},
          retail |-> {"apewisdom"},
          insider |-> {"sec_edgar", "alpha_vantage", "fmp"}]
WalkingLeg == DOMAIN Wired

Current == Head(todo)
Asked   == Head(order)

(* Requests a provider may be sent for a leg.                              *)
Requests(l) ==
  CASE l \in {"options", "prices"} /\ Asked = "alpha_vantage" -> 2
    [] l = "short_interest"                              -> Sessions
    [] l = "calendar" /\ Asked = "fred"                  -> releases.count
    [] l = "readings" /\ Asked = "fred"                  -> releases.count + Series
    [] l = "readings" /\ Asked = "fmp"                   -> 2
    [] l \in {"analyst", "political"} /\ Asked = "fmp"   -> 2
    [] l = "retail"                                      -> Pages
    [] l = "insider" /\ Asked = "sec_edgar"              -> 1 + Filings
    [] OTHER                                             -> 1

(* Answers that only lead to further requests: the quote of a chain, the   *)
(* index of filings, the dates of a release.                               *)
Preliminary(l) ==
  \/ l = "options" /\ Asked = "alpha_vantage" /\ tried = 0
  \/ l = "insider" /\ Asked = "sec_edgar" /\ tried = 0
  \/ l = "readings" /\ Asked = "fred" /\ tried < releases.count

(* An empty chain or calendar is taken for what it says.                   *)
Yields(l, reply) ==
  /\ ~Preliminary(l)
  /\ reply \in IF l \in {"options", "calendar", "earnings"}
                 THEN {"data", "none"} ELSE {"data"}

(* Not recorded as an issue: what the options chain was refused, and the   *)
(* end of the retail feed.                                                 *)
Quiet(l, reply) ==
  \/ l = "options"
  \/ l = "retail" /\ tried > 0 /\ reply \in Refusals

(* The index of filings is not recorded as an answer.                      *)
Recorded(l, reply) ==
  reply \in Answers /\ ~(l = "insider" /\ Preliminary(l))

Heard(l, reply) ==
  [from     |-> feed.from \union (IF Yields(l, reply) THEN {Asked} ELSE {}),
   answered |-> feed.answered \union (IF Recorded(l, reply) THEN {Asked} ELSE {}),
   issues   |-> feed.issues \union (IF Quiet(l, reply) THEN {} ELSE Severity(reply))]

(* For the history: a FINRA session that is not out yet is routine.        *)
Blame(l, reply) ==
  IF reply \in {"data", "none"} \union Entitlement THEN {}
  ELSE IF Quiet(l, reply) THEN {"quiet"}
  ELSE IF l = "short_interest" /\ reply = "missing" THEN {"session"} ELSE {"lost"}

Init ==
  /\ config \in Configs
  /\ todo = config.accepted
  /\ leg = IF todo = <<>> THEN "health" ELSE "options"
  /\ order = IF todo = <<>> THEN <<>> ELSE Chain("options", Current)
  /\ tried = 0
  /\ feed = NoFeed /\ pull = NoPull
  /\ memo = [s \in Shared |-> NoFeed]
  /\ memoFor = [s \in Shared |-> None]
  /\ releases = [known |-> FALSE, count |-> 0]
  /\ used = [k \in Ticker |-> [s \in Shared |-> None]]
  /\ kept = [tickers |-> {}, answered |-> {}, issues |-> [k \in Ticker |-> {}]]
  /\ failed = {} /\ scored = {}
  /\ diagnostics = {} /\ status = "running" /\ amiss = {}

-----------------------------------------------------------------------------
walkVars   == <<leg, order, tried, feed>>
pullVars   == <<pull, memo, memoFor, used>>
runVars    == <<todo, kept, failed, scored>>
healthVars == <<config, diagnostics, status>>

Blamed(what) == amiss' = amiss \union what

Enter(l, k) ==
  /\ leg' = l /\ order' = Chain(l, k) /\ tried' = 0 /\ feed' = NoFeed

AskAgain(f) ==
  /\ tried' = tried + 1 /\ feed' = f
  /\ UNCHANGED <<leg, order>> /\ UNCHANGED pullVars

NextProvider(f) ==
  /\ order' = Tail(order) /\ tried' = 0 /\ feed' = f
  /\ UNCHANGED leg /\ UNCHANGED pullVars

AddToPull(f) ==
  pull' = [answered |-> pull.answered \union f.answered,
           issues |-> pull.issues \union f.issues]

(* A leg ends; a market-wide feed is kept for the run.                     *)
MemoiseNothing(s, f) ==   \* mutant: each ticker fetches its own
  /\ used' = [used EXCEPT ![Current][s] = Current]
  /\ UNCHANGED <<memo, memoFor>>

Memoise(s, f) ==
  /\ memo' = [memo EXCEPT ![s] = f]
  /\ memoFor' = [memoFor EXCEPT ![s] = Current]
  /\ used' = [used EXCEPT ![Current][s] = Current]

EndLeg(f) ==
  /\ AddToPull(f)
  /\ IF leg \in Shared THEN Memoise(leg, f) ELSE UNCHANGED <<memo, memoFor, used>>
  /\ Enter(After[leg], Current)

(* The chambers are followed by the days in the cache.                     *)
EndChain(f) ==
  IF leg = "political"
    THEN /\ leg' = "past_political" /\ order' = <<>> /\ tried' = 0 /\ feed' = f
         /\ UNCHANGED pullVars
    ELSE EndLeg(f)

(* An exception leaves pull_ticker: what the pull had is dropped, what the *)
(* run remembers is not.                                                   *)
NextTicker ==
  /\ todo' = Tail(todo)
  /\ pull' = NoPull
  /\ IF Tail(todo) = <<>>
       THEN leg' = "health" /\ order' = <<>> /\ tried' = 0 /\ feed' = NoFeed
       ELSE Enter("options", Head(Tail(todo)))

PullRaises ==
  /\ failed' = failed \union {Current}
  /\ releases' = IF releases.known THEN releases ELSE [known |-> FALSE, count |-> 0]
  /\ NextTicker
  /\ Blamed({"fault"})
  /\ UNCHANGED <<memo, memoFor, used, kept, scored>> /\ UNCHANGED healthVars

(* One request of leg l to the provider being asked.  The leg is done, or  *)
(* the provider is, or there is more to ask of it.                         *)
Asking(l) ==
  /\ leg = l /\ order # <<>> /\ Asked \in Wired[l]
  /\ l \in Shared => memoFor[l] = None
  /\ l \in {"calendar", "readings"} /\ Asked = "fred" => releases.known
  /\ tried < Requests(l)

(* An index of filings or a release that cannot be normalized is a fault.  *)
Replies(l) ==
  IF Asked \notin config.keyed THEN {"no_credentials"}
  ELSE IF l = "insider" /\ Preliminary(l) THEN Reply \ {"unreadable"} ELSE Reply

LastRequest(l) == tried + 1 >= Requests(l)

Walk(l, reply, done, over) ==
  /\ Asking(l)
  /\ reply \in Replies(l)
  /\ IF reply = "fault" THEN PullRaises
     ELSE /\ \/ done /\ EndChain(Heard(l, reply))
             \/ ~done /\ (over \/ LastRequest(l)) /\ NextProvider(Heard(l, reply))
             \/ ~done /\ ~over /\ ~LastRequest(l) /\ AskAgain(Heard(l, reply))
          /\ Blamed(Blame(l, reply))
          /\ UNCHANGED releases /\ UNCHANGED runVars /\ UNCHANGED healthVars

(* Everything the provider has is collected before the leg is done.        *)
Collected(l, reply) == LastRequest(l) /\ Heard(l, reply).from # {}

(* _pull_option_chain: a chain, whoever has it, or the pull raises.        *)
PullOptionChain(reply) ==
  Walk("options", reply, Yields("options", reply), reply # "data")

(* _price_bars, _catalyst_calendar, _news_batch: the first that has data.  *)
PriceBarsMerged(reply) ==   \* mutant: goes on to the next provider
  Walk("prices", reply, FALSE, FALSE)

PriceBars(reply) ==
  Walk("prices", reply, Yields("prices", reply), FALSE)

CatalystCalendar(reply) ==
  Walk("earnings", reply, Yields("earnings", reply), FALSE)

NewsBatch(reply) ==
  Walk("news", reply, Yields("news", reply), FALSE)

(* _finra_short_volume walks back over sessions until one answers.         *)
ShortBorrow(reply) ==
  Walk("short_interest", reply, Yields("short_interest", reply), reply \in Answers)

(* _analyst_signals: the endpoints of a provider together, then the next.  *)
AnalystSignals(reply) ==
  Walk("analyst", reply, Collected("analyst", reply), FALSE)

(* _insider_transactions: of EDGAR the index, then each filing in it.      *)
InsiderTransactions(reply) ==
  Walk("insider", reply, Collected("insider", reply),
       Preliminary("insider") /\ reply # "data")

(* _fred_series_releases, for whichever macro leg comes first; the other   *)
(* one is given the result without its issues.                             *)
FredSeriesReleases(reply) ==
  /\ leg \in {"calendar", "readings"} /\ memoFor[leg] = None
  /\ order # <<>> /\ Asked = "fred" /\ ~releases.known
  /\ reply \in Replies(leg) \ {"unreadable"}
  /\ IF reply = "fault" THEN PullRaises
     ELSE /\ releases' = [known |-> tried + 1 = Series,
                          count |-> releases.count + IF reply = "data" THEN 1 ELSE 0]
          /\ tried' = IF tried + 1 = Series THEN 0 ELSE tried + 1
          /\ feed' = [from |-> feed.from,
                      answered |-> feed.answered \union
                        (IF reply \in Answers THEN {"fred"} ELSE {}),
                      issues |-> feed.issues \union
                        Severity(IF reply = "none" THEN "unreadable" ELSE reply)]
          /\ Blamed(IF reply = "none" THEN {"lost"} ELSE Blame(leg, reply))
          /\ UNCHANGED <<leg, order>> /\ UNCHANGED pullVars
          /\ UNCHANGED runVars /\ UNCHANGED healthVars

(* _macro_calendar_for_run, _macro_readings_for_run.                       *)
MacroCalendar(reply) ==
  Walk("calendar", reply, Collected("calendar", reply), FALSE)

MacroReadings(reply) ==
  Walk("readings", reply, Collected("readings", reply), FALSE)

(* _political_trades_for_run: both chambers, then what earlier days left   *)
(* in the cache.  A file that is not JSON raises.                          *)
PoliticalTrades(reply) ==
  Walk("political", reply, Collected("political", reply), FALSE)

CachedPoliticalTrades(reply) ==
  /\ leg = "past_political"
  /\ reply \in {"data", "unreadable", "fault"}
  /\ IF reply = "fault" THEN PullRaises
     ELSE /\ LET f == [feed EXCEPT !.issues = @ \union Severity(reply)]
             IN  AddToPull(f) /\ Memoise("political", f)
          /\ Enter("retail", Current)
          /\ Blamed(Blame(leg, reply))
          /\ UNCHANGED releases /\ UNCHANGED runVars /\ UNCHANGED healthVars

(* _retail_momentum_for_run: pages until one has nothing.                  *)
RetailMomentum(reply) ==
  Walk("retail", reply,
       (reply # "data" \/ LastRequest("retail")) /\ Heard("retail", reply).from # {},
       reply # "data")

(* A provider without a hook is passed over, and so is FRED's calendar     *)
(* when no release is known.                                               *)
PassOver ==
  /\ leg \in WalkingLeg /\ order # <<>>
  /\ leg \in Shared => memoFor[leg] = None
  /\ \/ Asked \notin Wired[leg]
     \/ leg = "calendar" /\ Asked = "fred" /\ releases.known /\ releases.count = 0
  /\ NextProvider(feed)
  /\ UNCHANGED <<releases, amiss>> /\ UNCHANGED runVars /\ UNCHANGED healthVars

(* No provider is left: the leg is empty, or, for the chain, the pull      *)
(* raises.                                                                 *)
ChainEnds ==
  /\ leg \in WalkingLeg /\ order = <<>>
  /\ leg \in Shared => memoFor[leg] = None
  /\ IF leg = "options" THEN PullRaises
     ELSE /\ EndChain(feed)
          /\ UNCHANGED <<releases, amiss>>
          /\ UNCHANGED runVars /\ UNCHANGED healthVars

(* The early return of the market-wide feeds: the responses and the issues *)
(* of the first ticker are those of each.                                  *)
ReuseFeedSilently ==   \* mutant: issues go to the first ticker only
  /\ leg \in Shared /\ memoFor[leg] # None
  /\ AddToPull([memo[leg] EXCEPT !.issues = {}])
  /\ used' = [used EXCEPT ![Current][leg] = memoFor[leg]]
  /\ Enter(IF leg = "political" THEN "retail" ELSE After[leg], Current)
  /\ UNCHANGED <<memo, memoFor, releases, amiss>>
  /\ UNCHANGED runVars /\ UNCHANGED healthVars

ReuseFeed ==
  /\ leg \in Shared /\ memoFor[leg] # None
  /\ AddToPull(memo[leg])
  /\ used' = [used EXCEPT ![Current][leg] = memoFor[leg]]
  /\ Enter(IF leg = "political" THEN "retail" ELSE After[leg], Current)
  /\ UNCHANGED <<memo, memoFor, releases, amiss>>
  /\ UNCHANGED runVars /\ UNCHANGED healthVars

(* _stored_option_series: without a database the baselines never build.    *)
StoredOptionSeries(reply) ==
  /\ leg = "baselines"
  /\ reply \in {"data", "fault"}
  /\ IF reply = "fault" /\ config.stored THEN PullRaises
     ELSE /\ EndLeg([NoFeed EXCEPT
                       !.issues = IF config.stored THEN {} ELSE {"degraded"}])
          /\ Blamed(IF config.stored THEN {} ELSE {"lost"})
          /\ UNCHANGED releases /\ UNCHANGED runVars /\ UNCHANGED healthVars

(* The builders of structure and components may raise.  Once they have not *)
(* the pull is kept, whether its scoring, or later its setup rules, raise. *)
Compute(scores, raises) ==
  /\ leg = "compute"
  /\ kept' = [tickers |-> kept.tickers \union {Current},
              answered |-> kept.answered \union pull.answered,
              issues |-> [kept.issues EXCEPT ![Current] = pull.issues]]
  /\ scored' = scored \union (IF scores THEN {Current} ELSE {})
  /\ failed' = failed \union (IF raises THEN {Current} ELSE {})
  /\ NextTicker
  /\ Blamed(IF raises THEN {"fault"} ELSE {})
  /\ UNCHANGED <<memo, memoFor, used, releases>> /\ UNCHANGED healthVars

ComputeRaises == leg = "compute" /\ PullRaises

-----------------------------------------------------------------------------
(* expected_providers: the first of each chain that is known and has its   *)
(* credential.                                                             *)
Known == UNION {Wired[l] : l \in WalkingLeg}

Lead(name) ==
  LET chain == config.order[name]
      able  == {i \in DOMAIN chain : chain[i] \in Known \intersect config.keyed}
  IN  {chain[i] : i \in {i \in able : \A j \in able : i <= j}}

Expected == UNION {Lead(name) : name \in ChainName}

Accepted == {config.accepted[i] : i \in DOMAIN config.accepted}

Unscored == Accepted \ (scored \union failed)

(* What the gate's load said and _assess_run_health, and _final_status of  *)
(* both.                                                                   *)
HealthLines ==
  (CASE Expected # {} /\ kept.answered = {} /\ kept.tickers # {} -> {"unreached"}
     [] Expected \subseteq kept.answered                         -> {}
     [] OTHER                                                    -> {"unanswered"})
  \union (UNION {kept.issues[k] : k \in kept.tickers})
  \union (IF Unscored = {} THEN {} ELSE {"unscored"})
  \union (IF failed = {} THEN {} ELSE {"failed"})
  \union (IF config.warned THEN {"warned"} ELSE {})

AssessRunHealth ==
  /\ leg = "health"
  /\ leg' = "done"
  /\ diagnostics' = HealthLines
  /\ status' = IF HealthLines = {} THEN "succeeded" ELSE "partial"
  /\ UNCHANGED <<config, order, tried, feed, releases, amiss>>
  /\ UNCHANGED pullVars /\ UNCHANGED runVars

Next ==
  \/ \E reply \in Reply :
       \/ PullOptionChain(reply)
       \/ PriceBars(reply)
       \/ ShortBorrow(reply)
       \/ StoredOptionSeries(reply)
       \/ FredSeriesReleases(reply)
       \/ MacroCalendar(reply)
       \/ MacroReadings(reply)
       \/ CatalystCalendar(reply)
       \/ NewsBatch(reply)
       \/ AnalystSignals(reply)
       \/ PoliticalTrades(reply)
       \/ CachedPoliticalTrades(reply)
       \/ RetailMomentum(reply)
       \/ InsiderTransactions(reply)
  \/ PassOver
  \/ ChainEnds
  \/ ReuseFeed
  \/ \E scores, raises \in BOOLEAN : Compute(scores, raises)
  \/ ComputeRaises
  \/ AssessRunHealth

Spec == Init /\ [][Next]_vars

-----------------------------------------------------------------------------
(* All tickers of a run are scored with one macro calendar, one set of     *)
(* readings, of disclosed trades and of retail attention, also when the    *)
(* ticker that fetched a feed failed afterwards (fetched once per run date *)
(* and shared across tickers).                                             *)
SharedFeedsAgree ==
  \A j, k \in kept.tickers : used[j] = used[k]

(* What went wrong with a market-wide feed is named for every ticker that  *)
(* was scored with it, not only for the one that fetched it ("all 18       *)
(* names", RUN-HEALTH.md).                                                 *)
SharedIssuesNameAll ==
  \A k \in kept.tickers, s \in Shared : memo[s].issues \subseteq kept.issues[k]

(* The data of a leg comes from one provider: a fallback is not a merge    *)
(* that would count one consensus twice (_analyst_signals).                *)
SingleSource ==
  \A p, q \in feed.from : p = q

Complete ==
  ~config.warned /\ Accepted \subseteq scored /\ Expected \subseteq kept.answered

(* A run that says succeeded lost nothing it should have had: its universe *)
(* was loaded whole, no ticker failed or went without a score, every lead  *)
(* answered, and no request was refused or unreadable where that is        *)
(* recorded, also if the issue was met by another ticker or in a feed that *)
(* is reused (RUN-HEALTH.md).                                              *)
SucceededLostNothing ==
  status = "succeeded" =>
    Complete /\ amiss \intersect {"lost", "fault"} = {}

(* The other half: standing facts (gates, missing keys, hooks that are not *)
(* wired, fallbacks) do not make a run partial.                            *)
HealthyRunSucceeds ==
  leg = "done" /\ Complete /\ amiss \subseteq {"quiet"} => status = "succeeded"

(* ... nor does what the code calls routine: a FINRA session that is not   *)
(* out yet, when an earlier one is found.                                  *)
RoutineRunSucceeds ==
  leg = "done" /\ Complete /\ amiss \subseteq {"quiet", "session"} =>
    status = "succeeded"
=============================================================================
