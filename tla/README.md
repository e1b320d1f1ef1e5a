# Briefing app: TLA+ specifications and proofs

`briefing_app` produces a market briefing for each market day. It loads a universe of
candidate tickers, gates it, pulls data for the accepted names from metered providers,
scores them, runs strategy rules, and writes a dashboard, database rows and a rejection
ledger. n8n workflows, launchd or an operator start it. Publication copies the
dashboard to a stable place. A separate job backfills option history from the same
provider allowance.

The specifications model what is hard to test in it: processes that share files
without locks, budgets that are read and written back, rows that several runs of a date
share, runs that fail, are killed, or cross midnight; and the chain of decisions from the
gate to the report, where what one stage has floored passes through four others. Before
that, they model what the program takes for data: how bodies that say "200 OK" and hold a
refusal are told from payloads, and how figures, filings and opinions with dates of
several kinds become scores.

Paths below are relative to the repository. `pkg` stands for `src/briefing_app`.

## Inventory

| Component | State it keeps | Operations | Interacts with |
| --- | --- | --- | --- |
| Request budget (`pkg/providers/budget.py`) | one counter file per provider and UTC day (count, learnt refusal), one memo of plan-gated endpoints per provider | `reserve`, `remaining`, `note_quota_exhausted`, `note_plan_gated` | every provider client of every process |
| Provider base client (`pkg/providers/base.py`) | refusal counts per endpoint, for one client instance | `fetch_json_url`, `fetch_text_url`: guard, reserve, send, retry, validate, cache | budget, raw cache, provider |
| Raw cache (`pkg/raw_cache.py`) | a file per provider, endpoint, date and symbol | `write_json`, reads for cache-only replay | clients |
| Payload validation (`pkg/providers/provider_validation.py`) | none | `validate_payload`, `validate_text_payload`, `validate_text_data_payload`, `validate_binary_payload` | base client, preflight, normalizers |
| Concrete clients (`pkg/providers/*`) | none | build URLs | base client |
| Normalizers (`pkg/providers/normalizers.py`) | none | payloads to rows: what is rejected, skipped and dated | live data source |
| Pipeline (`pkg/pipeline.py`) | `PipelineRunOutput` in memory, a status file per run | `run_pipeline` | all of the above, storage, ledger, dashboard |
| Live data source (`LiveDataSource` of `pkg/pipeline.py`) | market-wide feeds and FRED's releases, for one run | `pull_ticker` over the provider chains, `expected_providers` | clients, pipeline |
| Storage (`pkg/storage.py`) | `briefing_run` (a row per date and type), `daily_snapshot` (a row per ticker and date), scores, evidence, setups | upserts, `finish_briefing_run` | pipeline, backfill |
| Dashboard (`pkg/dashboard/*`) | `output/dashboard/<date>/dashboard.{html,json}` | build, grade, render | pipeline, delivery |
| Delivery (`pkg/delivery.py`) | `output/published/<date>/<run>/`, `output/published/latest/` | `publish_static_artifacts` | dashboard files |
| Operations (`ops/run_daily.py`, `pkg/api.py`, `workflows/*.json`) | run token | start runs, publish | pipeline, delivery |
| Candidate gate (`pkg/universe/*`) | `rejection_history.json`, a report per date | `run_candidate_gate`, `update_history` | pipeline |
| IV backfill (`pkg/backfill.py`) | its `briefing_run` row, `daily_snapshot` rows | `run_iv_backfill` | budget, client, storage |
| Components (`pkg/components/*`) | none | rows to the scores S_M, S_S, S_I, S_F; `combine_sub_scores` | normalizers, scoring |
| Scoring, options mathematics (`pkg/scoring.py`, `pkg/options_math.py`) | none | pure functions | pipeline |
| Strategy engine (`pkg/strategy/*`) | none | pure rules | pipeline |
| Preflight (`pkg/preflight.py`) | `latest.json` and a dated report; the raw cache; for a run, its map of CIKs and its rows | `run`: probe every endpoint of the registry, in routine, deep or cache-only mode | raw cache, budget, providers; the pipeline shows its rows |
| Configuration (`pkg/config.py`, `pkg/settings.py`, `pkg/source_registry.py`) | none | parse | all |

What is hard, and where it is modelled:

* **Read, decide, write back, without a lock.** Counter files and the gating memo
  (`ProviderFetch`), the rejection ledger (`GateLedger`).
* **Files replaced in place.** `Path.write_text` truncates before it writes; a reader in
  between, or after a kill, finds nothing (`ProviderFetch`), or half of a payload
  (`Preflight`). The ledger is replaced by rename and the contrast is visible in
  `GateLedger`.
* **A cache that several programs fill.** Preflight, cache-only runs and the clients share
  files, and what one has put there another takes for an answer (`Preflight`).
* **Dates of four kinds.** A figure is of a period, was printed later, is released on a
  calendar that FRED gives separately, and is read on the day of a run (`TickerEvidence`).
* **A day that ends in the middle of something.** A request sent before midnight and
  refused after it, a pacing sleep across it (`ProviderFetch`); a gate run whose date is
  yesterday's (`GateLedger`).
* **Rows and directories named by date.** Runs of one date share the row of their type,
  the snapshot rows and the dashboard files (`BriefingRun`, `BriefingOps`).
* **Failure in the middle.** Exceptions close the run as failed; a kill does not
  (`BriefingRun`). A publication is six writes (`StaticDelivery`).
* **One allowance, several spenders.** Live runs and backfill (`IvBackfill`).
* **Fallbacks, shared feeds, and failures that are only noted.** A leg walks a chain of
  providers; some legs are fetched by one ticker for all; a refusal is a line of text
  whose class decides the status of the run (`LivePulls`).
* **Decisions taken twice.** Tier floors, required evidence and estimated dates are
  judged in the gate, in scoring and again in the strategy engine, from different inputs
  (`CandidateFlow`).

What makes each component correct:

* budget: never more claims than the allowance, no request after a learnt refusal, a
  gated endpoint is not asked again, the files never overstate;
* client: a call ends, a repeatedly malformed endpoint is parked, a refusal never
  replaces a good payload;
* pipeline and storage: baselines are live-only, the shared row speaks for its run, the
  report says what the status says;
* live data source: all tickers see the same market-wide data and what is wrong with it,
  a fallback replaces and never merges, a run says succeeded exactly if nothing was lost;
* delivery: a manifest names files that exist, of a run that may be published;
* ledger: it only understates, repeats are recent, the streak of an accepted name starts
  over, its counts are those of the report;
* backfill: only its failures and the provider eat into what a live run is due, a dead
  endpoint is left alone, success means complete;
* preflight: a refusal never reaches the cache, what it calls ok stays in its file, and a
  run without a hard failure hides none;
* normalizers and components: a figure never passes for younger than it is and counts on
  the day it is out, sentiment rests on analysts, an insider score on trades that the feed
  lets pass for their own;
* decisions: what is tradeable is live, confirmed and measured; less evidence never
  raises a tier; the stages agree on the tier; no volatility is bought and sold at once.

## Modules

| Module | Models | Extends or instantiates |
| --- | --- | --- |
| `RequestBudget` | contents of the budget's files and what each method makes of them; no variables | |
| `DailyAllowance` | abstract specification: claims per day within the allowance, none after a stop | |
| `ProviderFetch` | clients of one provider in several processes | extends `RequestBudget`, instantiates `DailyAllowance` |
| `ProviderFetchProofs` | theorems on `ProviderFetch` | extends `ProviderFetch` |
| `BriefingRun` | `run_pipeline` and the rows and files it keeps | |
| `StaticDelivery` | `publish_static_artifacts` | |
| `BriefingOps` | runs of a date and their publication | extends `BriefingRun`, instantiates `StaticDelivery` |
| `BriefingProofs` | theorems on `BriefingOps` | extends `BriefingOps` |
| `Payloads` | validation of a body; no variables | |
| `Preflight` | preflight runs of a day beside the clients | extends `RequestBudget`, `Payloads` |
| `PreflightProofs` | theorems on `Preflight` | extends `Preflight` |
| `Normalizers` | the feeds behind S_M, S_I and S_S; no variables | extends `Payloads` |
| `SubScores` | legs and their weighted mean; no variables | extends `Scoring` |
| `MacroComponent`, `SentimentComponent`, `InsiderComponent` | S_M, S_S and S_I; no variables | extend `SubScores` |
| `TickerEvidence` | what is published day after day, and what a ticker's pull makes of it | extends `Normalizers` and the three components |
| `EvidenceProofs` | theorems on `TickerEvidence` | extends `TickerEvidence` |
| `LivePulls` | the pulls of a live run and its health | |
| `LivePullsProofs` | theorems on `LivePulls` | extends `LivePulls` |
| `GateLedger` | rejection ledger and the runs that advance it | |
| `GateLedgerProofs` | theorems on `GateLedger` | extends `GateLedger` |
| `IvBackfill` | backfill beside live runs | |
| `IvBackfillProofs` | theorems on `IvBackfill` | extends `IvBackfill` |
| `GateRules` | rules of the catalyst gate for one candidate; no variables | |
| `Scoring` | composite score and confidence tier; no variables | |
| `StrategyRules` | strategy rules, tier floors, leverage guard; no variables | extends `GateRules`, `Scoring` |
| `CandidateFlow` | one candidate from the gate to the report | extends `StrategyRules` |
| `CandidateFlowProofs` | theorems on `CandidateFlow` | extends `CandidateFlow` |
| `MCBriefing`, `MCGateLedger` | the symmetry of the runs' model values | |
| `MCPreflight` | registry, order and bodies of its run | extends `Preflight` |
| `MCEvidence` | configurations, faults and what may be published | extends `TickerEvidence` |
| `MCLivePulls` | configurations of its runs | extends `LivePulls` |
| `MCCandidateFlow` | candidates, settings and pulls of its run | extends `CandidateFlow` |

### ProviderFetch

A process `p` holds a client. `call[p]` holds the locals of the call in progress (the
endpoint, the attempt, the day and the contents that were read), `pc[p]` the line it is
at, `refusals[p]` the client's `_refusal_counts`, which `NewClient` forgets. A live run
builds a client for each call, the backfill one for all its calls. A step is one
access to a file, one request or one answer. `_guard_request` is `Guard` and `Reserve`;
`_write` is a truncation and a write (`ReserveTruncate`, `ReserveWrite`, and the same
for the memo and for the refusal). An answer is reduced to the verdict of validation:
`ok`, `malformed` (the refusals that are counted for parking), `throttled` (that close
the day), `plan_gated` (that gate the endpoint), `other` (that change nothing).

`claimed`, `stopped` and `gateNoted` are history variables: what happened, as opposed to
what the files say.

### Payloads, Preflight

A body is reduced to its form, what it says and the required paths it holds. The tests of
`provider_validation.py` look for phrases, keys and shapes in a fixed order; `says` is the
first thing that test finds, and each operator of `Payloads` is the order of one of them.

`Preflight` has a run in progress: `todo` is the rest of the registry, `step` whether it is
about to probe an endpoint, waits for an answer, or is to report; `context` is how much of
`_substitutions` is done for the endpoint in hand (the filing it found, in the end),
`session` which of its trading days is tried. `cached` has a slot for each file of the day: it
bears the endpoint, the session, the filing (`Targets`) and the suffix (`Suffixes`). An answer
is kept at `KeptAt`, with the suffix of the URL that answered, and looked for at `LookedAt`,
with that of the registry. `kept` has the files of the rows that are ok. A step is a row
settled without asking (`SettleUnasked`), a lookup from the cache or by request
(`ReadTickers`, `RequestTickers` and the same for submissions), a reservation
(`SendProbe`), an answer (`ReceiveProbe`), a look into the cache (`Replay`), or
`WriteReport`. Exceptions that leave `run()` end it without a report (`Raise`). `Killed` may
come at every step and leaves the slot being written torn. `OtherClient` is a client of the
pipeline at work on that date, which claims requests and caches data into the slots it
shares, of which it may ask fewer paths than the registry (`IsDataOfClient`).

### Normalizers, components, TickerEvidence

A feed is a sequence of rows, reduced to the fields a component uses. `Normalizers` says
of each feed which bodies are rejected, which rows are skipped, and what date a row has
when it carries none or one that cannot be read. The components work in percent; quotients
are cut towards zero, which moves a score by less than one hundredth and no sign.

`TickerEvidence` has a world that publishes: a series with its calendar (`schedule`,
`figures`), insiders' trades (`filings`), analysts' opinions, stories and
disclosures of Congress. A filed trade is what the Form 4 says of it (`FormTrade`: code,
plan, words), and `told` what the rows of FMP and Alpha Vantage give as its type
(`RowTrade`): the code, a security, or only the letter of an acquisition or a disposal.
Once a day `Run` pulls the ticker: each feed answers from the world, or fails in one of the
ways of `Fault`, the legs walk their chains, and `result` has the three components.
`archive` is what earlier days left in the raw cache of congressional trades. Feeds that a
component does not use cannot influence it, so each configuration has the chains of one
component.

### BriefingRun, StaticDelivery, BriefingOps

`out[r]` is the `PipelineRunOutput` of run `r`, reduced to type, mode, status, the kinds
of lines in its diagnostics, and the tickers still to be persisted. `row[t]` is the
`briefing_run` row of run type `t`, `snapshot[k]` the run a `daily_snapshot` row comes
from, `page` who wrote the two dashboard files, `statusFile` each run's own status file.
`Raise` is the `except` clause of `run_pipeline`: any step may raise. `Crash` is a kill.
`BriefingOps` adds publication by whoever called the run, after it has returned.

### LivePulls

The tickers in `todo` are pulled one after another. `leg` is the leg of `pull_ticker`
that is under way, `order` what is left of its provider chain, `tried` the requests made
of the first provider in it, `feed` what the leg has (whose data, who answered, which
classes of issues). At the end of a leg `feed` goes to `pull` (the locals of
`pull_ticker`), and of a market-wide leg to `memo` too (`_macro_calendar`,
`_macro_readings`, `_political_trades`, `_retail_momentum`); at the end of the pull it
goes to `kept` (`ticker_data`). `releases` is `_fred_series_releases_by_run`. A step is
one request with its reply. `PullRaises` is an exception out of `pull_ticker`; which
exceptions are caught on the way is in the actions: all legs catch refusals and most
catch what cannot be normalized, nothing else is caught. `Severity` is
`PROVIDER_STATUS_SEVERITY` with the rules for the texts, `HealthLines` is
`_assess_run_health` with the warnings and errors of the gate's load (`warned`). `memoFor` and
`used` are history variables (who fetched a feed, whose fetch a pull used), and so is
`amiss`: what went wrong, told apart by whether the code means to show it (`lost`,
`fault`), calls it routine (`session`), or discards it (`quiet`).

### GateLedger

A run reads the active records for its date, gates its universe, reads the ledger again
and replaces it. A universe is any sequence of up to `MaxEntries` entries, each passing
the rules or not, of one ticker as often as it likes; `run_gate` rejects a second entry of
a ticker. `Advance` is the body of the loop of `update_history`.

### IvBackfill

`run_iv_backfill` as a loop over pairs, next to the runs of `run_pipeline` of that day.
Each `run[r]` is daily or weekly, live or fixture, and starts, ends or is killed at any
time; a live one sends requests between. Runs of one type share a row of `briefing_run`
(`row`), which a start puts back to `running` and a kill leaves as it is; the row does
not tell a fixture run from a live one to `_live_run_completed`. `counter` is the file
of `RequestBudget`, with its count and the refusal on record: `Start` plans the
reservation from the count alone, as `remaining()` does, and from the rows as they are
then; every request, live or not, is refused by the count or by the recorded refusal, and
every throttled answer, live or not, records one. A pair ends in an answer (complete or
thin), a failure (throttled, unusable, or a payload that makes no row, which alone counts
as sent), a parked endpoint, an exhausted budget, or an endpoint the key cannot reach. On
a plan without a daily count nothing is shared, so the allowance is a number here.

### CandidateFlow

`pc` names the stage of `run_pipeline` that comes next for a candidate: `gate`
(`evaluate_candidate`), `pull` (`build_ticker_pull_result`, `build_options_structure`,
`build_scoring_result`), `rules` (`evaluate_candidate_setups`), `report` (`_idea_status`).
`PullRaises` and `RulesRaise` are the two `except` clauses that keep a failure to its
ticker; for that reason one candidate is enough.

A candidate is reduced to its class, its dates (days from the run, confirmed or not), the
instruments it permits and what it declares. `pull` is what its providers returned,
reduced to the side of a threshold each measurement lies on. Scores are percentages, and
a composite is kept as a weighted sum with its weight, so that no division rounds.
`structure`, `score`, `tier` and `setups` are what the code stores under those names.

`StrategyRules` has no rule for classes P and S and for the skew setup, which no ticker
reaches: P and S require `S_F`, which `pipeline.py` declares n/a for every ticker
(`OwnershipClassesAreFloored` would not be provable if one did), and no data source has the
history of risk reversals.

## Runs

| Run | Module, configuration | Question | Result |
| --- | --- | --- | --- |
| `fetch_alone` | `ProviderFetch`, `FetchAlone.cfg` | is the budget exact for one process over three days? | holds, with `CallEnds` and the refinement of `DailyAllowance` |
| `fetch_shared` | `ProviderFetch`, `FetchShared.cfg` | what survives two processes, a kill and a midnight? | files only understate; parking holds |
| `fetch_overspend` | `ProviderFetch`, `FetchOverspend.cfg` | is the allowance kept by several processes? | no (finding 1) |
| `briefing_ops` | `MCBriefing`, `BriefingOps.cfg` | do rows, snapshots, report and publication agree? | yes, for live runs that do not overlap another of their type |
| `briefing_archive` | `MCBriefing`, `BriefingArchive.cfg` | does the archive of a run hold its report? | no (finding 2) |
| `gate_ledger` | `MCGateLedger`, `GateLedger.cfg` | is the ledger sound under overlap, kills and midnights? | yes, it only understates |
| `iv_backfill` | `IvBackfill`, `IvBackfill.cfg` | does the reserve wait for a run to end, what can eat into it, and when does a backfill stop or say succeeded? | it waits for the end of a run, if not of a live one (below); its own failed requests and the provider's refusal, nothing else; holds |
| `live_pulls` | `MCLivePulls`, `LivePulls.cfg` | does the status of a run say what its pulls lost, and no more? | yes, but for what is not recorded (below) |
| `pulls_routine` | `MCLivePulls`, `PullsRoutine.cfg` | do routine conditions leave the status alone? | no (finding 3) |
| `preflight` | `MCPreflight`, `Preflight.cfg` | what reaches the cache, can it be replayed, and does the report hide a failure? | data only, but for SEC's lookup files (below); yes, by a run that looks for the same file (below); no |
| `evidence` | `MCEvidence`, `Evidence.cfg` | do the components say what was published, whatever feeds fail? | yes, but for what a fallback does not say of a trade (below) |
| `candidate_flow` | `MCCandidateFlow`, `CandidateFlow.cfg` | is what becomes tradeable live, confirmed and measured, and do the stages agree? | yes |

### Findings

1. `reserve()` does not lock the counter it rewrites. Two processes claim the last
   request and one increment is lost, though the docstring promises a budget that
   survives across processes.
2. The dashboard directory is named by the date. The daily and the weekly workflow both
   start at 06:30 on Mondays, and the archive of the first may hold the report of the
   second.
3. FINRA publishes a session the day after. A run that looks before the file is out walks
   back to an earlier session, as it is meant to, but the 404 it met is kept as an issue
   of status `missing`, which is degraded: the run is partial for what the code calls
   routine.
Other disagreements have no run. These concern state that processes share:

* `reserve()` writes back the counter as it read it before its pacing sleep
  (`budget.py:319`). A refusal that another process recorded in between is lost and the
  provider asked again, though "the refusal is written into the day's counter"
  (`budget.py:228-229`).
* `note_plan_gated()` rewrites the memo without a lock (`budget.py:197`). Of two processes
  that note the gates of different endpoints one is lost, and its endpoint asked again,
  where the docstring says "never re-probed" (`budget.py:191`).
* A snapshot is refused by the mode in the row of its type (`storage.py:757`). A live run
  that starts during a fixture run of its type rewrites that row, and the synthetic
  snapshots are stored, where `README.md:163-164` says that they "cannot contaminate the
  live baseline". `BriefingOps` with `OneAtATime = FALSE` shows it.
* A universe may name a ticker twice (`loader.py:419`), for the gate to reject the second
  entry. The report then accepts and rejects it, in this order, and `update_history` puts
  the accepted name back into the ledger (`store.py:135`), from where the next report calls
  its second entry a repeat; "accepted names graduate out" (`store.py:126`) is not true of
  it. `AcceptedStartsOver` is what is.
* `_live_run_completed` does not look at the data mode of a row (`backfill.py:640`). A
  fixture run, which sends nothing, lets the backfill spend what is reserved for the live
  run, though "before the live run has finished, the backfill's share is zero"
  (`backfill.py:47-48`). `WaitsForARun` is of runs of any mode.
* A backfill's cap counts usable answers (`backfill.py:336`). Its retries and failed
  requests are claimed all the same, and take the requests held back for a live run, which
  is said to be "paid first" (`backfill.py:519-520`). `StarvedOnlyByFailures` allows for
  them, and for the provider's own refusal, which closes the day for all.

These concern the budget, the report and the clients:

* `note_quota_exhausted` takes the day of the answer (`budget.py:247`): a request sent
  before midnight and refused after it closes the new day, though a refusal is said to
  hold for the day it was earned in (`budget.py:230-231`).
* The lines of refused snapshots are appended after the report was built
  (`pipeline.py:834`); `pipeline.py:778-779` says that the report carries what the status
  is computed from. Only fixture runs have such lines.
* `combine_sub_scores` says that a component of capped legs alone is `n/a`, and scores
  one whose caps do not bind.
* `_refusal_counts` is described as consecutive, and failures of other kinds in between
  do not reset it. The client "is built once per run" (`base.py:116-117`), but
  `LiveDataSource` builds one for each call (`pipeline.py:2980-3050`), so that nothing is
  parked across tickers in a live run.

These concern the health of a live run:

* What EDGAR's filing index answers is not recorded as an answer. A run whose names filed
  no recent Form 4, or which are all funds, says that `sec_edgar` did not answer.
* `ticker_to_cik[clean_ticker]` (`providers/sec_edgar.py:58`) raises `KeyError` for a ticker without
  a CIK, and an index that cannot be normalized raises too: both fail the whole pull of
  the ticker, where other legs pass to their fallback.
* A cached political file of an earlier day that is not JSON raises, and fails every
  ticker; RUN-HEALTH.md says that it is ignored.
* When every ticker raised, the leads are still named as unanswered; the comment at
  `pipeline.py:3246-3248` says that it would be a second, wrong name.
* `total_provider_outage` needs a completed pull, which needs an option chain, which some
  provider must have answered.
* What the options chain was refused before another provider had it is not recorded.
* The issues of FRED's release lookup go to the first caller only; if its ticker raises
  before the leg ends, no one has them, though its result is kept.

These concern preflight and validation:

* The suffix of a binary file comes from the URL of the response when it is cached
  (`preflight.py:422`) and from the template when it is looked for (`preflight.py:280`).
  After a redirection to a file of another suffix a cache-only run reports missing what the
  live one called ok, though "that slot is what `--cache-only` replays"
  (`preflight.py:430`).
* The slot of a filing document bears the accession of the newest filing in the cached list
  (`preflight.py:279`). A client or a later probe of the day replaces the list, and a
  cache-only run then looks for a document that nobody fetched. `OkCanBeReplayed` is of a
  run that looks for the filing and the suffix that were kept.
* `_company_tickers_payload` and `_company_submissions_payload` cache what they are sent
  without validating it. `preflight.py:428` ("A refusal must never reach the cache") and
  `docs/research/SOURCE_STATUS.md` say otherwise; `OnlyDataIsCached` leaves these two out.
  A scalar or a torn file in the slot of the tickers makes every later preflight of that
  day raise.
* A binary file that was cut off after 1024 bytes passes its test, and is replayed as ok.
* Two methods of the client of Alpha Vantage ask no path of an answer
  (`providers/alpha_vantage.py:205`, `264`) where the registry asks one. Nothing calls them;
  if something does, it may cache what preflight calls missing, and `OkCanBeReplayed` leaves
  such endpoints out (`ClientsAgree`).
* The slot of a filing document is `{cik}_{accession}` for preflight, and for the client
  `{cik}_{accession}_{document}` (`source_registry.py:47`).
* A JSON refusal in other words than those of the phrase lists is data to
  `validate_text_data_payload`.

These concern the evidence:

* Only Form 4s carry footnotes and the mark of a plan (`normalizers.py:2448-2483`). With
  EDGAR refused, a sale under a 10b5-1 plan comes from FMP with its code alone
  (`normalizers.py:1470`), and scores as one on the open market; `insider.py:3-4` says that
  plan sales are excluded. `InsidersAgree` counts it among what may be counted.
* A row of which nothing is known but the letter A or D is read as a purchase or a sale
  (`insider.py:194`), also where it is a grant or shares withheld for taxes, under the
  comment "never to a guess" (`insider.py:193`).
* FMP's gradings and targets carry no date and are dated by the caller's run date, or by
  the clock of the machine if it passes none (`normalizers.py:705-707`). An article of
  Alpha Vantage without a time counts as published now.
* Submissions and the earnings CSV of Alpha Vantage let a `ValueError` out for a date no
  parser reads, where `parse_date` (`normalizers.py:2672-2690`) promises a rejection.
* Insiders without a name count as one person, "unknown".
* The leg of revisions has a quarter of the weight of the analysts, and no provider gives
  what it compares (`normalizers.py:787-790` says that Finnhub's trends do).
* A tie between ratings goes to the more bullish one.
* `release_change_reading` is called without the configured `macro_max_age_days`, and
  uses 45.
* `_dedupe_political_trades` compares links: several trades of one report count as the
  first, where `docs/archive/provider-alternatives-wiring-tasks.md:179` means duplicates.
* `sentiment.py` calls S_S required for V and E; `models/scoring.py:52-57` lists S_O and
  S_M.

These concern the decisions:

* A setup's `alternative_instruments` are the permitted ones that were not selected; only
  the selected one passes the leverage guard, which `strategy/models.py:81-82` says
  embedded leverage still has to clear.
* `build_options_structure` returns early without a verified chain. What was measured from
  closes or is known of borrow is dropped with it, and the floors then report missing
  closes that exist.
* `strong_score_threshold` and `require_confirmed_catalyst_for_event` (`config.py:223-224`)
  are read by nothing.
* `_chain_is_verified` (`pipeline.py:3688`) refuses a partial chain, so `S_O` is n/a and
  the name Tier C. `providers/manual.py:39-40`, `config.py:129` and `gate.py:180` speak of
  Tier B for manual chains.

### Bounds

* `fetch_alone`: three endpoints, one of them premium, so that gating merges two that
  are gated at run time; `Allowance = 3` and `ClaimBound = 4` let the limit be reached,
  refused, and reached by a retry; three days let a call cross two midnights.
* `fetch_shared`, `fetch_overspend`: two processes are enough for a lost update; one crash
  leaves one truncated file; one midnight suffices for a stale day.
* `briefing_ops`: two runs give every pair of types, modes and overlaps of different
  types; one ticker gives every outcome of a snapshot. `MarketDay = FALSE` lets both
  forced and skipped runs occur.
* `gate_ledger`: two processes, two tickers and two entries per universe; three days with
  a cooldown of one let a record expire between a run's two reads. `FlagBound = 2`
  bounds how many rejections a ticker collects before no further run starts.
* `iv_backfill`: four pairs exceed `MAX_CONSECUTIVE_FAILURES`; an allowance of seven
  leaves room for the six attempts of three failing pairs; two backfills give a restart.
  One run beside them, of any type and mode, gives a row that is absent, running, left
  behind or finished when a backfill plans. Before it ends, the reserve (four) leaves less
  than there are pairs. More runs only put rows back to `running`, and are left to
  `ReserveWaitsForARun`. All runs may be over: deadlock is not checked.
* `preflight`: the orders are the three groups of endpoints that depend on each other (the
  lookups of SEC and their document; a dated text with two sessions, and a binary file;
  a metered provider with an allowance of two, with a deep endpoint, one without
  credentials and one by hand). Two runs (`MaxRuns`) let a report be replayed or spoilt by
  a later run; one disturbance (`MaxDisturbances`) is one kill or one step of a client. Two
  filings and two suffixes let the one that is looked for differ from the one that is kept;
  the codes of a refusal are a gate, with a quota named or not, and a file not found. The
  theorems have neither bound. A run that is over may be the last, so
  `CHECK_DEADLOCK FALSE`.
* `evidence`: windows are scaled down to days of the model: a macro figure is fresh for
  three days (`MacroAge`), a trend needs three changes (`MinHistory`), filings count for one
  day (`InsiderWindow`), signals on their day (`SignalAge`), news has a baseline of three
  days, disclosures count for three and may be two late. Thirteen days of the macro
  configuration are five periods of two days, their prints one day late (`Lag`) and three
  days for the last to go stale; periods of two and three days make the guess of a period's
  end miss. Two filings, one row of Congress and three items (`MaxFilings`, `MaxRows`,
  `MaxItems`) are the least for which a limit drops something. The filings are a purchase and
  a sale on the market, one by words, one under a plan and one by mechanics, and their rows
  give a code, a security or a letter. Faults are of one feed, or
  of both of a pair that stand in for each other. The last day ends the model, so
  `CHECK_DEADLOCK FALSE`.
* `live_pulls`: two tickers, so that one can fetch and fail before another reuses; nine
  configurations, one of a universe that was loaded with a warning, each with a few of the
  shipped chains (the legs meet only in the pull and the memo, and those with requests in
  common, the macro legs, are together). Leads
  with and without a key, an unwired provider, a fund, a promoted ticker, a run without
  database and one without tickers occur. Two pages, sessions and series are the least
  for which the first and the last differ. The run ends, so `CHECK_DEADLOCK FALSE`.
* `candidate_flow`: each class is paired with the pulls its rules look at: every
  combination of volatility measures for V, of missing and weak evidence for E,
  all that can be had for P and S. Calendars have dates on both sides of the horizon, of
  the ten-day window and of the weekly expiry, and an estimate before and on the day of
  a confirmed date. Scores lie on both sides of each band. The settings are the shipped
  ones and ones that allow what these refuse. Every gate reason, setup and idea status
  occurs. The flow ends, so `CHECK_DEADLOCK FALSE`.

### Assumptions

* `OneAtATime` (`briefing_ops`, and two of its theorems): two runs of one type do not
  overlap. The schedule provides it (one cron per workflow), the code does not: with
  overlap, the mode a snapshot is judged by is that of the run that wrote the row last.
* `SoleWriter` (four of the theorems on `ProviderFetch`): one process, no kill. It is what
  `fetch_alone` instantiates, and `fetch_overspend` shows that it is needed.
* `LookupsProbed` (`Preflight`): a registry with an endpoint that needs one of SEC's lookups
  has the endpoint of that lookup too, required, enabled, and asked for any symbol in every
  mode without a credential, as `source_registry.yaml` has it; both are JSON, and the list of
  filings is found by its CIK. `RegistryAssumption`: no client reads a binary file
  (`write_bytes` has one caller, preflight).
* `FilingsAssumption` (`TickerEvidence`): what insiders file is well formed (a role, a code, a
  value that is a natural), a row says of it one of the things in `ToldAs`, and the value that
  counts as large is not 0. A Form 4 has a code for every trade, as its schema asks.
* `SpeakersAssumption` (`TickerEvidence`): so is what analysts, newspapers, retail traders
  and members of Congress say (a target of 0 is none, a tone is a reading), and the delay
  at which a disclosure counts least is not 0.
* `SeriesAssumption` (`TickerEvidence`): figures are integers or missing, and a trend needs
  three changes or more (`min_history` of the code is 8). With two gaps, the wide one that a
  missing print leaves would be the median, and the end of the newest period a guess.
* `HolesAssumption` (`TickerEvidence`): what is absent, unreadable or rejected is not
  mistaken for a day, a figure or a list of them.
* `Sporadic` and `Even`, under which `NeverYoungerThanItsRelease` gives the window of a
  reading: at most one print is missing, and no period is longer than another by more than
  the days to its print (`Lag`). Months differ by three days, quarters by two, and their
  figures come out later than that. Without it, the window is not kept: with periods of 6, 6,
  6, 1 and 6 days, prints a day late and the last one missing, the end of the fourth is
  guessed at 6 days, and its figure is dated to the day on which the fifth should have come.
  That a reading is not of a day to come needs neither.
* `Regular`, `Prompt` and `Moving`, which `CurrentPrintScores` supposes: periods of one length,
  each printed before the next is over (with a later print, the release of the period
  before would be the first once the newest is over, and carry it), and two changes
  that differ, without which the code has no scale.
* Fairness (`FairSpec` of `ProviderFetch`): weak fairness of the step of a call in
  progress. Every step of a call is local, or a request the fetcher ends after
  `http_timeout_seconds`; a process is not suspended for ever. Nothing is assumed of
  starting calls, of the days or of kills. No other specification states fairness.
* `reserve()` is atomic in `IvBackfill` and in `Preflight`. Its interleavings are those of
  `ProviderFetch`.

## Proofs

`ProviderFetchProofs` proves, for any processes, endpoints, allowance and bounds:

* `TypeCorrect`: the type invariant. Each action is a step of `TypeStep`.
* `FilesUnderstate`: no file overstates what happened, whoever is killed wherever. It is
  not inductive: what a process *has read* must not overstate either, until it writes it
  back (`ReadsNeverOverstate`).
* `RefusalsParked`: inductive with `NotParkedWhileAsked`: a call that is past the guard
  has an endpoint below the threshold, and only the call itself can raise the count.
* `AllowanceKept`, `CounterKept`, `DailyAllowanceImplemented`, under `SoleWriter`: with one
  process, what it read is still what the file says (`ReadIsCurrent`), a reservation in
  progress can be afforded (`ReservationIsAffordable`), and a settled counter is exact.
  The refinement follows: `ReserveWrite` maps to `Claim`, `QuotaWrite` to `Stop`, every
  other action stutters.
* `GatedIsLeft` (`NeverReprobed`), under `SoleWriter`: with one process, what it holds of
  the memo is what is on record, and what it asks for is not in it (`MemoInv`).

`BriefingProofs` proves every property of the `briefing_ops` run, for any set of runs of a
date, any tickers, with and without a market. Lemmas named for the actions say what each
does to the variables that runs share.

* `TypeCorrect`: the type invariant of the runs and of the publications.
* `RowsSpeak`, without an assumption: the run a row speaks for was entered, is of the row's
  type and, unless it was killed, knows that it has a row to finish; once the status file
  is written, it says what the run does (`RowInv`).
* `BaselinesAreLive` and `ReportsAreComplete`, while runs of one type do not overlap
  (`OneAtATime`): then the row a run is judged by is its own (`OwnerInv`), so a snapshot is
  stored in the mode of the run that stores it, and a live run has none refused after its
  report (`SayInv`).
* `ManifestsAreLast`: each step of a publication has the files of those before it, and a
  run that has returned says what it says for good (`PublishInv`, `ReturnedStays`).

`PreflightProofs` proves, for any registry, order, answers, runs, kills and steps of the
clients:

* `TypeCorrect`: with it, that a run which probes or waits has an endpoint and one of its
  sessions in hand (`Placed`).
* `RefusalsAreNotCached` (`OnlyDataIsCached`): every action changes a slot by tearing it, by
  data, or as one of SEC's lookups (`Preserved`).
* `ReportsCanBeReplayed` (`OkCanBeReplayed`): an ok has a file (`OkHasFile`), files stay
  (`FilesStay`), and the first that is there, of the sessions under the same filing and
  suffix, is data or torn, since all are. It does not say that a cache-only run looks there:
  it may look for a newer filing or another suffix. That a set of sessions has a first one
  comes from the well-foundedness of the naturals (`LeastOf`).
* `NothingIsHidden` (`NoFailureHidden`), for endpoints in any order: a run has a row for each
  endpoint it is done with and for no other, and none of them calls soft what was a failure
  (`Rowed`, from what each action settles a probe with, `Outcomes`). It is where
  `LookupsProbed` is needed.

`GateLedgerProofs` proves every property of the `gate_ledger` run, for any processes,
tickers, cooldown and universes of any size. `update_history` is a loop over a report of
any length: `Induction` is induction over the naturals in a form without operator
parameters (a set with 0 and all successors), from which the loop exists (`LoopExists`)
and has the invariants of its step.

* `TypeCorrect`, and `RepeatsAreRecent` (`RepeatIsRecent`): a result counts more than one
  rejection only if one was written within the cooldown.
* `LedgerNeverOverstates` (`NeverOverstated`): a report adds at most its rejections to the
  count of a ticker (`UpdateCounts`). What the file *and what any run holds of it* say is
  dated to days on which a run wrote a rejection (`DatesInv`), and counts no more than were
  written (`CountsInv`).
* `AcceptedStreakEnds` (`AcceptedStartsOver`): once the loop of `update_history` has passed
  an accepted result, it counts from nothing (`UpdateStartsOver`).
* `CountsMatch` (`CountMatchesReport`): for a ticker that a report names once, the loop
  comes to one step (`UpdateOnce`).

`IvBackfillProofs` proves, for any numbers of pairs, attempts and backfills and any
allowance, reserve and cap:

* `TypeCorrect`: the type invariant, inductive together with `LoopInv`, which says what
  each line of the loop knows (a pair is left, attempts, cap and patience are left).
* `ReserveKept`: by the books of the day. What live runs and the backfill have claimed
  since the plan comes on top of a count that left room for the reserve and the cap; a
  live run is refused only once the day is exhausted, by the count or by the provider
  (`AccountInv`).
* `DeadEndpointLeft`: requests without an answer are at most the attempts of the pairs
  that failed in a row, plus those of the pair in hand (`QuietInv`).
* `ReserveWaitsForARun` (`WaitsForARun`): a row says finished only if a run of its type has
  finished (`RowInv`), so that until then a plan leaves the live reserve outside the cap,
  and where nothing else is left, keeps the backfill out of its loop (`WaitInv`).
* `SuccessIsComplete`: stored pairs stay stored and only `Finish` says succeeded.

`CandidateFlowProofs` proves every property of the `candidate_flow` run, for any
universe, settings and pulls that are of the declared types. Each variable is set once, so
`StateInv` gives the state as a function of the candidate, the settings, the mode, the pull
and what failed; it is inductive, and the rest is about that function.

* `FixturesAreNotTraded`, `OwnershipClassesAreFloored`: one required component that is no
  evidence makes Tier C (`OneMissingIsTierC`), and in Tier C no rule runs
  (`TierCHasNoSetups`).
* `SnapshotAndSetupsAgree`: the strategy's list of floors has two entries more than that of
  scoring, and each is implied by one they share (`FloorsAgree`).
* `EstimatedDatesAreNotTraded`, `TradesAreGrounded`: every setup went through `_build_setup`
  (`SetupsAreBuilt`), in a tier in which no required component is missing.
* `TierIsMonotone`: a weaker component leaves no better condition (`WeakerCondition`), and
  the required tier is the worst condition (`RequiredTierIsWorst`).
* `VolatilityIsOneSided`: a rank cannot be rich and cheap, nor a premium positive and
  negative, whatever the two rules' thresholds are used for.
* `TypeCorrect`: with it, that the composite keeps to one hundred percent of the weight it
  is over (`WeightedSumBounded`).

`LivePullsProofs` proves every property of the `live_pulls` run, for any tickers,
providers, configurations and bounds. The module has many legs and few kinds of step:
`StepShape` shows that every action goes on with a leg, ends it, reuses a feed, loses the
pull, keeps it, or assesses the run. The invariants are about those:

* `TypeCorrect`, together with `LoopInv`: tickers are left until the health is assessed,
  each once, and a leg that has not asked anyone has nothing.
* `SuccessLostNothing`, `HealthSucceeds`: what was lost is still on its way to the
  diagnostics (`ShownInv`): an issue of the leg, of the pull or of a kept ticker names it,
  or the ticker failed. As long as nothing was lost, none of these, nor a market-wide feed
  that later tickers reuse, has an issue.
* `FeedsAgree`, `IssuesNameAll`: a ticker that was kept, or is past a market-wide leg, has
  the one fetch of it, with its issues (`SharedInv`).
* `OneSource`: what a leg has comes from the provider being asked (`SourceInv`); this one
  looks at each action, since it depends on when a provider is left.

`EvidenceProofs` proves of `evidence`, for any chains, faults, filings, windows and days:

* `InsidersAreHeard` (`InsidersAgree`): what a provider of the chain gives is filed, whatever
  its feed has lost (`TradesSourced`), and what S_I counts of that is a trade in the window
  that may count, by what its source says of it (`CountedMayCount`): of a Form 4 only one of
  an insider's own, since its code, plan and words are kept, of a row also one with a
  market code whose plan is not said, or a bare letter. If those are of one side, no leg has the
  other sign, and the leg of breadth outweighs the rounding: one person is 25 points at
  weight 25, more than all the weight there is (`SidedSign`, `CombineSign`). Sums are the
  folds of the community modules. They go element by element (`SumIsFold`), so what holds
  of a sum is proved by induction over the number of its terms (`OneByOne`), in a form
  without operator parameters, as in `GateLedgerProofs`. The state adds little
  (`FilingsInv`): filings come while the day has no run.
* `AnalystsAreHeard` (`SentimentRestsOnAnalysts`): whichever feed of the chain answers and
  whatever it has lost, a signal repeats an opinion, with its day unless the opinion is the
  last (`AnalystsSpoken`), so a fresh signal is a voice (`FreshIsVoice`). Ratings and
  targets of one side score full (`RatingsSided`, `UpsideSided`). The news are held at
  their 25 points in the first round, and lift no other leg over its ceiling
  (`HeldStays`), which leaves 50 of the side (`InstitutionalSided`); the 20 of retail
  traders leave 20, and the five points of Congress leave 15 (`SentimentSided`). Where no
  signal is fresh, the news are alone, and so are retail traders then: a leg with a ceiling
  that is alone scores nothing (`LoneCapped`). It takes the readings beside the analysts to
  be readings, which rests on the rows of the raw cache being reports, marred at most by a
  date (`CongressDisclosing`); `OpinionsInv` says so of the state.

* `NoReadingIsYounger` (`NeverYoungerThanItsRelease`) and `CurrentPrintIsHeard`
  (`CurrentPrintScores`), from one inductive invariant (`MacroInv`): prints are out by the
  day of the run, and no reading is without a run. `list.sort` is a rank for every place,
  and each rank is taken (`EachRank`, `InOrderSorts`). A feed keeps the dates of all prints
  but the last (`LastRowMarred`), so what a normalizer makes of it is the figures of some
  periods, in order (`EconomicIndicatorsTold`, `TreasuryCurveTold`, `ObservationsTold`),
  the last of which is the newest print or the one before (`NewestKept`).
  With one print missing, all gaps but one are periods (`GapsArePeriods`), and of three
  gaps or more the median is no larger than the largest of the others (`MedianAtMost`): the
  guessed end of the newest period comes no later than its print (`UsualGap`), so no
  release after that one carries it (`ObservedInWindow`). Of a whole run none of the
  figures is lost (`WholeSeries`), regular periods have their length for a median
  (`RegularGap`), and the first release once the newest is over is its own, because the one
  before it came out earlier (`CarriedByItsPrint`). That a series which moves unevenly has
  a deviation is `UnevenSpreads`: one more figure adds a square to the spread
  (`OneMoreSpreads`), which is 0 only if it is the same as those before it.

Only model-checked: `CallEnds`, which is liveness.

Type invariants are stated for the modules that have a proof which rests on one.

## Not modelled

* Concrete clients: they build URLs around the base client. Configuration is parsed once.
  Operator scripts only read. HTML is formatting.
* Of the live data source, the market overview (its failures leave evidence only), the
  preflight rows and cache-only replay.
* Of the normalizers, prices, option chains, fundamentals, filing lists and holdings:
  conversions field by field. Of the components, S_F, which no source is wired to,
  summaries and evidence rows.
* Of the options mathematics, `CandidateFlow` keeps which side of its threshold a
  measurement lies on, and which measurements depend on closes or on a verified chain; the
  numbers themselves, floating-point densities and volatilities, are inputs.
* Of the strategy engine, the texts and codes of rejections, scenario probabilities and
  position sizes.
* Two publications at once: the code promises nothing about `published/latest` then, and
  `ArchiveHoldsItsRun` shows the mixture at its source.

## Plan

1. The grade of an idea and the dashboard's payload: losing evidence never raises a grade.
2. Selection of expiries and strikes in `options_math.py`, which is integer comparison.
