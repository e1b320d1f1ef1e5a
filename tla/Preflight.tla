----------------------------- MODULE Preflight -----------------------------
(***************************************************************************)
(* PreflightRunner (src/briefing_app/preflight.py): the probe of the       *)
(* source registry, on one date.  A run takes the endpoints in order and   *)
(* reports one row for each.  It shares the raw cache and the request      *)
(* counter with the clients of the pipeline, which work at the same time.  *)
(*                                                                         *)
(* A step is one row settled without asking, one reservation, one answer,  *)
(* one look into the cache, or the report.  A kill may come at every step, *)
(* and leaves the file being written torn.  Endpoints with a credential    *)
(* are those of one provider, whose counter is kept.  Left out: symbols    *)
(* other than the probe's.                                                 *)
(***************************************************************************)
EXTENDS RequestBudget, Payloads, Sequences, Functions

CONSTANTS
  Registry,     \* what the registry says of each endpoint
  Orders,       \* the endpoints of a registry, in its order
  Tickers, Submissions,  \* SEC's map of tickers, and its list of filings
  Cik, Filings, \* the paths under which they name what a probe looks up
  Suffix,       \* the suffixes a binary file may be kept under
  Bodies, Code, \* the bodies an answer may have, and the codes of a refusal
  None, Torn,   \* no file; a file cut off by a kill
  MaxRuns, MaxDisturbances  \* bounds: runs; kills and steps of other processes

(* EndpointDefinition, of what decides the probe.  The probe of an         *)
(* endpoint may need the CIK of its symbol, or a filing of it; a dated one *)
(* has a file for each session; "suffix" is that of its URL.  A client may *)
(* share the endpoint's files, and asks paths of its own of an answer.     *)
Entry == [kind : {"http", "manual_csv", "browser_or_file"}, enabled : BOOLEAN,
          deep : BOOLEAN, symbol : BOOLEAN,
          credential : {"none", "held", "lacking"},
          required : BOOLEAN, format : {"json", "text", "binary"},
          paths : SUBSET Path, needs : {"none", "cik", "filing"},
          sessions : Nat \ {0}, suffix : Suffix,
          shared : BOOLEAN, asked : SUBSET Path]

(* The file of an endpoint: it bears the session, the filing that was      *)
(* looked up (_cache_target), and for a binary file the suffix of a URL    *)
(* (_cache_suffix).                                                        *)
Context == {"none", "cik"} \union Filings
Targets(e)  == IF Registry[e].needs = "filing" THEN Filings ELSE {Registry[e].needs}
Suffixes(e) == IF Registry[e].format = "binary" THEN Suffix ELSE {"json"}
UrlSuffix(e, suffix) == IF Registry[e].format = "binary" THEN suffix ELSE "json"

Slot == UNION {[endpoint : {e}, session : 1 .. Registry[e].sessions,
                target : Targets(e), suffix : Suffixes(e)] : e \in Endpoint}
File(e, i, target, suffix) ==
  [endpoint |-> e, session |-> i, target |-> target, suffix |-> suffix]
TickersSlot     == File(Tickers, 1, "none", "json")
SubmissionsSlot == File(Submissions, 1, "cik", "json")

Statuses == PayloadStatus \union
  {"network_error", "budget_exhausted", "no_credentials", "registered",
   "manual_required", "browser_required", "skipped"}

(* A refusal is an HTTP error: its code, and whether its text names a      *)
(* quota.  "garbled" says it is JSON and is not.  A body comes from the    *)
(* URL a redirection ended at, of which the suffix matters.                *)
Answer == [kind : {"body"}, body : Bodies, suffix : Suffix]
          \union [kind : {"refused"}, code : Code, quota : BOOLEAN]
          \union [kind : {"unreachable", "garbled"}]

\* No client reads a binary file.
ASSUME RegistryAssumption ==
  /\ Registry \in [Endpoint -> Entry]
  /\ \A e \in Endpoint : Registry[e].shared => Registry[e].format # "binary"
  /\ Orders \subseteq Seq(Endpoint)
  /\ {Tickers, Submissions} \subseteq Endpoint
\* A registry probes what its lookups need, and requires it.
ASSUME LookupsProbed ==
  /\ \A o \in Orders : \A e \in Range(o) :
       /\ Registry[e].needs # "none" => Tickers \in Range(o)
       /\ Registry[e].needs = "filing" => Submissions \in Range(o)
  /\ \A e \in {Tickers, Submissions} :
       LET entry == Registry[e]
       IN  /\ entry.required /\ entry.kind = "http" /\ entry.enabled /\ entry.symbol
           /\ ~entry.deep /\ entry.credential = "none" /\ entry.format = "json"
  /\ Registry[Tickers].needs = "none" /\ Registry[Submissions].needs = "cik"
ASSUME CacheAssumption ==
  /\ {Cik} \union Filings \subseteq Path
  /\ Filings \intersect {"none", "cik", Cik} = {}
  /\ Bodies \subseteq Body /\ Code \subseteq Nat
  \* a list of filings is read for the first of the form that is asked for
  /\ \A body \in Bodies : \A f, g \in Filings \intersect body.holds : f = g
  /\ None \notin Body \union Statuses \union {Torn} /\ Torn \notin Body
  /\ {MaxRuns, MaxDisturbances} \subseteq Nat

VARIABLES
  order,          \* the registry
  mode,           \* of the run; "deep" has no effect with cache_only
  step, todo,     \* what the run does next, and to which endpoints
  context,        \* what it has looked up for the endpoint: its CIK, a filing
  ciks,           \* _cik_by_ticker: not loaded, or whether it has the symbol
  session,        \* the session being probed
  rows,           \* the rows so far
  kept,           \* cache_path of the rows that are ok
  latest,         \* latest.json: the mode of its run, and the files it calls ok
  cached,         \* cached[s]: the file in slot s of the raw cache
  counter,        \* the provider's counter file
  runs, disturbances

cacheVars == <<cached, counter>>
probeVars == <<context, ciks, session>>
boundVars == <<runs, disturbances>>
vars == <<order, mode, step, todo, rows, kept, latest,
          cacheVars, probeVars, boundVars>>

Modes == {"routine", "deep", "cache_only"}
Row   == [Endpoint -> Statuses \union {None}]
Steps == {"idle", "probe", "sent", "report"}

TypeOK ==
  /\ order \in Orders
  /\ mode \in Modes /\ step \in Steps /\ todo \in Seq(Endpoint)
  /\ context \in Context
  /\ ciks \in {"unknown", "mapped", "unmapped"}
  /\ session \in Nat \ {0}
  /\ rows \in Row /\ kept \subseteq Slot
  /\ latest \in [mode : Modes, ok : SUBSET Slot] \union {None}
  /\ cached \in [Slot -> Body \union {None, Torn}]
  /\ counter \in CounterFile
  /\ runs \in Nat /\ disturbances \in Nat

NoRows == [e \in Endpoint |-> None]

Init ==
  /\ order \in Orders
  /\ mode = "routine"
  /\ step = "idle" /\ todo = <<>>
  /\ context = "none" /\ ciks = "unknown" /\ session = 1
  /\ rows = NoRows /\ kept = {} /\ latest = None
  /\ cached = [s \in Slot |-> None]
  /\ counter = Empty
  /\ runs = 0 /\ disturbances = 0

-----------------------------------------------------------------------------
Metered(e) == Registry[e].credential # "none"
Probed == Head(todo)
Entry_ == Registry[Probed]

(* _status_from_http_code, and the way _refusal_result reads the body: a   *)
(* gate that names a quota is one, never the other way round.              *)
RefusalStatus(code, quota) ==
  CASE code = 429 \/ (code \in {401, 402, 403} /\ quota) -> "throttled"
    [] code \in {401, 402, 403} -> "paywalled"
    [] code = 404  -> "missing"
    [] code >= 500 -> "network_error"
    [] OTHER       -> "malformed"

(* _decode_response: bytes that are no file's are read as a text, or JSON. *)
Decodable(e, body) == body.form = "binary" => Registry[e].format = "binary"

(* _validate_decoded_payload, or the test of a binary body.                *)
BodyStatus(e, body) ==
  LET entry == Registry[e]
  IN  IF entry.format = "binary" THEN BinaryStatus(body)
      ELSE IF body.form = "text" /\ entry.format = "text" THEN TextDataStatus(body)
      ELSE Validated(body, entry.paths, Metered(e))

IsData(e, file) == file \in Body /\ BodyStatus(e, file) = "ok"

(* What a client takes for data, and caches, of an endpoint it shares.     *)
IsDataOfClient(e, file) ==
  /\ Registry[e].shared /\ file \in Body
  /\ IF Registry[e].format = "text"
       THEN file.form = "text" /\ TextDataStatus(file) = "ok"
       ELSE Validated(file, Registry[e].asked, Metered(e)) = "ok"

(* What _probe_endpoint settles without a lookup; "open" otherwise.        *)
Unasked(e) ==
  LET entry == Registry[e]
  IN  CASE entry.kind = "manual_csv"       -> "manual_required"
        [] entry.kind = "browser_or_file"  -> "browser_required"
        [] ~entry.enabled                  -> "registered"
        [] entry.deep /\ mode = "routine"  -> "registered"
        [] ~entry.symbol                   -> "skipped"
        [] entry.credential = "lacking" /\ mode # "cache_only" -> "no_credentials"
        [] OTHER                           -> "open"

(* The row of the endpoint; the run goes on to the next one.               *)
RowOf(status) ==
  /\ rows' = [rows EXCEPT ![Probed] = status]
  /\ todo' = Tail(todo)
  /\ step' = IF Tail(todo) = <<>> THEN "report" ELSE "probe"
  /\ context' = "none" /\ session' = 1

Settle(status) == RowOf(status) /\ UNCHANGED kept
SettleOk(s) == RowOf("ok") /\ kept' = kept \union {s}

(* An exception leaves run(): there is no report, what is cached stays.    *)
Raise ==
  /\ step' = "idle" /\ todo' = <<>> /\ rows' = NoRows /\ kept' = {}
  /\ context' = "none" /\ session' = 1

Constant == UNCHANGED <<order, mode, latest, boundVars>>

StartRun(m) ==
  /\ step = "idle" /\ runs < MaxRuns
  /\ runs' = runs + 1
  /\ mode' = m /\ todo' = order /\ rows' = NoRows /\ kept' = {}
  /\ context' = "none" /\ ciks' = "unknown" /\ session' = 1
  /\ step' = IF order = <<>> THEN "report" ELSE "probe"
  /\ UNCHANGED <<order, latest, cacheVars, disturbances>>

SettleUnasked ==
  /\ step = "probe" /\ Unasked(Probed) # "open"
  /\ Settle(Unasked(Probed))
  /\ UNCHANGED <<ciks, cacheVars>> /\ Constant

-----------------------------------------------------------------------------
(* _substitutions.  A lookup that fails skips the endpoint.                *)
LookingUp(needs, has) ==
  /\ step = "probe" /\ Unasked(Probed) = "open"
  /\ Entry_.needs \in needs /\ context = has

Proceed(found) == context' = found /\ UNCHANGED <<step, todo, rows, kept, session>>

(* _cik_for_ticker, of the payload it has read: any value, rows or not; a  *)
(* scalar has none to iterate over.                                        *)
MapTickers(body) ==
  IF body.form = "scalar" THEN Raise /\ UNCHANGED ciks
  ELSE IF body.form # "text" /\ Cik \in body.holds
    THEN ciks' = "mapped" /\ Proceed("cik")
    ELSE ciks' = "unmapped" /\ Settle("skipped")

(* _company_tickers_payload and its use: the map of this run, the cached   *)
(* file, or a request, whose body is cached whatever it says.              *)
UseKnownMap ==
  /\ LookingUp({"cik", "filing"}, "none") /\ ciks # "unknown"
  /\ IF ciks = "mapped" THEN Proceed("cik") ELSE Settle("skipped")
  /\ UNCHANGED <<ciks, cacheVars>> /\ Constant

ReadTickers ==
  /\ LookingUp({"cik", "filing"}, "none") /\ ciks = "unknown"
  /\ \/ cached[TickersSlot] = Torn /\ Raise /\ UNCHANGED ciks
     \/ cached[TickersSlot] \in Body /\ MapTickers(cached[TickersSlot])
     \/ cached[TickersSlot] = None /\ mode = "cache_only" /\ Settle("skipped") /\ UNCHANGED ciks
  /\ UNCHANGED cacheVars /\ Constant

RequestTickers(a) ==
  /\ LookingUp({"cik", "filing"}, "none") /\ ciks = "unknown"
  /\ cached[TickersSlot] = None /\ mode # "cache_only"
  /\ a.kind = "body" => Decodable(Tickers, a.body)
  /\ CASE a.kind = "body" ->
            /\ cached' = [cached EXCEPT ![TickersSlot] = a.body]
            /\ MapTickers(a.body)
       [] a.kind = "garbled" -> Raise /\ UNCHANGED <<ciks, cached>>
       [] OTHER -> Settle("skipped") /\ UNCHANGED <<ciks, cached>>
  /\ UNCHANGED counter /\ Constant

(* _recent_filing, of a document it has read.                              *)
FindFiling(body) ==
  \/ \E f \in Filings \intersect body.holds : Proceed(f)
  \/ Filings \intersect body.holds = {} /\ Settle("skipped")

IsDocument(file) == file \in Body /\ file.form = "object"

(* _company_submissions_payload: a cached file that is not a document is   *)
(* requested again; a document is cached whatever it says.                 *)
ReadSubmissions ==
  /\ LookingUp({"filing"}, "cik")
  /\ \/ cached[SubmissionsSlot] = Torn /\ Raise
     \/ IsDocument(cached[SubmissionsSlot]) /\ FindFiling(cached[SubmissionsSlot])
     \/ /\ cached[SubmissionsSlot] # Torn /\ ~IsDocument(cached[SubmissionsSlot])
        /\ mode = "cache_only" /\ Settle("skipped")
  /\ UNCHANGED <<ciks, cacheVars>> /\ Constant

RequestSubmissions(a) ==
  /\ LookingUp({"filing"}, "cik") /\ mode # "cache_only"
  /\ cached[SubmissionsSlot] # Torn /\ ~IsDocument(cached[SubmissionsSlot])
  /\ CASE a.kind = "body" /\ IsDocument(a.body) ->
            /\ cached' = [cached EXCEPT ![SubmissionsSlot] = a.body]
            /\ FindFiling(a.body)
       [] a.kind = "garbled" -> Raise /\ UNCHANGED cached
       [] OTHER -> Settle("skipped") /\ UNCHANGED cached
  /\ UNCHANGED <<ciks, counter>> /\ Constant

-----------------------------------------------------------------------------
Ready == step = "probe" /\ Unasked(Probed) = "open" /\ context \in Targets(Probed)

(* Where an answer is kept, and where a cache-only run looks for it: under *)
(* the suffix of the URL that answered, and of the registry's own.         *)
KeptAt(suffix) == File(Probed, session, context, UrlSuffix(Probed, suffix))
LookedAt(i)    == File(Probed, i, context, UrlSuffix(Probed, Entry_.suffix))

(* _cache_only_result: the first session there is a file for.  A torn      *)
(* binary file may pass its test, which looks at the first bytes and the   *)
(* size; any other torn file cannot be read.                               *)
Replay ==
  /\ Ready /\ mode = "cache_only"
  /\ LET held  == {i \in 1 .. Entry_.sessions : cached[LookedAt(i)] # None}
         first == LookedAt(CHOOSE i \in held : \A j \in held : i <= j)
         file  == cached[first]
     IN  CASE held = {} ->
                Settle(IF Entry_.credential = "lacking" THEN "no_credentials" ELSE "missing")
           [] held # {} /\ file = Torn ->
                IF Entry_.format = "binary"
                  THEN Settle("missing") \/ Settle("truncated") \/ SettleOk(first)
                  ELSE Raise
           [] held # {} /\ IsData(Probed, file) -> SettleOk(first)
           [] OTHER -> Settle(BodyStatus(Probed, file))
  /\ UNCHANGED <<ciks, cacheVars>> /\ Constant

(* _network_result.  _reserve_metered_probe claims every request to the    *)
(* provider with a credential; a spent budget is the row.                  *)
SendProbe ==
  /\ Ready /\ mode # "cache_only"
  /\ IF Metered(Probed) /\ Exhausted(counter)
       THEN Settle("budget_exhausted") /\ UNCHANGED counter
       ELSE /\ counter' = IF Metered(Probed) THEN Reserved(counter) ELSE counter
            /\ step' = "sent" /\ UNCHANGED <<todo, rows, kept, context, session>>
  /\ UNCHANGED <<ciks, cached>> /\ Constant

(* A session that is not there is followed by the one before it.           *)
SettleOrGoBack(status) ==
  IF status = "missing" /\ session < Entry_.sessions
    THEN step' = "probe" /\ session' = session + 1 /\ UNCHANGED <<todo, rows, kept, context>>
    ELSE Settle(status)

CacheNothing(body, suffix) == cached   \* mutant: what is ok is not kept
CacheWhatever(body, suffix) ==         \* mutant: not validated
  [cached EXCEPT ![KeptAt(suffix)] = body]

(* _result_from_response: only what is data reaches the cache.             *)
CacheData(body, suffix) ==
  IF IsData(Probed, body) THEN [cached EXCEPT ![KeptAt(suffix)] = body] ELSE cached

ReceiveProbe(a) ==
  /\ step = "sent"
  /\ a.kind = "body" => Decodable(Probed, a.body)
  /\ CASE a.kind = "body" ->
            /\ cached' = CacheData(a.body, a.suffix)
            /\ IF IsData(Probed, a.body)
                 THEN SettleOk(KeptAt(a.suffix))
                 ELSE SettleOrGoBack(BodyStatus(Probed, a.body))
       [] a.kind = "refused" ->
            SettleOrGoBack(RefusalStatus(a.code, a.quota)) /\ UNCHANGED cached
       [] a.kind = "unreachable" -> Settle("network_error") /\ UNCHANGED cached
       [] a.kind = "garbled" ->
            /\ IF Entry_.format = "binary" THEN Settle("malformed") ELSE Raise
            /\ UNCHANGED cached
  /\ UNCHANGED <<ciks, counter>> /\ Constant

(* write_report; the dated copy is not kept here.                          *)
WriteReport ==
  /\ step = "report"
  /\ latest' = [mode |-> mode, ok |-> kept]
  /\ step' = "idle" /\ rows' = NoRows /\ kept' = {}
  /\ UNCHANGED <<order, mode, todo, cacheVars, probeVars, boundVars>>

-----------------------------------------------------------------------------
(* A kill: write_json and write_bytes write the file in place, so that the *)
(* slot being written is left torn.  The next run starts over.             *)
Writing ==
  CASE step = "sent" -> {KeptAt(suffix) : suffix \in Suffixes(Probed)}
    [] LookingUp({"cik", "filing"}, "none") /\ ciks = "unknown"
         /\ cached[TickersSlot] = None -> {TickersSlot}
    [] LookingUp({"filing"}, "cik")
         /\ ~IsDocument(cached[SubmissionsSlot]) -> {SubmissionsSlot}
    [] OTHER -> {}

Killed ==
  /\ step # "idle" /\ disturbances < MaxDisturbances
  /\ disturbances' = disturbances + 1
  /\ \/ UNCHANGED cached
     \/ mode # "cache_only" /\ \E s \in Writing : cached' = [cached EXCEPT ![s] = Torn]
  /\ Raise
  /\ UNCHANGED <<order, mode, latest, ciks, counter, runs>>

(* The clients of the pipeline, at work on the same date: they claim       *)
(* requests, learn of refusals, and cache what they take for data, which a *)
(* kill may tear.                                                          *)
OtherClient ==
  /\ disturbances < MaxDisturbances
  /\ disturbances' = disturbances + 1
  /\ \/ ~Exhausted(counter) /\ counter' = Reserved(counter) /\ UNCHANGED cached
     \/ LearnsFrom(counter) /\ counter' = Refused(counter) /\ UNCHANGED cached
     \/ /\ \E s \in Slot : \E file \in Bodies \union {Torn} :
             /\ s.endpoint \in Range(order) /\ Registry[s.endpoint].shared
             /\ file = Torn \/ IsDataOfClient(s.endpoint, file)
             /\ cached' = [cached EXCEPT ![s] = file]
        /\ UNCHANGED counter
  /\ UNCHANGED <<order, mode, step, todo, rows, kept, latest, probeVars, runs>>

Next ==
  \/ \E m \in Modes : StartRun(m)
  \/ SettleUnasked
  \/ UseKnownMap \/ ReadTickers \/ ReadSubmissions
  \/ \E a \in Answer : RequestTickers(a) \/ RequestSubmissions(a) \/ ReceiveProbe(a)
  \/ Replay \/ SendProbe \/ WriteReport
  \/ Killed \/ OtherClient

Spec == Init /\ [][Next]_vars

-----------------------------------------------------------------------------
(* hard_failure_count, as the endpoints it counts.                         *)
SoftStatuses == {"ok", "no_credentials", "registered", "manual_required",
                 "browser_required", "skipped"}

HardFailuresButOutages(results) ==   \* mutant: an outage forgiven
  {e \in Endpoint : /\ Registry[e].required /\ results[e] # None
                    /\ results[e] \notin SoftStatuses \union {"network_error"}}
HardFailures(results) ==
  {e \in Endpoint : /\ Registry[e].required /\ results[e] # None
                    /\ results[e] \notin SoftStatuses}

Prerequisite == {Tickers, Submissions}

(* "A refusal must never reach the cache" (preflight.py:428): outside the  *)
(* two files its lookups keep, a slot of the day holds nothing, a file cut *)
(* off by a kill, or what the probe or the client takes for data, whatever *)
(* was answered, by whichever process, and through all runs of the day.    *)
OnlyDataIsCached ==
  \A s \in Slot : s.endpoint \notin Prerequisite =>
    \/ cached[s] \in {None, Torn}
    \/ IsData(s.endpoint, cached[s]) \/ IsDataOfClient(s.endpoint, cached[s])

(* A client that asks fewer paths of an answer may leave a file that the   *)
(* probe does not take for data.                                           *)
ClientsAgree(e) == Registry[e].shared => Registry[e].paths \subseteq Registry[e].asked

(* What a live report calls ok, a cache-only run of that day that looks    *)
(* for the same filing and suffix finds again: the first file it takes, of *)
(* the sessions of the endpoint, is data, unless a later kill tore it.     *)
OkCanBeReplayed ==
  latest # None /\ latest.mode # "cache_only" =>
    \A s \in latest.ok : s.endpoint \notin Prerequisite /\ ClientsAgree(s.endpoint) =>
      \E i \in 1 .. Registry[s.endpoint].sessions :
        LET file(j) == cached[[s EXCEPT !.session = j]]
        IN  /\ file(i) = Torn \/ IsData(s.endpoint, file(i))
            /\ \A j \in 1 .. i - 1 : file(j) = None

(* A live report without a hard failure hides none among the statuses it   *)
(* forgives: a required endpoint it was to probe with a credential it has  *)
(* answered with data, or was skipped though SEC's own map was read, for   *)
(* then the symbol or the filing is not there to be probed.                *)
NoFailureHidden ==
  step = "report" /\ mode # "cache_only" /\ HardFailures(rows) = {} =>
    \A e \in Endpoint :
      LET entry == Registry[e]
      IN  /\ rows[e] # None /\ entry.required /\ entry.kind = "http"
          /\ entry.enabled /\ entry.symbol /\ (entry.deep => mode = "deep")
          /\ entry.credential # "lacking"
          => \/ rows[e] = "ok"
             \/ /\ rows[e] = "skipped" /\ entry.needs # "none"
                /\ rows[Tickers] = "ok"
                /\ entry.needs = "filing" => rows[Submissions] \in {"ok", "skipped"}
=============================================================================
