-------------------------- MODULE PreflightProofs --------------------------
(***************************************************************************)
(* What TLAPS proves of Preflight for any registry, any answers, and any   *)
(* number of runs, kills and steps of other processes: what may stand in   *)
(* the raw cache, that what a report calls ok can be replayed, and that no *)
(* failure hides among the statuses it forgives.                           *)
(***************************************************************************)
EXTENDS Preflight, TLAPS, SequenceTheorems, WellFoundedInduction

(* Where a run is: it has an endpoint while it probes one, and a session   *)
(* of that endpoint; what it asked for, it has looked up.                  *)
Placed ==
  /\ step \in Steps /\ todo \in Seq(Endpoint)
  /\ context \in Context
  /\ session \in Nat \ {0}
  /\ rows \in Row /\ kept \subseteq Slot
  /\ step \in {"probe", "sent"} => todo # <<>> /\ session <= Entry_.sessions
  /\ step = "sent" => context \in Targets(Probed)

Shared ==
  /\ order \in Orders /\ mode \in Modes
  /\ ciks \in {"unknown", "mapped", "unmapped"}
  /\ latest \in [mode : Modes, ok : SUBSET Slot] \union {None}
  /\ counter \in CounterFile
  /\ runs \in Nat /\ disturbances \in Nat

CachedType == cached \in [Slot -> Body \union {None, Torn}]

(* A step changes a slot by tearing it, by writing data, or as one of the  *)
(* lookups does.                                                           *)
Preserved ==
  \A s \in Slot : \/ cached'[s] = cached[s]
                  \/ cached'[s] = Torn \/ IsData(s.endpoint, cached'[s])
                  \/ IsDataOfClient(s.endpoint, cached'[s])
                  \/ s.endpoint \in Prerequisite /\ cached'[s] \in Body

(* A file that a row newly calls ok is there.                              *)
Found == \A s \in kept' \ kept : cached'[s] # None

(* What the invariants below need of a step that is not the report.        *)
Working == Placed /\ Shared /\ CachedType
Worked  == Working' /\ Preserved /\ Found /\ latest' = latest

-----------------------------------------------------------------------------
(* What the validation says of a body is a status.                         *)
LEMMA BodyStatusType ==
  ASSUME NEW e, NEW body
  PROVE  BodyStatus(e, body) \in PayloadStatus
<1>1. TextStatus(body) \in PayloadStatus
  BY DEF TextStatus, PayloadStatus, BadStatus
<1>2. TextDataStatus(body) \in PayloadStatus
  BY <1>1 DEF TextDataStatus, PayloadStatus, BadStatus
<1>3. BinaryStatus(body) \in PayloadStatus
  BY <1>1 DEF BinaryStatus, PayloadStatus, BadStatus
<1>4. Validated(body, Registry[e].paths, Metered(e)) \in PayloadStatus
  BY <1>1 DEF Validated, TrapStatus, Refusing, PayloadStatus, BadStatus
<1>5. QED
  BY <1>2, <1>3, <1>4 DEF BodyStatus

(* The files of an endpoint have slots.                                    *)
LEMMA SlotsOf ==
  ASSUME NEW e \in Endpoint, NEW i \in 1 .. Registry[e].sessions,
         NEW target \in Targets(e), NEW suffix \in Suffixes(e)
  PROVE  File(e, i, target, suffix) \in Slot
<1>1. File(e, i, target, suffix)
        \in [endpoint : {e}, session : 1 .. Registry[e].sessions,
             target : Targets(e), suffix : Suffixes(e)]
  BY DEF File
<1>2. QED
  BY <1>1 DEF Slot

(* A slot is the file of an endpoint.                                      *)
LEMMA SlotParts ==
  ASSUME NEW s \in Slot
  PROVE  /\ s.endpoint \in Endpoint /\ s.session \in 1 .. Registry[s.endpoint].sessions
         /\ \A i \in 1 .. Registry[s.endpoint].sessions :
              [s EXCEPT !.session = i] \in Slot /\ [s EXCEPT !.session = i].endpoint = s.endpoint
         /\ [s EXCEPT !.session = s.session] = s
<1>1. PICK e \in Endpoint :
        s \in [endpoint : {e}, session : 1 .. Registry[e].sessions,
              target : Targets(e), suffix : Suffixes(e)]
  BY DEF Slot
<1>2. s.endpoint = e /\ s.session \in 1 .. Registry[e].sessions
  BY <1>1
<1>3. ASSUME NEW i \in 1 .. Registry[e].sessions
      PROVE  /\ [s EXCEPT !.session = i]
                  \in [endpoint : {e}, session : 1 .. Registry[e].sessions,
                       target : Targets(e), suffix : Suffixes(e)]
             /\ [s EXCEPT !.session = i].endpoint = e
  BY <1>1
<1>4. [s EXCEPT !.session = s.session] = s
  BY <1>1
<1>5. QED
  BY <1>2, <1>3, <1>4 DEF Slot

(* The head of a list of endpoints is one.                                 *)
LEMMA ProbedType ==
  ASSUME Placed, step \in {"probe", "sent"}
  PROVE  /\ Probed \in Endpoint /\ Tail(todo) \in Seq(Endpoint)
         /\ Entry_ \in Entry /\ Entry_.sessions \in Nat \ {0}
         /\ \A i \in 1 .. Entry_.sessions, target \in Targets(Probed),
               suffix \in Suffixes(Probed) : File(Probed, i, target, suffix) \in Slot
<1>1. Probed \in Endpoint /\ Tail(todo) \in Seq(Endpoint)
  BY HeadTailProperties DEF Placed, Probed
<1>2. Entry_ \in Entry /\ Entry_.sessions \in Nat \ {0}
  BY <1>1, RegistryAssumption DEF Entry_, Entry
<1>3. QED
  BY <1>1, <1>2, SlotsOf DEF Entry_

(* The run stays with its endpoint, goes on to the next, or ends.          *)
LEMMA ProceedEffect ==
  ASSUME Placed, step = "probe", NEW found \in Context, Proceed(found)
  PROVE  Placed' /\ kept' = kept
BY DEF Proceed, Placed, Entry_, Probed

(* A run begins with no rows.                                              *)
LEMMA NoRowsType == NoRows \in Row
BY DEF NoRows, Row

LEMMA RaiseEffect ==
  ASSUME Placed, Raise
  PROVE  Placed' /\ kept' = {}
<1>1. <<>> \in Seq(Endpoint)
  OBVIOUS
<1>2. QED
  BY <1>1, NoRowsType DEF Raise, Placed, Steps, Context

LEMMA RowOfEffect ==
  ASSUME Placed, step \in {"probe", "sent"}, NEW status \in Statuses, RowOf(status),
         kept' \in SUBSET Slot
  PROVE  /\ Placed'
         /\ \A e \in Endpoint \ {Probed} : rows'[e] = rows[e]
         /\ rows'[Probed] = status
<1>1. Probed \in Endpoint /\ Tail(todo) \in Seq(Endpoint)
  BY ProbedType
<1>2. rows' \in Row
  BY <1>1 DEF RowOf, Placed, Row
<1>3. step' = "probe" => todo' # <<>>
  BY DEF RowOf
<1>4. step' = "probe" => session' <= Entry_'.sessions
  <2> SUFFICES ASSUME step' = "probe" PROVE 1 <= Entry_'.sessions
    BY DEF RowOf
  <2>1. Probed' \in Endpoint
    BY <1>1, <1>3, HeadTailProperties DEF RowOf, Probed
  <2>2. QED
    BY <2>1, RegistryAssumption DEF Entry_, Entry
<1>5. QED
  BY <1>1, <1>2, <1>3, <1>4 DEF RowOf, Placed, Steps, Row, Context

LEMMA SettleEffect ==
  ASSUME Placed, step \in {"probe", "sent"}, NEW status \in Statuses, Settle(status)
  PROVE  /\ Placed' /\ kept' = kept
         /\ \A e \in Endpoint \ {Probed} : rows'[e] = rows[e]
         /\ rows'[Probed] = status
BY RowOfEffect DEF Settle, Placed

LEMMA SettleOkEffect ==
  ASSUME Placed, step \in {"probe", "sent"}, NEW s \in Slot, SettleOk(s)
  PROVE  Placed' /\ kept' = kept \union {s}
<1>1. "ok" \in Statuses
  BY DEF Statuses, PayloadStatus
<1>2. kept' = kept \union {s} /\ kept' \in SUBSET Slot
  BY DEF SettleOk, Placed
<1>3. QED
  BY <1>1, <1>2, RowOfEffect DEF SettleOk

-----------------------------------------------------------------------------
(* A run that proceeds, raises or settles with no file.                    *)
LEMMA MovesOn ==
  ASSUME Placed, step \in {"probe", "sent"},
         \/ step = "probe" /\ \E found \in Context : Proceed(found)
         \/ Raise
         \/ \E status \in Statuses : Settle(status)
  PROVE  Placed' /\ Found
<1>1. CASE step = "probe" /\ \E found \in Context : Proceed(found)
  BY <1>1, ProceedEffect DEF Found
<1>2. CASE Raise
  BY <1>2, RaiseEffect DEF Found
<1>3. CASE \E status \in Statuses : Settle(status)
  BY <1>3, SettleEffect DEF Found
<1>4. QED
  BY <1>1, <1>2, <1>3

(* What a lookup leaves alone.                                             *)
LEMMA Lookups ==
  ASSUME Working, step \in {"probe", "sent"}, Placed' /\ Found, CachedType', Preserved,
         ciks' \in {"unknown", "mapped", "unmapped"}, counter' = counter, Constant
  PROVE  Worked
BY DEF Working, Worked, Shared, Placed, Constant, boundVars

(* A step that leaves the cache keeps what is in it.                       *)
LEMMA CacheStays ==
  ASSUME CachedType, cached' = cached
  PROVE  CachedType' /\ Preserved
BY DEF CachedType, Preserved

(* So does one that writes a slot.                                         *)
LEMMA CacheWritten ==
  ASSUME CachedType, NEW s \in Slot, NEW file \in Body \union {Torn},
         cached' = [cached EXCEPT ![s] = file],
         \/ s.endpoint \in Prerequisite \/ file = Torn
         \/ IsData(s.endpoint, file) \/ IsDataOfClient(s.endpoint, file)
  PROVE  CachedType' /\ Preserved /\ cached'[s] = file
BY DEF CachedType, Preserved

(* SEC's two files have a slot.                                            *)
LEMMA PrerequisiteSlots ==
  /\ TickersSlot \in Slot /\ TickersSlot.endpoint \in Prerequisite
  /\ SubmissionsSlot \in Slot /\ SubmissionsSlot.endpoint \in Prerequisite
<1>1. ASSUME NEW e \in {Tickers, Submissions}
      PROVE  e \in Endpoint /\ 1 \in 1 .. Registry[e].sessions /\ "json" \in Suffixes(e)
  <2>1. e \in Endpoint /\ Registry[e].sessions \in Nat \ {0}
    BY RegistryAssumption DEF Entry
  <2>2. Registry[e].format = "json"
    BY LookupsProbed
  <2>3. QED
    BY <2>1, <2>2 DEF Suffixes
<1>2. "none" \in Targets(Tickers) /\ "cik" \in Targets(Submissions)
  BY LookupsProbed DEF Targets
<1>3. QED
  BY <1>1, <1>2, SlotsOf DEF TickersSlot, SubmissionsSlot, Prerequisite, File

(* Each of the actions does what the invariants need.                      *)
LEMMA StartRunStep == ASSUME Working, NEW m \in Modes, StartRun(m) PROVE Worked
<1>1. order \in Seq(Endpoint)
  BY RegistryAssumption DEF Working, Shared
<1>2. Placed'
  <2>1. ASSUME order # <<>> PROVE 1 <= Entry_'.sessions
    <3>1. Probed' \in Endpoint
      BY <1>1, <2>1, HeadTailProperties DEF StartRun, Probed
    <3>2. QED
      BY <3>1, RegistryAssumption DEF Entry_, Entry
  <2>2. QED
    BY <1>1, <2>1, NoRowsType DEF StartRun, Placed, Steps, Context
<1>3. CachedType' /\ Preserved
  BY CacheStays DEF StartRun, cacheVars, Working
<1>4. Found /\ latest' = latest
  BY DEF StartRun, Found
<1>5. Shared'
  BY DEF StartRun, Working, Shared, cacheVars
<1>6. QED
  BY <1>2, <1>3, <1>4, <1>5 DEF Working, Worked

LEMMA SettleUnaskedStep == ASSUME Working, SettleUnasked PROVE Worked
<1>1. Unasked(Probed) \in Statuses
  BY DEF SettleUnasked, Unasked, Statuses
<1>2. Placed' /\ Found
  BY <1>1, MovesOn DEF SettleUnasked, Working
<1>3. QED
  BY <1>2, CacheStays, Lookups DEF SettleUnasked, cacheVars, Working, Shared

(* What a lookup may settle or find.                                       *)
LEMMA Skipped == "skipped" \in Statuses /\ "cik" \in Context /\ Filings \subseteq Context
BY DEF Statuses, Context

(* A map that is read settles the run's own.                               *)
LEMMA MapTickersStep ==
  ASSUME Working, step = "probe", NEW body, MapTickers(body)
  PROVE  Placed' /\ Found /\ ciks' \in {"unknown", "mapped", "unmapped"}
<1>1. CASE Raise /\ UNCHANGED ciks
  BY <1>1, MovesOn DEF Working, Shared
<1>2. CASE ciks' = "mapped" /\ Proceed("cik")
  BY <1>2, Skipped, MovesOn DEF Working
<1>3. CASE ciks' = "unmapped" /\ Settle("skipped")
  BY <1>3, Skipped, MovesOn DEF Working
<1>4. QED
  BY <1>1, <1>2, <1>3 DEF MapTickers

LEMMA FindFilingStep ==
  ASSUME Working, step = "probe", NEW body, FindFiling(body)
  PROVE  Placed' /\ Found
BY Skipped, MovesOn DEF FindFiling, Working

LEMMA UseKnownMapStep == ASSUME Working, UseKnownMap PROVE Worked
<1>1. Placed' /\ Found
  BY Skipped, MovesOn DEF UseKnownMap, LookingUp, Working
<1>2. QED
  BY <1>1, CacheStays, Lookups DEF UseKnownMap, LookingUp, cacheVars, Working, Shared

LEMMA ReadTickersStep == ASSUME Working, ReadTickers PROVE Worked
<1>1. Placed' /\ Found /\ ciks' \in {"unknown", "mapped", "unmapped"}
  BY Skipped, MovesOn, MapTickersStep DEF ReadTickers, LookingUp, Working, Shared
<1>2. QED
  BY <1>1, CacheStays, Lookups DEF ReadTickers, LookingUp, cacheVars, Working

LEMMA RequestTickersStep ==
  ASSUME Working, NEW a \in Answer, RequestTickers(a)
  PROVE  Worked
<1>1. step = "probe" /\ counter' = counter /\ Constant
  BY DEF RequestTickers, LookingUp
<1>2. CASE a.kind = "body"
  <2>1. a.body \in Body
    BY <1>2, CacheAssumption DEF Answer
  <2>2. cached' = [cached EXCEPT ![TickersSlot] = a.body] /\ MapTickers(a.body)
    BY <1>2 DEF RequestTickers
  <2>3. CachedType' /\ Preserved
    BY <2>1, <2>2, CacheWritten, PrerequisiteSlots DEF Working
  <2>4. QED
    BY <1>1, <2>2, <2>3, MapTickersStep, Lookups
<1>3. CASE a.kind # "body"
  <2>1. cached' = cached /\ ciks' = ciks /\ (Raise \/ Settle("skipped"))
    BY <1>3 DEF RequestTickers
  <2>2. Placed' /\ Found
    BY <1>1, <2>1, Skipped, MovesOn DEF Working
  <2>3. QED
    BY <1>1, <2>1, <2>2, CacheStays, Lookups DEF Working, Shared
<1>4. QED
  BY <1>2, <1>3

LEMMA ReadSubmissionsStep == ASSUME Working, ReadSubmissions PROVE Worked
<1>1. Placed' /\ Found
  BY Skipped, MovesOn, FindFilingStep DEF ReadSubmissions, LookingUp, Working
<1>2. QED
  BY <1>1, CacheStays, Lookups DEF ReadSubmissions, LookingUp, cacheVars, Working, Shared

LEMMA RequestSubmissionsStep ==
  ASSUME Working, NEW a \in Answer, RequestSubmissions(a)
  PROVE  Worked
<1>1. step = "probe" /\ counter' = counter /\ ciks' = ciks /\ Constant
  BY DEF RequestSubmissions, LookingUp
<1>2. CASE a.kind = "body" /\ IsDocument(a.body)
  <2>1. a.body \in Body
    BY <1>2 DEF IsDocument
  <2>2. cached' = [cached EXCEPT ![SubmissionsSlot] = a.body] /\ FindFiling(a.body)
    BY <1>2 DEF RequestSubmissions
  <2>3. CachedType' /\ Preserved
    BY <2>1, <2>2, CacheWritten, PrerequisiteSlots DEF Working
  <2>4. QED
    BY <1>1, <2>2, <2>3, FindFilingStep, Lookups DEF Working, Shared
<1>3. CASE ~(a.kind = "body" /\ IsDocument(a.body))
  <2>1. cached' = cached /\ (Raise \/ Settle("skipped"))
    BY <1>3 DEF RequestSubmissions
  <2>2. Placed' /\ Found
    BY <1>1, <2>1, Skipped, MovesOn DEF Working
  <2>3. QED
    BY <1>1, <2>1, <2>2, CacheStays, Lookups DEF Working, Shared
<1>4. QED
  BY <1>2, <1>3

-----------------------------------------------------------------------------
(* A set of numbers has a least one.                                       *)
LEMMA LeastOf ==
  ASSUME NEW T \in SUBSET Nat, T # {}
  PROVE  \E i \in T : \A j \in T : i <= j
<1> DEFINE Below == {pair \in Nat \X Nat : pair[1] < pair[2]}
<1>1. IsWellFoundedOn(Below, Nat)
  BY NatLessThanWellFounded DEF OpToRel
<1> SUFFICES ASSUME NEW i \in T, \A j \in T : <<j, i>> \notin Below
             PROVE  \A j \in T : i <= j
  <2> HIDE DEF Below
  <2> QED
    BY <1>1, WFMin
<1>2. ASSUME NEW j \in T PROVE i <= j
  <2>1. <<j, i>> \in Nat \X Nat /\ i \in Nat /\ j \in Nat
    OBVIOUS
  <2>2. QED
    BY <2>1
<1>3. QED
  BY <1>2

(* A cache-only run raises or has a row.                                   *)
LEMMA ReplaySettles ==
  ASSUME Working, Replay
  PROVE  \/ Raise
         \/ \E status \in Statuses : Settle(status)
         \/ \E s \in Slot : SettleOk(s) /\ cached[s] # None
<1> DEFINE held  == {i \in 1 .. Entry_.sessions : cached[LookedAt(i)] # None}
           least == CHOOSE i \in held : \A j \in held : i <= j
           file  == cached[LookedAt(least)]
<1>1. step = "probe" /\ context \in Targets(Probed)
  BY DEF Replay, Ready
<1>2. BodyStatus(Probed, file) \in Statuses
  BY BodyStatusType DEF Statuses
<1>3. {"no_credentials", "missing", "truncated"} \subseteq Statuses
  BY DEF Statuses, PayloadStatus, BadStatus
<1>4. Probed \in Endpoint /\ Entry_.sessions \in Nat /\ Entry_.suffix \in Suffix
  BY <1>1, ProbedType DEF Working, Entry
<1>5. ASSUME held # {} PROVE LookedAt(least) \in Slot
  <2>1. \E i \in held : \A j \in held : i <= j
    <3> HIDE DEF held
    <3>1. held \in SUBSET Nat
      BY <1>4 DEF held
    <3>2. QED
      BY <1>5, <3>1, LeastOf
  <2>2. least \in held
    <3> HIDE DEF held
    <3> QED
      BY <2>1
  <2>3. least \in 1 .. Entry_.sessions
    BY <2>2
  <2>4. UrlSuffix(Probed, Entry_.suffix) \in Suffixes(Probed)
    BY <1>4 DEF UrlSuffix, Suffixes
  <2> HIDE DEF least
  <2>5. QED
    BY <1>1, <2>3, <2>4, ProbedType DEF LookedAt, Working
<1> HIDE DEF file, least, held
<1>6. CASE held = {}
  <2>1. Settle(IF Entry_.credential = "lacking" THEN "no_credentials" ELSE "missing")
    BY <1>6 DEF Replay, file, least, held
  <2>2. QED
    BY <1>3, <2>1
<1>7. CASE held # {} /\ file = Torn
  <2>1. Raise \/ Settle("missing") \/ Settle("truncated") \/ SettleOk(LookedAt(least))
    BY <1>7 DEF Replay, file, least, held
  <2>2. cached[LookedAt(least)] # None
    BY <1>7, CacheAssumption DEF file
  <2>3. QED
    BY <1>3, <1>5, <1>7, <2>1, <2>2
<1>8. CASE held # {} /\ file # Torn /\ IsData(Probed, file)
  <2>1. SettleOk(LookedAt(least))
    BY <1>8 DEF Replay, file, least, held
  <2>2. cached[LookedAt(least)] # None
    BY <1>8, CacheAssumption DEF file, IsData
  <2>3. QED
    BY <1>5, <1>8, <2>1, <2>2
<1>9. CASE held # {} /\ file # Torn /\ ~IsData(Probed, file)
  <2>1. Settle(BodyStatus(Probed, file))
    BY <1>9 DEF Replay, file, least, held
  <2>2. QED
    BY <1>2, <2>1
<1>10. QED
  BY <1>6, <1>7, <1>8, <1>9

(* So do the actions of the probe itself.                                  *)
LEMMA ReplayStep == ASSUME Working, Replay PROVE Worked
<1>1. step = "probe" /\ ciks' = ciks /\ cached' = cached
      /\ counter' = counter /\ Constant
  BY DEF Replay, Ready, cacheVars
<1>2. Placed' /\ Found
  <2>1. CASE Raise \/ \E status \in Statuses : Settle(status)
    BY <1>1, <2>1, MovesOn DEF Working
  <2>2. ASSUME NEW s \in Slot, SettleOk(s), cached[s] # None PROVE Placed' /\ Found
    BY <1>1, <2>2, SettleOkEffect DEF Found, Working
  <2>3. QED
    BY <2>1, <2>2, ReplaySettles
<1>3. QED
  BY <1>1, <1>2, CacheStays, Lookups DEF Working, Shared

LEMMA SendProbeStep == ASSUME Working, SendProbe PROVE Worked
<1>1. step = "probe" /\ context \in Targets(Probed) /\ ciks' = ciks /\ cached' = cached
      /\ Constant
  BY DEF SendProbe, Ready
<1>2. Placed' /\ Found
  <2>1. CASE Settle("budget_exhausted")
    BY <1>1, <2>1, MovesOn DEF Statuses, PayloadStatus, BadStatus, Working
  <2>2. CASE step' = "sent" /\ UNCHANGED <<todo, rows, kept, context, session>>
    BY <1>1, <2>2 DEF Working, Placed, Steps, Found, Entry_, Probed, Targets
  <2>3. QED
    BY <2>1, <2>2 DEF SendProbe
<1>3. counter' \in CounterFile
  BY DEF SendProbe, Reserved, CounterFile, Working, Shared
<1>4. CachedType' /\ Preserved
  BY <1>1, CacheStays DEF Working
<1>5. Shared' /\ latest' = latest
  BY <1>1, <1>3 DEF Working, Shared, Constant, boundVars
<1>6. QED
  BY <1>2, <1>4, <1>5 DEF Worked, Working

(* The row of an answer that is no data, or the session before it.         *)
LEMMA SettleOrGoBackStep ==
  ASSUME Working, step = "sent", NEW status \in Statuses, SettleOrGoBack(status)
  PROVE  Placed' /\ Found
<1>1. CASE Settle(status)
  BY <1>1, MovesOn DEF Working
<1>2. CASE /\ session < Entry_.sessions
           /\ step' = "probe" /\ session' = session + 1
           /\ UNCHANGED <<todo, rows, kept, context>>
  <2>1. Entry_' = Entry_ /\ Entry_.sessions \in Nat
    BY <1>2, ProbedType DEF Entry_, Probed, Working
  <2>2. QED
    BY <1>2, <2>1 DEF Working, Placed, Steps, Found
<1>3. QED
  BY <1>1, <1>2 DEF SettleOrGoBack

LEMMA ReceiveProbeStep ==
  ASSUME Working, NEW a \in Answer, ReceiveProbe(a)
  PROVE  Worked
<1>1. step = "sent" /\ counter' = counter /\ ciks' = ciks /\ Constant
  BY DEF ReceiveProbe
<1>2. CASE a.kind = "body"
  <2>1. a.body \in Body /\ a.suffix \in Suffix
    BY <1>2, CacheAssumption DEF Answer
  <2>2. KeptAt(a.suffix) \in Slot /\ KeptAt(a.suffix).endpoint = Probed
    <3>1. UrlSuffix(Probed, a.suffix) \in Suffixes(Probed)
      BY <2>1 DEF UrlSuffix, Suffixes
    <3>2. session \in 1 .. Entry_.sessions /\ context \in Targets(Probed)
      BY <1>1, ProbedType DEF Working, Placed
    <3>3. QED
      BY <1>1, <3>1, <3>2, ProbedType DEF KeptAt, File, Working
  <2>3. BodyStatus(Probed, a.body) \in Statuses
    BY BodyStatusType DEF Statuses
  <2>4. CASE IsData(Probed, a.body)
    <3>1. cached' = [cached EXCEPT ![KeptAt(a.suffix)] = a.body]
          /\ SettleOk(KeptAt(a.suffix))
      BY <1>2, <2>4 DEF ReceiveProbe, CacheData
    <3>2. CachedType' /\ Preserved /\ cached'[KeptAt(a.suffix)] = a.body
      BY <2>1, <2>2, <2>4, <3>1, CacheWritten DEF Working
    <3>3. Placed' /\ kept' = kept \union {KeptAt(a.suffix)}
      BY <1>1, <2>2, <3>1, SettleOkEffect DEF Working
    <3>4. Found
      BY <2>1, <3>2, <3>3, CacheAssumption DEF Found
    <3>5. QED
      BY <1>1, <3>2, <3>3, <3>4, Lookups DEF Working, Shared
  <2>5. CASE ~IsData(Probed, a.body)
    <3>1. cached' = cached /\ SettleOrGoBack(BodyStatus(Probed, a.body))
      BY <1>2, <2>5 DEF ReceiveProbe, CacheData
    <3>2. Placed' /\ Found
      BY <1>1, <2>3, <3>1, SettleOrGoBackStep
    <3>3. QED
      BY <1>1, <3>1, <3>2, CacheStays, Lookups DEF Working, Shared
  <2>6. QED
    BY <2>4, <2>5
<1>3. CASE a.kind = "refused"
  <2>1. cached' = cached /\ SettleOrGoBack(RefusalStatus(a.code, a.quota))
    BY <1>3 DEF ReceiveProbe
  <2>2. RefusalStatus(a.code, a.quota) \in Statuses
    BY DEF RefusalStatus, Statuses, PayloadStatus, BadStatus
  <2>3. Placed' /\ Found
    BY <1>1, <2>1, <2>2, SettleOrGoBackStep
  <2>4. QED
    BY <1>1, <2>1, <2>3, CacheStays, Lookups DEF Working, Shared
<1>4. CASE a.kind \in {"unreachable", "garbled"}
  <2>1. cached' = cached /\ (Settle("network_error") \/ Settle("malformed") \/ Raise)
    BY <1>4 DEF ReceiveProbe
  <2>2. {"network_error", "malformed"} \subseteq Statuses
    BY DEF Statuses, PayloadStatus, BadStatus
  <2>3. Placed' /\ Found
    BY <1>1, <2>1, <2>2, MovesOn DEF Working
  <2>4. QED
    BY <1>1, <2>1, <2>3, CacheStays, Lookups DEF Working, Shared
<1>5. QED
  BY <1>2, <1>3, <1>4 DEF Answer

-----------------------------------------------------------------------------
(* A kill, and another process.                                            *)
LEMMA KilledStep == ASSUME Working, Killed PROVE Worked
<1>1. Placed' /\ Found
  BY RaiseEffect DEF Killed, Found, Working
<1>2. CachedType' /\ Preserved
  <2>1. Writing \subseteq Slot
    <3>1. ASSUME step = "sent", NEW suffix \in Suffixes(Probed)
          PROVE  KeptAt(suffix) \in Slot
      <4>1. session \in 1 .. Entry_.sessions /\ context \in Targets(Probed)
        BY <3>1, ProbedType DEF Working, Placed
      <4>2. UrlSuffix(Probed, suffix) \in Suffixes(Probed)
        BY DEF UrlSuffix, Suffixes
      <4>3. QED
        BY <3>1, <4>1, <4>2, ProbedType DEF KeptAt, Working
    <3>2. QED
      BY <3>1, PrerequisiteSlots DEF Writing
  <2>2. ASSUME NEW s \in Slot, cached' = [cached EXCEPT ![s] = Torn]
        PROVE  CachedType' /\ Preserved
    BY <2>2, CacheWritten DEF Working
  <2>3. QED
    BY <2>1, <2>2, CacheStays DEF Killed, Working
<1>3. Shared' /\ latest' = latest
  BY DEF Killed, Shared, Working
<1>4. QED
  BY <1>1, <1>2, <1>3 DEF Worked, Working

LEMMA OtherClientStep == ASSUME Working, OtherClient PROVE Worked
<1>1. Placed' /\ Found
  BY DEF OtherClient, probeVars, Placed, Found, Entry_, Probed, Working
<1>2. CachedType' /\ Preserved
  <2>1. ASSUME NEW s \in Slot, NEW file \in Bodies \union {Torn},
               file = Torn \/ IsDataOfClient(s.endpoint, file),
               cached' = [cached EXCEPT ![s] = file]
        PROVE  CachedType' /\ Preserved
    BY <2>1, CacheWritten, CacheAssumption DEF Working
  <2>2. QED
    BY <2>1, CacheStays DEF OtherClient, Working
<1>3. counter' \in CounterFile
  <2>1. /\ counter \in CounterFile
        /\ counter' = Reserved(counter) \/ counter' = Refused(counter) \/ counter' = counter
    BY DEF OtherClient, Working, Shared
  <2>2. Reserved(counter) \in CounterFile
    BY <2>1 DEF Reserved, CounterFile
  <2>3. Refused(counter) \in CounterFile
    BY <2>1 DEF Refused, CounterFile
  <2>4. QED
    BY <2>1, <2>2, <2>3
<1>4. Shared' /\ latest' = latest
  BY <1>3 DEF OtherClient, probeVars, Shared, Working
<1>5. QED
  BY <1>1, <1>2, <1>4 DEF Worked, Working

(* The report takes the rows as they are.                                  *)
LEMMA WriteReportStep ==
  ASSUME Working, WriteReport
  PROVE  /\ Working' /\ Preserved
         /\ kept' = {} /\ latest'.ok = kept
<1>1. latest' = [mode |-> mode, ok |-> kept]
  BY DEF WriteReport
<1>2. Shared'
  BY <1>1 DEF WriteReport, cacheVars, probeVars, boundVars, Working, Shared, Placed
<1>3. Placed'
  BY NoRowsType DEF WriteReport, probeVars, Placed, Steps, Working
<1>4. CachedType' /\ Preserved
  BY CacheStays DEF WriteReport, cacheVars, Working
<1>5. QED
  BY <1>1, <1>2, <1>3, <1>4 DEF WriteReport, Working

(* Every step but the report is one of these.                              *)
LEMMA Cases ==
  ASSUME Working, [Next]_vars
  PROVE  WriteReport \/ Worked
<1>1. CASE UNCHANGED vars
  <2>1. Placed' /\ Found /\ CachedType' /\ Preserved
    BY <1>1, CacheStays
       DEF vars, cacheVars, probeVars, Placed, Entry_, Probed, Found, Working
  <2>2. Shared' /\ latest' = latest
    BY <1>1 DEF vars, cacheVars, probeVars, boundVars, Shared, Working
  <2>3. QED
    BY <2>1, <2>2 DEF Working, Worked
<1>2. CASE Next
  BY <1>2, StartRunStep, SettleUnaskedStep, UseKnownMapStep, ReadTickersStep,
     ReadSubmissionsStep, RequestTickersStep, RequestSubmissionsStep, ReceiveProbeStep,
     ReplayStep, SendProbeStep, KilledStep, OtherClientStep
     DEF Next
<1>3. QED
  BY <1>1, <1>2

(* What a run or the report calls ok has a file.                           *)
OkHasFile ==
  /\ \A s \in kept : cached[s] # None
  /\ latest # None => \A s \in latest.ok : cached[s] # None

(* No file is taken out of its slot.                                       *)
LEMMA FilesStay ==
  ASSUME Preserved, NEW s \in Slot, cached[s] # None
  PROVE  cached'[s] # None
BY CacheAssumption DEF Preserved, IsData, IsDataOfClient

-----------------------------------------------------------------------------
(* Every reachable state is well typed, and a run that probes has an       *)
(* endpoint and one of its sessions in hand, whatever raises or is killed. *)
THEOREM TypeCorrect == Spec => [](Working /\ TypeOK)
<1>1. Init => Working
  <2> SUFFICES ASSUME Init PROVE Working
    OBVIOUS
  <2>1. <<>> \in Seq(Endpoint)
    OBVIOUS
  <2>2. Placed
    BY <2>1, NoRowsType DEF Init, Placed, Steps, Context
  <2>3. Shared
    BY DEF Init, Shared, Modes, Empty, CounterFile
  <2>4. CachedType
    BY DEF Init, CachedType
  <2>5. QED
    BY <2>2, <2>3, <2>4 DEF Working
<1>2. Working /\ [Next]_vars => Working'
  BY Cases, WriteReportStep DEF Worked
<1>3. Working => TypeOK
  BY DEF Working, Placed, Shared, CachedType, TypeOK
<1>4. QED
  BY <1>1, <1>2, <1>3, PTL DEF Spec

(* Outside SEC's two lookup files the raw cache of a day holds only data   *)
(* and files cut off by a kill, for any registry, answers, runs, kills and *)
(* steps of the clients.                                                   *)
THEOREM RefusalsAreNotCached == Spec => []OnlyDataIsCached
<1>1. Init => OnlyDataIsCached
  BY DEF Init, OnlyDataIsCached
<1>2. Working /\ OnlyDataIsCached /\ [Next]_vars => OnlyDataIsCached'
  <2> SUFFICES ASSUME Working, OnlyDataIsCached, Preserved PROVE OnlyDataIsCached'
    BY Cases, WriteReportStep DEF Worked
  <2>1. ASSUME NEW s \in Slot, s.endpoint \notin Prerequisite
        PROVE  \/ cached'[s] \in {None, Torn}
               \/ IsData(s.endpoint, cached'[s]) \/ IsDataOfClient(s.endpoint, cached'[s])
    BY <2>1 DEF OnlyDataIsCached, Preserved
  <2>2. QED
    BY <2>1 DEF OnlyDataIsCached
<1>3. QED
  BY <1>1, <1>2, TypeCorrect, PTL DEF Spec

(* Where the client of an endpoint asks no fewer paths than the registry,  *)
(* what it takes for data is data to the probe.                            *)
LEMMA ClientDataIsData ==
  ASSUME NEW e \in Endpoint, NEW file, ClientsAgree(e), IsDataOfClient(e, file)
  PROVE  IsData(e, file)
<1>1. /\ Registry[e].format # "binary" /\ file \in Body
      /\ Registry[e].paths \subseteq Registry[e].asked
  BY RegistryAssumption DEF IsDataOfClient, ClientsAgree
<1>2. CASE Registry[e].format = "text"
  BY <1>1, <1>2 DEF IsDataOfClient, IsData, BodyStatus
<1>3. CASE Registry[e].format # "text"
  <2>1. Validated(file, Registry[e].asked, Metered(e)) = "ok"
    BY <1>3 DEF IsDataOfClient
  <2>2. Validated(file, Registry[e].paths, Metered(e)) = "ok"
    BY <1>1, <2>1 DEF Validated, TextStatus, TrapStatus, Refusing
  <2>3. QED
    BY <1>1, <1>3, <2>2 DEF IsData, BodyStatus
<1>4. QED
  BY <1>2, <1>3

(* What a live report calls ok a later cache-only run of the day finds     *)
(* under the same filing and suffix, as the first file it would take: no   *)
(* step takes a file away or puts one that is not data before it.          *)
THEOREM ReportsCanBeReplayed == Spec => []OkCanBeReplayed
<1>1. Init => OkHasFile
  BY DEF Init, OkHasFile
<1>2. Working /\ OkHasFile /\ [Next]_vars => OkHasFile'
  <2> SUFFICES ASSUME Working, OkHasFile, [Next]_vars PROVE OkHasFile'
    OBVIOUS
  <2>1. kept \subseteq Slot /\ (latest # None => latest.ok \subseteq Slot)
    BY DEF Working, Placed, Shared
  <2>2. CASE WriteReport
    <3>1. kept' = {} /\ latest'.ok = kept /\ Preserved
      BY <2>2, WriteReportStep
    <3>2. QED
      BY <2>1, <3>1, FilesStay DEF OkHasFile
  <2>3. CASE Worked
    <3>1. Preserved /\ Found /\ latest' = latest
      BY <2>3 DEF Worked
    <3>2. ASSUME NEW s \in kept' PROVE cached'[s] # None
      BY <2>1, <3>1, <3>2, FilesStay DEF OkHasFile, Found
    <3>3. ASSUME latest # None, NEW s \in latest.ok PROVE cached'[s] # None
      BY <2>1, <3>1, <3>3, FilesStay DEF OkHasFile
    <3>4. QED
      BY <3>1, <3>2, <3>3 DEF OkHasFile
  <2>4. QED
    BY <2>2, <2>3, Cases
<1>3. Working /\ OkHasFile /\ OnlyDataIsCached => OkCanBeReplayed
  <2> SUFFICES ASSUME Working, OkHasFile, OnlyDataIsCached, latest # None,
                      NEW s \in latest.ok,
                      s.endpoint \notin Prerequisite, ClientsAgree(s.endpoint)
               PROVE  \E i \in 1 .. Registry[s.endpoint].sessions :
                        /\ \/ cached[[s EXCEPT !.session = i]] = Torn
                           \/ IsData(s.endpoint, cached[[s EXCEPT !.session = i]])
                        /\ \A j \in 1 .. i - 1 : cached[[s EXCEPT !.session = j]] = None
    BY DEF OkCanBeReplayed
  <2> DEFINE e == s.endpoint
             At(i) == [s EXCEPT !.session = i]
             held == {i \in 1 .. Registry[e].sessions : cached[At(i)] # None}
  <2>1. s \in Slot
    BY DEF Working, Shared
  <2>2. /\ e \in Endpoint /\ s.session \in 1 .. Registry[e].sessions /\ At(s.session) = s
        /\ \A i \in 1 .. Registry[e].sessions : At(i) \in Slot /\ At(i).endpoint = e
    BY <2>1, SlotParts
  <2>3. Registry[e].sessions \in Nat
    BY <2>2, RegistryAssumption DEF Entry
  <2> HIDE DEF At, e
  <2>4. cached[s] # None
    BY DEF OkHasFile
  <2>5. held # {} /\ held \in SUBSET Nat
    BY <2>2, <2>3, <2>4
  <2> HIDE DEF held
  <2>6. PICK i \in held : \A j \in held : i <= j
    BY <2>5, LeastOf
  <2>7. i \in 1 .. Registry[e].sessions /\ cached[At(i)] # None
    BY <2>6 DEF held
  <2>8. cached[At(i)] = Torn \/ IsData(e, cached[At(i)])
    <3>1. At(i) \in Slot /\ At(i).endpoint = e
      BY <2>2, <2>7
    <3>2. e \notin Prerequisite /\ ClientsAgree(e)
      BY DEF e
    <3>3. \/ cached[At(i)] = Torn \/ IsData(e, cached[At(i)])
          \/ IsDataOfClient(e, cached[At(i)])
      BY <2>7, <3>1, <3>2 DEF OnlyDataIsCached
    <3>4. QED
      BY <2>2, <3>2, <3>3, ClientDataIsData
  <2>9. \A j \in 1 .. i - 1 : cached[At(j)] = None
    BY <2>3, <2>6, <2>7 DEF held
  <2>10. QED
    BY <2>7, <2>8, <2>9 DEF At, e
<1>4. QED
  BY <1>1, <1>2, <1>3, TypeCorrect, RefusalsAreNotCached, PTL DEF Spec

-----------------------------------------------------------------------------
(* What a row may say of an endpoint a live run was to probe: of the       *)
(* statuses forgiven, data, or a lookup that failed.                       *)
Honest(e, status) ==
  mode # "cache_only" /\ Unasked(e) = "open" /\ status \in SoftStatuses =>
    status = "ok" \/ (status = "skipped" /\ Registry[e].needs # "none")

(* What a step makes of the run: it is over or begins, it stays with its   *)
(* endpoint, or it settles the row of that endpoint honestly.              *)
Over   == step' = "idle" /\ rows' = NoRows
Begins == rows' = NoRows /\ todo' = order /\ order' = order
          /\ step' = IF order = <<>> THEN "report" ELSE "probe"
Stays  == /\ UNCHANGED <<rows, todo, order, mode>>
          /\ step' = step \/ {step, step'} \subseteq {"probe", "sent"}
Settles == /\ UNCHANGED <<order, mode>> /\ step \in {"probe", "sent"}
           /\ \E status \in Statuses : RowOf(status) /\ Honest(Probed, status)
Outcome == Over \/ Begins \/ Stays \/ Settles

(* A row that says the probe failed hides nothing.                         *)
LEMMA HardIsHonest ==
  ASSUME NEW e, NEW status, status \notin SoftStatuses \/ status = "ok"
  PROVE  Honest(e, status)
BY DEF Honest

(* Neither does one that a lookup made.                                    *)
LEMMA SkippedIsHonest ==
  ASSUME NEW needs \in SUBSET {"cik", "filing"}, NEW has, LookingUp(needs, has)
  PROVE  Honest(Probed, "skipped")
BY DEF LookingUp, Entry_, Honest

(* A lookup skips the endpoint, raises, or goes on with it.                *)
LEMMA LookupOutcome ==
  ASSUME NEW needs \in SUBSET {"cik", "filing"}, NEW has, LookingUp(needs, has), Constant,
         \/ \E found : Proceed(found)
         \/ Raise
         \/ Settle("skipped")
  PROVE  Outcome
<1>1. CASE Settle("skipped")
  <2>1. Honest(Probed, "skipped") /\ "skipped" \in Statuses
    BY SkippedIsHonest, Skipped
  <2>2. QED
    BY <1>1, <2>1 DEF Outcome, Settles, Settle, Constant, LookingUp
<1>2. CASE Raise
  BY <1>2 DEF Raise, Outcome, Over
<1>3. CASE \E found : Proceed(found)
  BY <1>3 DEF Proceed, Outcome, Stays, Constant
<1>4. QED
  BY <1>1, <1>2, <1>3

(* What the probe of a live run settles, a failure or data.                *)
LEMMA ProbeOutcome ==
  ASSUME step \in {"probe", "sent"}, UNCHANGED <<order, mode>>, NEW status \in Statuses,
         mode = "cache_only" \/ status \notin SoftStatuses \/ status = "ok",
         RowOf(status)
  PROVE  Outcome
BY DEF Outcome, Settles, Honest

(* What the validation says of a body is no status of the forgiven ones    *)
(* but ok.                                                                 *)
LEMMA BodyStatusHard ==
  ASSUME NEW e, NEW body
  PROVE  /\ BodyStatus(e, body) \in Statuses
         /\ BodyStatus(e, body) \notin SoftStatuses \/ BodyStatus(e, body) = "ok"
BY BodyStatusType DEF Statuses, SoftStatuses, PayloadStatus, BadStatus

(* Every step has one of these outcomes.                                   *)
LEMMA Outcomes ==
  ASSUME Working, [Next]_vars
  PROVE  Outcome
<1>1. ASSUME NEW m \in Modes, StartRun(m) PROVE Outcome
  BY <1>1 DEF StartRun, Outcome, Begins
<1>2. CASE SettleUnasked
  <2>1. Unasked(Probed) \in Statuses /\ Honest(Probed, Unasked(Probed))
    BY <1>2 DEF SettleUnasked, Unasked, Statuses, Honest
  <2>2. QED
    BY <1>2, <2>1 DEF SettleUnasked, Outcome, Settles, Settle, Constant
<1>3. CASE UseKnownMap
  BY <1>3, LookupOutcome DEF UseKnownMap
<1>4. CASE ReadTickers
  BY <1>4, LookupOutcome DEF ReadTickers, MapTickers
<1>5. CASE ReadSubmissions
  BY <1>5, LookupOutcome DEF ReadSubmissions, FindFiling
<1>6. ASSUME NEW a \in Answer, RequestTickers(a) PROVE Outcome
  BY <1>6, LookupOutcome DEF RequestTickers, MapTickers
<1>7. ASSUME NEW a \in Answer, RequestSubmissions(a) PROVE Outcome
  BY <1>7, LookupOutcome DEF RequestSubmissions, FindFiling
<1>8. ASSUME NEW a \in Answer, ReceiveProbe(a) PROVE Outcome
  <2>1. step = "sent" /\ UNCHANGED <<order, mode>>
    BY <1>8 DEF ReceiveProbe, Constant
  <2>2. ASSUME NEW status \in Statuses, status \notin SoftStatuses \/ status = "ok",
               SettleOrGoBack(status)
        PROVE  Outcome
    <3>1. CASE Settle(status)
      BY <2>1, <2>2, <3>1, ProbeOutcome DEF Settle
    <3>2. CASE step' = "probe" /\ UNCHANGED <<todo, rows, context>>
      BY <2>1, <3>2 DEF Outcome, Stays
    <3>3. QED
      BY <2>2, <3>1, <3>2 DEF SettleOrGoBack
  <2>3. CASE a.kind = "body"
    <3>1. \/ SettleOrGoBack(BodyStatus(Probed, a.body)) \/ SettleOk(KeptAt(a.suffix))
      BY <1>8, <2>3 DEF ReceiveProbe
    <3>2. CASE SettleOk(KeptAt(a.suffix))
      BY <2>1, <3>2, ProbeOutcome DEF SettleOk, Statuses, PayloadStatus
    <3>3. QED
      BY <2>2, <3>1, <3>2, BodyStatusHard
  <2>4. CASE a.kind = "refused"
    <3>1. SettleOrGoBack(RefusalStatus(a.code, a.quota))
      BY <1>8, <2>4 DEF ReceiveProbe
    <3>2. /\ RefusalStatus(a.code, a.quota) \in Statuses
          /\ RefusalStatus(a.code, a.quota) \notin SoftStatuses
      BY DEF RefusalStatus, Statuses, SoftStatuses, PayloadStatus, BadStatus
    <3>3. QED
      BY <2>2, <3>1, <3>2
  <2>5. CASE a.kind \in {"unreachable", "garbled"}
    <3>1. Settle("network_error") \/ Settle("malformed") \/ Raise
      BY <1>8, <2>5 DEF ReceiveProbe
    <3>2. {"network_error", "malformed"} \subseteq Statuses \ SoftStatuses
      BY DEF Statuses, SoftStatuses, PayloadStatus, BadStatus
    <3>3. CASE Raise
      BY <3>3 DEF Raise, Outcome, Over
    <3>4. QED
      BY <2>1, <3>1, <3>2, <3>3, ProbeOutcome DEF Settle
  <2>6. QED
    BY <2>3, <2>4, <2>5 DEF Answer
<1>9. CASE Replay
  <2>1. step = "probe" /\ mode = "cache_only" /\ UNCHANGED <<order, mode>>
    BY <1>9 DEF Replay, Ready, Constant
  <2>2. Raise \/ \E status \in Statuses : RowOf(status)
    BY <1>9, ReplaySettles DEF Settle, SettleOk, Statuses, PayloadStatus
  <2>3. QED
    BY <2>1, <2>2, ProbeOutcome DEF Raise, Outcome, Over
<1>10. CASE SendProbe
  <2>1. step = "probe" /\ UNCHANGED <<order, mode>>
    BY <1>10 DEF SendProbe, Ready, Constant
  <2>2. "budget_exhausted" \in Statuses \ SoftStatuses
    BY DEF Statuses, SoftStatuses
  <2>3. CASE Settle("budget_exhausted")
    BY <2>1, <2>2, <2>3, ProbeOutcome DEF Settle
  <2>4. CASE step' = "sent" /\ UNCHANGED <<todo, rows, context, session>>
    BY <2>1, <2>4 DEF Outcome, Stays
  <2>5. QED
    BY <1>10, <2>3, <2>4 DEF SendProbe
<1>11. CASE WriteReport \/ Killed
  BY <1>11 DEF WriteReport, Killed, Raise, Outcome, Over
<1>12. CASE OtherClient \/ UNCHANGED vars
  BY <1>12 DEF OtherClient, vars, Outcome, Stays
<1>13. QED
  BY <1>1, <1>2, <1>3, <1>4, <1>5, <1>6, <1>7, <1>8, <1>9, <1>10, <1>11, <1>12
     DEF Next

(* A run has a row for each endpoint of its registry that it is done with, *)
(* and no other, and what the rows say is honest.                          *)
Rowed ==
  step # "idle" =>
    /\ \A e \in Endpoint : e \in Range(order) <=> rows[e] # None \/ e \in Range(todo)
    /\ step = "report" => todo = <<>>
    /\ \A e \in Endpoint : rows[e] # None => Honest(e, rows[e])

(* A list names its head and what its tail names.                          *)
LEMMA RangeOfTail ==
  ASSUME NEW s \in Seq(Endpoint), s # <<>>
  PROVE  \A e : e \in Range(s) <=> e = Head(s) \/ e \in Range(Tail(s))
<1>1. Len(s) \in Nat \ {0} /\ DOMAIN s = 1 .. Len(s) /\ Head(s) = s[1]
  BY HeadTailProperties, EmptySeq
<1>2. DOMAIN Tail(s) = 1 .. Len(s) - 1 /\ \A i \in 1 .. Len(s) - 1 : Tail(s)[i] = s[i + 1]
  BY HeadTailProperties, <1>1
<1>3. ASSUME NEW i \in 1 .. Len(s), i # 1 PROVE s[i] \in Range(Tail(s))
  <2>1. i - 1 \in 1 .. Len(s) - 1 /\ Tail(s)[i - 1] = s[i]
    BY <1>1, <1>2, <1>3
  <2>2. QED
    BY <1>2, <2>1 DEF Range
<1>4. ASSUME NEW i \in 1 .. Len(s) - 1 PROVE Tail(s)[i] \in Range(s)
  <2>1. i + 1 \in 1 .. Len(s) /\ Tail(s)[i] = s[i + 1]
    BY <1>1, <1>2
  <2>2. QED
    BY <1>1, <2>1 DEF Range
<1>5. Head(s) \in Range(s)
  BY <1>1 DEF Range
<1>6. QED
  BY <1>1, <1>2, <1>3, <1>4, <1>5 DEF Range

(* The rows of a run stay complete and honest, whatever it is answered.    *)
LEMMA RowedStep ==
  ASSUME Working, Rowed, [Next]_vars
  PROVE  Rowed'
<1>1. CASE Over
  BY <1>1 DEF Over, Rowed
<1>2. CASE Begins
  BY <1>2 DEF Begins, Rowed, NoRows
<1>3. CASE Stays
  <2>1. (step # "idle" <=> step' # "idle") /\ (step = "report" <=> step' = "report")
    BY <1>3 DEF Stays
  <2>2. QED
    BY <1>3, <2>1 DEF Stays, Rowed, Honest, Unasked
<1>4. CASE Settles
  <2>1. PICK status \in Statuses : RowOf(status) /\ Honest(Probed, status)
    BY <1>4 DEF Settles
  <2>2. step \in {"probe", "sent"} /\ UNCHANGED <<order, mode>>
    BY <1>4 DEF Settles
  <2>3. /\ \A e \in Endpoint \ {Probed} : rows'[e] = rows[e]
        /\ rows'[Probed] = status
    BY <2>1, <2>2, ProbedType DEF RowOf, Working, Placed, Row
  <2>4. todo \in Seq(Endpoint) /\ todo # <<>> /\ todo' = Tail(todo)
    BY <2>1, <2>2 DEF Working, Placed, RowOf
  <2>5. status # None
    BY CacheAssumption
  <2>6. \A e \in Endpoint : e \in Range(order') <=> rows'[e] # None \/ e \in Range(todo')
    BY <2>2, <2>3, <2>4, <2>5, RangeOfTail DEF Rowed, Probed
  <2>7. step' = "report" => todo' = <<>>
    BY <2>1 DEF RowOf
  <2>8. \A e \in Endpoint : rows'[e] # None => Honest(e, rows'[e])
    BY <2>1, <2>2, <2>3 DEF Rowed
  <2>9. \A e, s : Honest(e, s) = Honest(e, s)'
    BY <2>2 DEF Honest, Unasked
  <2>10. QED
    BY <2>6, <2>7, <2>8, <2>9 DEF Rowed
<1>5. QED
  BY <1>1, <1>2, <1>3, <1>4, Outcomes DEF Outcome

(* A live report without a hard failure hides none among the statuses it   *)
(* forgives, in whatever order the registry has its endpoints, whatever    *)
(* was answered, and whatever other processes did to the cache.            *)
THEOREM NothingIsHidden == Spec => []NoFailureHidden
<1>1. Init => Rowed
  BY DEF Init, Rowed
<1>2. Working /\ Rowed /\ [Next]_vars => Rowed'
  BY RowedStep
<1>3. Working /\ Rowed => NoFailureHidden
  <2> SUFFICES ASSUME Working, Rowed, step = "report", mode # "cache_only",
                      HardFailures(rows) = {}
               PROVE  NoFailureHidden
    BY DEF NoFailureHidden
  <2>1. Range(todo) = {}
    BY DEF Rowed, Range
  <2>2. ASSUME NEW e \in Endpoint, rows[e] # None, Registry[e].required,
               Registry[e].kind = "http", Registry[e].enabled, Registry[e].symbol,
               Registry[e].deep => mode = "deep", Registry[e].credential # "lacking"
        PROVE  rows[e] = "ok" \/ (rows[e] = "skipped" /\ Registry[e].needs # "none")
    <3>1. Unasked(e) = "open"
      BY <2>2 DEF Unasked, Working, Shared, Modes
    <3>2. rows[e] \in SoftStatuses
      BY <2>2 DEF HardFailures
    <3>3. QED
      BY <2>2, <3>1, <3>2 DEF Rowed, Honest
  <2>3. ASSUME NEW e \in Prerequisite, e \in Range(order)
        PROVE  rows[e] = "ok" \/ (rows[e] = "skipped" /\ Registry[e].needs # "none")
    <3>1. e \in Endpoint /\ rows[e] # None
      BY <2>1, <2>3, RegistryAssumption DEF Prerequisite, Rowed
    <3>2. /\ Registry[e].required /\ Registry[e].kind = "http" /\ Registry[e].enabled
          /\ Registry[e].symbol /\ ~Registry[e].deep /\ Registry[e].credential = "none"
      BY <2>3, LookupsProbed DEF Prerequisite
    <3>3. QED
      BY <2>2, <3>1, <3>2
  <2>4. ASSUME NEW e \in Endpoint, rows[e] # None
        PROVE  /\ Registry[e].needs # "none" => Tickers \in Range(order)
               /\ Registry[e].needs = "filing" => Submissions \in Range(order)
    <3>1. e \in Range(order) /\ order \in Orders
      BY <2>4 DEF Rowed, Working, Shared
    <3>2. QED
      BY <3>1, LookupsProbed
  <2>5. Tickers \in Range(order) => rows[Tickers] = "ok"
    BY <2>3, LookupsProbed DEF Prerequisite
  <2>6. Submissions \in Range(order) => rows[Submissions] \in {"ok", "skipped"}
    BY <2>3 DEF Prerequisite
  <2>7. QED
    BY <2>2, <2>4, <2>5, <2>6 DEF NoFailureHidden
<1>4. QED
  BY <1>1, <1>2, <1>3, TypeCorrect, PTL DEF Spec
=============================================================================
