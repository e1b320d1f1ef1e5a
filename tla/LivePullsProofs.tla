-------------------------- MODULE LivePullsProofs --------------------------
(***************************************************************************)
(* Proofs about LivePulls.  Every step of a run has one of a few shapes    *)
(* (StepShape): a leg goes on, a leg ends, a feed is reused, the pull      *)
(* raises, is kept, or the run is assessed.  The invariants are proved     *)
(* about the shapes.                                                       *)
(***************************************************************************)
EXTENDS LivePulls, SequenceTheorems, TLAPS

Blames == {"lost", "session", "quiet"}

(* f is what the leg has after a reply, b what the reply is blamed for.    *)
Noted(f, b) ==
  /\ f \in Feed /\ feed.issues \subseteq f.issues
  /\ b \in SUBSET Blames /\ amiss' = amiss \union b
  /\ "lost" \in b => f.issues # {}
  /\ b \subseteq {"quiet"} => f.issues = feed.issues

GoesOn(f) ==
  /\ leg \in WalkingLeg /\ (leg \in Shared => memoFor[leg] = None)
  /\ feed' = f
  /\ leg' = leg \/ (leg = "political" /\ leg' = "past_political")
  /\ order' \in Seq(Provider) /\ tried' \in Nat
  /\ releases' \in [known : BOOLEAN, count : Nat]
  /\ UNCHANGED pullVars /\ UNCHANGED runVars /\ UNCHANGED healthVars

PlainLeg == Leg \ (Shared \union {"past_political", "compute", "health", "done"})

Ends(f) ==
  /\ \/ leg \in Shared \ {"political"} /\ memoFor[leg] = None /\ Memoise(leg, f)
     \/ leg = "past_political" /\ Memoise("political", f)
     \/ leg \in PlainLeg /\ UNCHANGED <<memo, memoFor, used>>
  /\ AddToPull(f)
  /\ Enter(After[leg], Current)
  /\ UNCHANGED releases /\ UNCHANGED runVars /\ UNCHANGED healthVars

Kept1 == \E scores, raises \in BOOLEAN : Compute(scores, raises)

Shape ==
  \/ \E f, b : Noted(f, b) /\ (GoesOn(f) \/ Ends(f))
  \/ ReuseFeed
  \/ leg \in Leg \ {"health", "done"} /\ PullRaises
  \/ Kept1
  \/ AssessRunHealth

(* Where a run is: tickers are left until its health is assessed, each     *)
(* once, and a leg that has not asked anyone has nothing.                  *)
LoopInv ==
  /\ leg \in {"health", "done"} <=> todo = <<>>
  /\ leg \in {"health", "done"} => pull = NoPull
  /\ leg = "done" <=> status # "running"
  /\ leg \notin WalkingLeg \union {"past_political"} => feed = NoFeed
  /\ leg \in Shared /\ memoFor[leg] # None => feed = NoFeed
  /\ leg = "past_political" => memoFor["political"] = None
  /\ \A i, j \in 1..Len(todo) : todo[i] = todo[j] => i = j
  /\ \A i \in 1..Len(todo) : todo[i] \notin kept.tickers

Base == TypeOK /\ LoopInv

-----------------------------------------------------------------------------
(* The chain of any leg is a sequence of providers, also the promoted one. *)
LEMMA ChainType ==
  ASSUME config \in Configs, NEW l, NEW k
  PROVE  Chain(l, k) \in Seq(Provider)
<1>1. config \in Config
  BY ConfigsAssumption
<1>2. config.order \in [ChainName -> Seq(Provider)]
  BY <1>1 DEF Config
<1>3. NewsOrder(k) \in Seq(Provider)
  <2> DEFINE news == config.order["news"]
             At == {i \in DOMAIN news : news[i] = "alpha_vantage"}
             i == CHOOSE i \in At : TRUE
  <2>1. news \in Seq(Provider)
    BY <1>2 DEF ChainName
  <2>2. SUFFICES ASSUME At # {}
        PROVE  <<"alpha_vantage">> \o SubSeq(news, 1, i - 1)
                 \o SubSeq(news, i + 1, Len(news)) \in Seq(Provider)
    BY <2>1 DEF NewsOrder
  <2>3. "alpha_vantage" \in Provider
    BY <2>1, <2>2
  <2>4. i \in At
    BY <2>2
  <2>5. i \in 1..Len(news)
    BY <2>1, <2>4
  <2> HIDE DEF i, news
  <2>6. SubSeq(news, 1, i - 1) \in Seq(Provider)
    BY <2>1, <2>5, SubSeqProperties
  <2>7. SubSeq(news, i + 1, Len(news)) \in Seq(Provider)
    BY <2>1, <2>5, SubSeqProperties
  <2> QED
    BY <2>3, <2>6, <2>7, ConcatProperties DEF news
<1> QED
  BY <1>2, <1>3 DEF Chain, ChainName

(* The reply to a request, put on what the leg has.                        *)
LEMMA HeardType ==
  ASSUME TypeOK, order # <<>>, NEW l \in WalkingLeg, NEW reply \in Reply
  PROVE  Heard(l, reply) \in Feed
<1>1. Asked \in Provider
  BY HeadTailProperties DEF TypeOK, Asked
<1>2. Severity(reply) \subseteq Severities
  BY DEF Severity, Severities
<1> QED
  BY <1>1, <1>2 DEF TypeOK, Heard, Feed

(* ... and what it is blamed for.                                          *)
LEMMA BlameShows ==
  ASSUME TypeOK, NEW l \in WalkingLeg, NEW reply \in Reply \ {"fault"},
         order # <<>>, Blamed(Blame(l, reply))
  PROVE  Noted(Heard(l, reply), Blame(l, reply))
<1>1. Blame(l, reply) \in SUBSET Blames
  BY DEF Blame, Blames
<1>2. ASSUME "lost" \in Blame(l, reply) PROVE Heard(l, reply).issues # {}
  <2>1. ~Quiet(l, reply) /\ reply \notin {"data", "none"} \union Entitlement
    BY <1>2 DEF Blame
  <2>2. Severity(reply) # {}
    BY <2>1 DEF Reply, Answers, Refusals, Unreached, Unusable, Severity
  <2> QED
    BY <2>1, <2>2 DEF Heard
<1>3. ASSUME Blame(l, reply) \subseteq {"quiet"}
      PROVE  Heard(l, reply).issues = feed.issues
  <2>1. CASE Quiet(l, reply)
    BY <2>1 DEF Heard
  <2>2. CASE ~Quiet(l, reply)
    <3>1. reply \in {"data", "none"} \union Entitlement
      BY <1>3, <2>2 DEF Blame
    <3>2. Severity(reply) = {}
      BY <3>1 DEF Severity, Unreached, Unusable, Entitlement
    <3> QED
      BY <2>2, <3>2 DEF Heard
  <2> QED
    BY <2>1, <2>2
<1>4. feed.issues \subseteq Heard(l, reply).issues
  BY DEF Heard
<1> QED
  BY <1>1, <1>2, <1>3, <1>4, HeardType DEF Noted, Blamed

LEMMA WalkingLegs ==
  WalkingLeg = {"options", "prices", "short_interest", "calendar", "readings",
                "earnings", "news", "analyst", "political", "retail", "insider"}
BY DEF WalkingLeg, Wired

(* A request: the pull raises, the leg ends, or it goes on.                *)
LEMMA WalkShape ==
  ASSUME Base, NEW l \in WalkingLeg, NEW reply \in Reply,
         NEW done, NEW over, Walk(l, reply, done, over)
  PROVE  Shape
<1> DEFINE f == Heard(l, reply)
           b == Blame(l, reply)
<1>1. /\ leg = l /\ leg \in WalkingLeg /\ order # <<>>
      /\ leg \in Shared => memoFor[leg] = None
  BY DEF Walk, Asking
<1>2. CASE reply = "fault"
  <2>1. leg \in Leg \ {"health", "done"}
    BY <1>1, WalkingLegs DEF Leg
  <2> QED
    BY <1>2, <2>1 DEF Walk, Shape
<1>3. CASE reply # "fault"
  <2>1. Noted(f, b)
    BY <1>1, <1>3, BlameShows DEF Walk, Base
  <2>2. UNCHANGED releases /\ UNCHANGED runVars /\ UNCHANGED healthVars
    BY <1>3 DEF Walk
  <2>3. releases' \in [known : BOOLEAN, count : Nat]
    BY <2>2 DEF Base, TypeOK
  <2>4. CASE done
    <3>1. EndChain(f)
      BY <1>3, <2>4 DEF Walk
    <3>2. CASE leg = "political"
      <4>1. GoesOn(f)
        BY <1>1, <2>2, <2>3, <3>1, <3>2 DEF EndChain, GoesOn
      <4> QED
        BY <2>1, <4>1 DEF Shape
    <3>3. CASE leg # "political"
      <4>1. EndLeg(f)
        BY <3>1, <3>3 DEF EndChain
      <4>2. CASE leg \in Shared
        BY <1>1, <2>1, <2>2, <3>3, <4>1, <4>2 DEF EndLeg, Ends, Shape
      <4>3. CASE leg \notin Shared
        <5>1. leg \in PlainLeg
          BY <1>1, <4>3, WalkingLegs DEF PlainLeg, Leg
        <5> QED
          BY <2>1, <2>2, <4>1, <4>3, <5>1 DEF EndLeg, Ends, Shape
      <4> QED
        BY <4>2, <4>3
    <3> QED
      BY <3>2, <3>3
  <2>5. CASE ~done
    <3>1. NextProvider(f) \/ AskAgain(f)
      BY <1>3, <2>5 DEF Walk
    <3>2. order \in Seq(Provider) /\ tried \in Nat
      BY DEF Base, TypeOK
    <3>3. Tail(order) \in Seq(Provider)
      BY <1>1, <3>2
    <3>4. order' \in Seq(Provider) /\ tried' \in Nat
      BY <3>1, <3>2, <3>3 DEF NextProvider, AskAgain
    <3>5. feed' = f /\ leg' = leg /\ UNCHANGED pullVars
      BY <3>1 DEF NextProvider, AskAgain
    <3>6. GoesOn(f)
      BY <1>1, <2>2, <2>3, <3>4, <3>5 DEF GoesOn
    <3> QED
      BY <2>1, <3>6 DEF Shape
  <2> QED
    BY <2>4, <2>5
<1> QED
  BY <1>2, <1>3

LEMMA StepShape ==
  ASSUME Base, Next
  PROVE  Shape
<1>1. ASSUME NEW reply \in Reply,
             \/ PullOptionChain(reply) \/ PriceBars(reply) \/ ShortBorrow(reply)
             \/ MacroCalendar(reply) \/ MacroReadings(reply)
             \/ CatalystCalendar(reply) \/ NewsBatch(reply)
             \/ AnalystSignals(reply) \/ PoliticalTrades(reply)
             \/ RetailMomentum(reply) \/ InsiderTransactions(reply)
      PROVE  Shape
  <2>1. \E l \in WalkingLeg : \E done, over : Walk(l, reply, done, over)
    BY <1>1, WalkingLegs
    DEF PullOptionChain, PriceBars, ShortBorrow, MacroCalendar, MacroReadings,
        CatalystCalendar, NewsBatch, AnalystSignals, PoliticalTrades,
        RetailMomentum, InsiderTransactions
  <2> QED
    BY <2>1, WalkShape
<1>2. ASSUME NEW reply \in Reply, StoredOptionSeries(reply) PROVE Shape
  <2> DEFINE f == [NoFeed EXCEPT !.issues =
                     IF config.stored THEN {} ELSE {"degraded"}]
             b == IF config.stored THEN {} ELSE {"lost"}
  <2>1. leg = "baselines" /\ leg \in PlainLeg /\ leg \notin WalkingLeg
    BY <1>2, WalkingLegs DEF StoredOptionSeries, PlainLeg, Leg, Shared
  <2>2. CASE reply = "fault" /\ config.stored
    BY <1>2, <2>1, <2>2 DEF StoredOptionSeries, Shape, Leg
  <2>3. CASE ~(reply = "fault" /\ config.stored)
    <3>1. feed = NoFeed
      BY <2>1 DEF Base, LoopInv
    <3>2. Noted(f, b)
      BY <1>2, <2>3, <3>1
      DEF StoredOptionSeries, Noted, NoFeed, Feed, Blames, Blamed, Severities
    <3>3. EndLeg(f) /\ leg \notin Shared
      BY <1>2, <2>1, <2>3 DEF StoredOptionSeries, Shared
    <3>4. UNCHANGED releases /\ UNCHANGED runVars /\ UNCHANGED healthVars
      BY <1>2, <2>3 DEF StoredOptionSeries
    <3>5. Ends(f)
      BY <2>1, <3>3, <3>4 DEF EndLeg, Ends
    <3> QED
      BY <3>2, <3>5 DEF Shape
  <2> QED
    BY <2>2, <2>3
<1>3. ASSUME NEW reply \in Reply, FredSeriesReleases(reply) PROVE Shape
  <2>1. /\ leg \in {"calendar", "readings"} /\ memoFor[leg] = None
        /\ order # <<>> /\ reply # "unreadable"
    BY <1>3 DEF FredSeriesReleases
  <2>2. CASE reply = "fault"
    BY <1>3, <2>1, <2>2 DEF FredSeriesReleases, Shape, Leg
  <2>3. CASE reply # "fault"
    <3> DEFINE g == IF reply = "none" THEN "unreadable" ELSE reply
               b == IF reply = "none" THEN {"lost"} ELSE Blame(leg, reply)
    <3>1. leg \in WalkingLeg /\ "fred" \in Provider
      BY <1>3, <2>1, WalkingLegs, HeadTailProperties
      DEF FredSeriesReleases, Base, TypeOK, Asked
    <3>2. feed' \in Feed /\ feed'.issues = feed.issues \union Severity(g)
      BY <1>3, <2>3, <3>1
      DEF FredSeriesReleases, Base, TypeOK, Feed, Severity, Severities
    <3>3. /\ b \in SUBSET Blames
          /\ "lost" \in b => Severity(g) # {}
          /\ b \subseteq {"quiet"} => Severity(g) = {}
      <4>1. CASE reply = "none"
        BY <4>1 DEF Blames, Severity, Unreached, Unusable
      <4>2. CASE reply \in {"data"} \union Entitlement
        BY <4>2 DEF Blame, Blames, Severity, Unreached, Unusable, Entitlement
      <4>3. CASE reply \in Unreached \union Unusable
        <5>1. ~Quiet(leg, reply) /\ leg # "short_interest"
          BY <2>1 DEF Quiet
        <5>2. b = {"lost"}
          BY <4>3, <5>1 DEF Blame, Unreached, Unusable, Entitlement
        <5>3. Severity(g) # {}
          BY <4>3 DEF Severity, Unreached, Unusable
        <5> QED
          BY <5>2, <5>3 DEF Blames
      <4> QED
        BY <2>1, <2>3, <4>1, <4>2, <4>3 DEF Reply, Answers, Refusals
    <3>4. amiss' = amiss \union b
      BY <1>3, <2>3 DEF FredSeriesReleases, Blamed
    <3>5. Noted(feed', b)
      BY <3>2, <3>3, <3>4 DEF Noted
    <3>6. /\ order' = order /\ leg' = leg /\ UNCHANGED pullVars
          /\ UNCHANGED runVars /\ UNCHANGED healthVars
      BY <1>3, <2>3 DEF FredSeriesReleases
    <3>7. tried' \in Nat /\ releases' \in [known : BOOLEAN, count : Nat]
      <4>1. tried \in Nat /\ releases.count \in Nat
        BY DEF Base, TypeOK
      <4>2. tried' = IF tried + 1 = Series THEN 0 ELSE tried + 1
        BY <1>3, <2>3 DEF FredSeriesReleases
      <4>3. releases' = [known |-> tried + 1 = Series,
                         count |-> releases.count + IF reply = "data" THEN 1 ELSE 0]
        BY <1>3, <2>3 DEF FredSeriesReleases
      <4>4. (tried + 1 = Series) \in BOOLEAN
        OBVIOUS
      <4>5. releases.count + (IF reply = "data" THEN 1 ELSE 0) \in Nat
        BY <4>1
      <4> QED
        BY <4>1, <4>2, <4>3, <4>4, <4>5
    <3>8. GoesOn(feed')
      BY <2>1, <3>1, <3>6, <3>7 DEF GoesOn, Base, TypeOK
    <3> QED
      BY <3>5, <3>8 DEF Shape
  <2> QED
    BY <2>2, <2>3
<1>4. ASSUME NEW reply \in Reply, CachedPoliticalTrades(reply) PROVE Shape
  <2>1. leg = "past_political" /\ reply \in {"data", "unreadable", "fault"}
    BY <1>4 DEF CachedPoliticalTrades
  <2>2. CASE reply = "fault"
    BY <1>4, <2>1, <2>2 DEF CachedPoliticalTrades, Shape, Leg
  <2>3. CASE reply # "fault"
    <3> DEFINE f == [feed EXCEPT !.issues = @ \union Severity(reply)]
               b == Blame(leg, reply)
    <3>1. Noted(f, b)
      BY <1>4, <2>1, <2>3
      DEF CachedPoliticalTrades, Noted, Base, TypeOK, Feed, Blamed, Blame,
          Blames, Severity, Severities, Unreached, Unusable, Entitlement, Quiet
    <3>2. Ends(f)
      BY <1>4, <2>1, <2>3 DEF CachedPoliticalTrades, Ends, After
    <3> QED
      BY <3>1, <3>2 DEF Shape
  <2> QED
    BY <2>2, <2>3
<1>5. ASSUME PassOver PROVE Shape
  <2>1. /\ leg \in WalkingLeg /\ order # <<>>
        /\ leg \in Shared => memoFor[leg] = None
        /\ NextProvider(feed)
        /\ UNCHANGED releases /\ UNCHANGED amiss
        /\ UNCHANGED runVars /\ UNCHANGED healthVars
    BY <1>5 DEF PassOver
  <2>2. Tail(order) \in Seq(Provider)
    BY <2>1, HeadTailProperties DEF Base, TypeOK
  <2>3. GoesOn(feed)
    BY <2>1, <2>2 DEF NextProvider, GoesOn, Base, TypeOK
  <2>4. Noted(feed, {})
    BY <2>1 DEF Noted, Base, TypeOK
  <2> QED
    BY <2>3, <2>4 DEF Shape
<1>6. ASSUME ChainEnds PROVE Shape
  <2>1. leg \in WalkingLeg /\ (leg \in Shared => memoFor[leg] = None)
    BY <1>6 DEF ChainEnds
  <2>2. CASE leg = "options"
    BY <1>6, <2>2 DEF ChainEnds, Shape, Leg
  <2>3. CASE leg # "options"
    <3>1. /\ EndChain(feed) /\ UNCHANGED releases /\ UNCHANGED amiss
          /\ UNCHANGED runVars /\ UNCHANGED healthVars
      BY <1>6, <2>3 DEF ChainEnds
    <3>2. Noted(feed, {})
      BY <3>1 DEF Noted, Base, TypeOK
    <3>3. CASE leg = "political"
      <4>1. GoesOn(feed)
        BY <2>1, <3>1, <3>3 DEF EndChain, GoesOn, Base, TypeOK
      <4> QED
        BY <3>2, <4>1 DEF Shape
    <3>4. CASE leg # "political"
      <4>1. EndLeg(feed)
        BY <3>1, <3>4 DEF EndChain
      <4>2. leg \in PlainLeg \union (Shared \ {"political"})
        BY <2>1, <3>4, WalkingLegs DEF PlainLeg, Leg
      <4>3. Ends(feed)
        BY <2>1, <3>1, <4>1, <4>2 DEF EndLeg, Ends, PlainLeg
      <4> QED
        BY <3>2, <4>3 DEF Shape
    <3> QED
      BY <3>3, <3>4
  <2> QED
    BY <2>2, <2>3
<1>7. ASSUME ComputeRaises PROVE Shape
  BY <1>7 DEF ComputeRaises, Shape, Leg
<1> QED
  BY <1>1, <1>2, <1>3, <1>4, <1>5, <1>6, <1>7 DEF Next, Shape, Kept1

-----------------------------------------------------------------------------
(* The next ticker, or the assessment if there is none.                    *)
LEMMA NextTickerType ==
  ASSUME Base, todo # <<>>, NextTicker, UNCHANGED config
  PROVE  /\ todo' \in Seq(Ticker) /\ Current \in Ticker
         /\ pull' = NoPull /\ feed' = NoFeed
         /\ leg' \in {"options", "health"} /\ (leg' = "health" <=> todo' = <<>>)
         /\ order' \in Seq(Provider) /\ tried' \in Nat
<1>1. todo' \in Seq(Ticker) /\ Current \in Ticker /\ todo' = Tail(todo)
  BY HeadTailProperties DEF NextTicker, Current, Base, TypeOK
<1>2. CASE Tail(todo) = <<>>
  BY <1>1, <1>2 DEF NextTicker
<1>3. CASE Tail(todo) # <<>>
  <2>1. Enter("options", Head(Tail(todo)))
    BY <1>3 DEF NextTicker
  <2>2. order' \in Seq(Provider)
    BY <2>1, ChainType DEF Enter, Base, TypeOK
  <2> QED
    BY <1>1, <1>3, <2>1, <2>2 DEF NextTicker, Enter
<1> QED
  BY <1>2, <1>3

LEMMA MemoiseType ==
  ASSUME Base, Current \in Ticker, NEW s \in Shared, NEW f \in Feed, Memoise(s, f)
  PROVE  /\ memo' \in [Shared -> Feed]
         /\ memoFor' \in [Shared -> Ticker \union {None}]
         /\ used' \in [Ticker -> [Shared -> Ticker \union {None}]]
BY DEF Memoise, Base, TypeOK

(* What an ended leg leaves.                                               *)
LEMMA EnterType ==
  ASSUME Base, NEW f \in Feed, AddToPull(f), NEW l \in Leg, Enter(l, Current)
  PROVE  /\ pull' \in Pull /\ leg' \in Leg /\ feed' \in Feed
         /\ order' \in Seq(Provider) /\ tried' \in Nat
<1>1. pull' \in Pull
  BY DEF AddToPull, Base, TypeOK, Pull, Feed
<1>2. order' \in Seq(Provider)
  BY ChainType DEF Enter, Base, TypeOK
<1> QED
  BY <1>1, <1>2 DEF Enter, NoFeed, Feed

LEMMA TypeStep ==
  ASSUME Base, Shape
  PROVE  TypeOK'
<1> USE DEF Base
<1>1. ASSUME NEW f, NEW b, Noted(f, b), GoesOn(f) PROVE TypeOK'
  <2>1. leg' \in Leg
    BY <1>1 DEF GoesOn, TypeOK, Leg
  <2>2. amiss' \subseteq {"lost", "session", "quiet", "fault"}
    BY <1>1 DEF Noted, Blames, TypeOK
  <2> QED
    BY <1>1, <2>1, <2>2
    DEF Noted, GoesOn, TypeOK, pullVars, runVars, healthVars
<1>2. ASSUME NEW f, NEW b, Noted(f, b), Ends(f) PROVE TypeOK'
  <2>1. f \in Feed /\ amiss' \subseteq {"lost", "session", "quiet", "fault"}
    BY <1>2 DEF Noted, Blames, TypeOK
  <2>2. leg \notin {"compute", "health", "done"} /\ After[leg] \in Leg
    BY <1>2 DEF Ends, PlainLeg, Shared, After, Leg
  <2>3. Current \in Ticker
    BY <2>2, HeadTailProperties DEF TypeOK, LoopInv, Current
  <2>4. /\ pull' \in Pull /\ leg' \in Leg /\ feed' \in Feed
        /\ order' \in Seq(Provider) /\ tried' \in Nat
    BY <1>2, <2>1, <2>2, EnterType DEF Ends
  <2>5. /\ memo' \in [Shared -> Feed]
        /\ memoFor' \in [Shared -> Ticker \union {None}]
        /\ used' \in [Ticker -> [Shared -> Ticker \union {None}]]
    <3>1. CASE leg \in Shared /\ Memoise(leg, f)
      BY <2>1, <2>3, <3>1, MemoiseType
    <3>2. CASE Memoise("political", f)
      BY <2>1, <2>3, <3>2, MemoiseType DEF Shared
    <3>3. CASE UNCHANGED <<memo, memoFor, used>>
      BY <3>3 DEF TypeOK
    <3> QED
      BY <1>2, <3>1, <3>2, <3>3 DEF Ends
  <2> QED
    BY <1>2, <2>1, <2>4, <2>5 DEF Ends, TypeOK, runVars, healthVars
<1>3. ASSUME ReuseFeed PROVE TypeOK'
  <2>1. leg \in Shared /\ memo[leg] \in Feed /\ memoFor[leg] \in Ticker \union {None}
    BY <1>3 DEF ReuseFeed, TypeOK
  <2>2. Current \in Ticker
    BY <2>1, HeadTailProperties DEF TypeOK, LoopInv, Current, Shared
  <2>3. (IF leg = "political" THEN "retail" ELSE After[leg]) \in Leg
    BY <2>1 DEF Shared, After, Leg
  <2>4. /\ pull' \in Pull /\ leg' \in Leg /\ feed' \in Feed
        /\ order' \in Seq(Provider) /\ tried' \in Nat
    BY <1>3, <2>1, <2>3, EnterType DEF ReuseFeed
  <2>5. used' \in [Ticker -> [Shared -> Ticker \union {None}]]
    BY <1>3, <2>1, <2>2 DEF ReuseFeed, TypeOK
  <2> QED
    BY <1>3, <2>4, <2>5 DEF ReuseFeed, TypeOK, runVars, healthVars
<1>4. ASSUME leg \in Leg \ {"health", "done"}, PullRaises PROVE TypeOK'
  <2>1. todo # <<>>
    BY <1>4 DEF LoopInv
  <2>2. releases' \in [known : BOOLEAN, count : Nat]
    BY <1>4 DEF PullRaises, TypeOK
  <2>3. pull' \in Pull /\ feed' \in Feed /\ leg' \in Leg
    BY <1>4, <2>1, NextTickerType
    DEF PullRaises, healthVars, NoPull, Pull, NoFeed, Feed, Leg
  <2> QED
    BY <1>4, <2>1, <2>2, <2>3, NextTickerType
    DEF PullRaises, TypeOK, healthVars, Blamed
<1>5. ASSUME NEW scores \in BOOLEAN, NEW raises \in BOOLEAN, Compute(scores, raises)
      PROVE  TypeOK'
  <2>1. todo # <<>>
    BY <1>5 DEF Compute, LoopInv
  <2>2. Current \in Ticker
    BY <1>5, <2>1, NextTickerType DEF Compute, healthVars
  <2>3. kept' \in Kept
    BY <1>5, <2>2 DEF Compute, TypeOK, Kept, Pull
  <2>4. pull' \in Pull /\ feed' \in Feed /\ leg' \in Leg
    BY <1>5, <2>1, NextTickerType
    DEF Compute, healthVars, NoPull, Pull, NoFeed, Feed, Leg
  <2>5. /\ todo' \in Seq(Ticker) /\ order' \in Seq(Provider) /\ tried' \in Nat
    BY <1>5, <2>1, NextTickerType DEF Compute, healthVars
  <2>6. /\ failed' \subseteq Ticker /\ scored' \subseteq Ticker
        /\ amiss' \subseteq {"lost", "session", "quiet", "fault"}
    BY <1>5, <2>2 DEF Compute, TypeOK, Blamed
  <2> QED
    BY <1>5, <2>3, <2>4, <2>5, <2>6 DEF Compute, TypeOK, healthVars
<1>6. ASSUME AssessRunHealth PROVE TypeOK'
  <2>1. \A k \in kept.tickers : kept.issues[k] \subseteq Severities
    BY DEF TypeOK, Kept
  <2>2. HealthLines \subseteq Line
    BY <2>1 DEF HealthLines, Line, Severities
  <2> QED
    BY <1>6, <2>2
    DEF AssessRunHealth, TypeOK, pullVars, runVars, Leg
<1> QED
  BY <1>1, <1>2, <1>3, <1>4, <1>5, <1>6 DEF Shape, Kept1

(* The tickers that are left stay distinct, and apart from those kept.     *)
LEMMA TailDistinct ==
  ASSUME Base, todo # <<>>, todo' = Tail(todo),
         kept'.tickers \subseteq kept.tickers \union {Current}
  PROVE  /\ \A i, j \in 1..Len(todo') : todo'[i] = todo'[j] => i = j
         /\ \A i \in 1..Len(todo') : todo'[i] \notin kept'.tickers
<1>1. todo \in Seq(Ticker) /\ Len(todo) \in Nat \ {0} /\ Current = todo[1]
  BY DEF Base, TypeOK, Current
<1>2. Len(todo') = Len(todo) - 1 /\ \A i \in 1..Len(todo') : todo'[i] = todo[i + 1]
  BY <1>1, HeadTailProperties
<1>3. \A i \in 1..Len(todo') : i + 1 \in 1..Len(todo) /\ i + 1 # 1
  BY <1>1, <1>2
<1>4. ASSUME NEW i \in 1..Len(todo'), NEW j \in 1..Len(todo'), todo'[i] = todo'[j]
      PROVE  i = j
  <2>1. i + 1 = j + 1
    BY <1>2, <1>3, <1>4 DEF Base, LoopInv
  <2> QED
    BY <1>1, <1>2, <2>1
<1>5. ASSUME NEW i \in 1..Len(todo') PROVE todo'[i] \notin kept'.tickers
  <2>1. todo'[i] \notin kept.tickers
    BY <1>2, <1>3, <1>5 DEF Base, LoopInv
  <2>2. todo'[i] # Current
    <3>1. 1 \in 1..Len(todo)
      BY <1>1
    <3> QED
      BY <1>1, <1>2, <1>3, <1>5, <3>1 DEF Base, LoopInv
  <2> QED
    BY <2>1, <2>2
<1> QED
  BY <1>4, <1>5

LEMMA LoopStep ==
  ASSUME Base, Shape
  PROVE  LoopInv'
<1> USE DEF Base
<1>1. ASSUME NEW f, NEW b, Noted(f, b), GoesOn(f) PROVE LoopInv'
  <2>1. /\ leg \in WalkingLeg /\ leg' \in WalkingLeg \union {"past_political"}
        /\ leg' = leg \/ (leg = "political" /\ leg' = "past_political")
        /\ leg \in Shared => memoFor[leg] = None
        /\ UNCHANGED <<memoFor, todo, kept, status>>
    BY <1>1 DEF GoesOn, pullVars, runVars, healthVars
  <2>2. leg \notin {"health", "done"} /\ leg' \notin {"health", "done"}
    BY <2>1, WalkingLegs
  <2> QED
    BY <2>1, <2>2 DEF LoopInv, Shared
<1>2. ASSUME NEW f, NEW b, Noted(f, b), Ends(f) PROVE LoopInv'
  <2>1. /\ leg' = After[leg] /\ feed' = NoFeed
        /\ UNCHANGED <<todo, kept, status>>
    BY <1>2 DEF Ends, Enter, runVars, healthVars
  <2>2. leg \notin {"health", "done"} /\ leg' \notin {"health", "done", "past_political"}
    BY <1>2, <2>1 DEF Ends, PlainLeg, Shared, After, Leg
  <2> QED
    BY <2>1, <2>2 DEF LoopInv
<1>3. ASSUME ReuseFeed PROVE LoopInv'
  <2>1. /\ leg \in Shared /\ feed' = NoFeed
        /\ leg' = IF leg = "political" THEN "retail" ELSE After[leg]
        /\ UNCHANGED <<todo, kept, status>>
    BY <1>3 DEF ReuseFeed, Enter, runVars, healthVars
  <2>2. leg \notin {"health", "done"} /\ leg' \notin {"health", "done", "past_political"}
    BY <2>1 DEF Shared, After
  <2> QED
    BY <2>1, <2>2 DEF LoopInv
<1>4. ASSUME leg \in Leg \ {"health", "done"}, PullRaises PROVE LoopInv'
  <2>1. todo # <<>> /\ todo' = Tail(todo) /\ UNCHANGED <<kept, status>>
    BY <1>4 DEF LoopInv, PullRaises, NextTicker, healthVars
  <2>2. /\ leg' \in {"options", "health"} /\ (leg' = "health" <=> todo' = <<>>)
        /\ pull' = NoPull /\ feed' = NoFeed
    BY <1>4, <2>1, NextTickerType DEF PullRaises, healthVars
  <2> QED
    BY <1>4, <2>1, <2>2, TailDistinct DEF LoopInv
<1>5. ASSUME NEW scores \in BOOLEAN, NEW raises \in BOOLEAN, Compute(scores, raises)
      PROVE  LoopInv'
  <2>1. todo # <<>> /\ todo' = Tail(todo) /\ UNCHANGED status
    BY <1>5 DEF LoopInv, Compute, NextTicker, healthVars
  <2>2. /\ leg' \in {"options", "health"} /\ (leg' = "health" <=> todo' = <<>>)
        /\ pull' = NoPull /\ feed' = NoFeed
    BY <1>5, <2>1, NextTickerType DEF Compute, healthVars
  <2>3. kept'.tickers \subseteq kept.tickers \union {Current}
    BY <1>5 DEF Compute
  <2> QED
    BY <1>5, <2>1, <2>2, <2>3, TailDistinct DEF LoopInv, Compute
<1>6. ASSUME AssessRunHealth PROVE LoopInv'
  BY <1>6, WalkingLegs
  DEF AssessRunHealth, LoopInv, pullVars, runVars, Shared
<1> QED
  BY <1>1, <1>2, <1>3, <1>4, <1>5, <1>6 DEF Shape, Kept1

LEMMA BaseInit == Init => Base
<1> SUFFICES ASSUME Init PROVE Base
  OBVIOUS
<1>1. config \in Config /\ todo = config.accepted /\ todo \in Seq(Ticker)
  BY ConfigsAssumption DEF Init, Config
<1>2. order \in Seq(Provider)
  BY ChainType DEF Init
<1>3. leg \in {"options", "health"} /\ (leg = "health" <=> todo = <<>>)
  BY DEF Init
<1>4. NoFeed \in Feed /\ NoPull \in Pull
  BY DEF NoFeed, NoPull, Feed, Pull
<1>5. TypeOK
  BY <1>1, <1>2, <1>3, <1>4 DEF Init, TypeOK, Leg, Kept
<1>6. \A i, j \in 1..Len(todo) : todo[i] = todo[j] => i = j
  BY <1>1 DEF Config, Distinct
<1>7. LoopInv
  BY <1>3, <1>6, WalkingLegs DEF Init, LoopInv, Shared
<1> QED
  BY <1>5, <1>7 DEF Base

LEMMA BaseStep == Base /\ [Next]_vars => Base'
<1> SUFFICES ASSUME Base, [Next]_vars PROVE Base'
  OBVIOUS
<1>1. CASE Next
  BY <1>1, StepShape, TypeStep, LoopStep DEF Base
<1>2. CASE UNCHANGED vars
  BY <1>2 DEF vars, Base, TypeOK, LoopInv
<1> QED
  BY <1>1, <1>2

(* Every reachable state of LivePulls is well typed, for any tickers,      *)
(* providers, configurations and bounds.                                   *)
THEOREM TypeCorrect == Spec => []TypeOK
<1>1. Spec => []Base
  BY BaseInit, BaseStep, PTL DEF Spec
<1> QED
  BY <1>1, PTL DEF Base

-----------------------------------------------------------------------------
(* What went wrong is on record somewhere on the way to the diagnostics,   *)
(* and nothing else is.                                                    *)
ShownInv ==
  /\ "fault" \in amiss <=> failed # {}
  /\ "lost" \in amiss =>
       \/ failed # {} \/ feed.issues # {} \/ pull.issues # {}
       \/ \E k \in kept.tickers : kept.issues[k] # {}
  /\ amiss \subseteq {"quiet"} =>
       /\ feed.issues = {} /\ pull.issues = {}
       /\ \A s \in Shared : memo[s].issues = {}
       /\ \A k \in kept.tickers : kept.issues[k] = {}
  /\ leg = "done" =>
       status = IF HealthLines = {} THEN "succeeded" ELSE "partial"

LEMMA HealthLinesStable ==
  ASSUME UNCHANGED <<config, kept, failed, scored>>
  PROVE  HealthLines' = HealthLines
BY DEF HealthLines, Expected, Lead, Known, Wired, Unscored, Accepted

LEMMA CurrentFresh ==
  ASSUME Base, leg \notin {"health", "done"}
  PROVE  todo # <<>> /\ Current \in Ticker /\ Current \notin kept.tickers
<1>1. todo # <<>>
  BY DEF Base, LoopInv
<1>2. 1 \in 1..Len(todo) /\ Current = todo[1]
  BY <1>1 DEF Base, TypeOK, Current
<1> QED
  BY <1>1, <1>2 DEF Base, TypeOK, LoopInv

LEMMA ShownStep ==
  ASSUME Base, ShownInv, Shape
  PROVE  ShownInv'
<1> USE DEF Base
<1>1. ASSUME NEW f, NEW b, Noted(f, b), GoesOn(f) PROVE ShownInv'
  <2>1. /\ feed' = f /\ leg' # "done"
        /\ UNCHANGED <<pull, memo, kept, failed>>
    BY <1>1, WalkingLegs DEF GoesOn, pullVars, runVars
  <2>2. "fault" \notin b
    BY <1>1 DEF Noted, Blames
  <2> QED
    BY <1>1, <2>1, <2>2 DEF Noted, ShownInv
<1>2. ASSUME NEW f, NEW b, Noted(f, b), Ends(f) PROVE ShownInv'
  <2>1. /\ feed' = NoFeed /\ pull'.issues = pull.issues \union f.issues
        /\ UNCHANGED <<kept, failed>>
    BY <1>2 DEF Ends, Enter, AddToPull, runVars
  <2>2. "fault" \notin b
    BY <1>2 DEF Noted, Blames
  <2>3. leg' # "done"
    BY <1>2 DEF Ends, Enter, PlainLeg, Shared, After, Leg
  <2>4. "lost" \in amiss' =>
          \/ failed' # {} \/ pull'.issues # {}
          \/ \E k \in kept'.tickers : kept'.issues[k] # {}
    BY <1>2, <2>1 DEF Noted, ShownInv
  <2>5. ASSUME amiss' \subseteq {"quiet"}
        PROVE  /\ f.issues = {} /\ pull'.issues = {}
               /\ \A s \in Shared : memo[s].issues = {}
               /\ \A k \in kept'.tickers : kept'.issues[k] = {}
    BY <1>2, <2>1, <2>5 DEF Noted, ShownInv
  <2>6. ASSUME amiss' \subseteq {"quiet"}, NEW s \in Shared
        PROVE  memo'[s].issues = {}
    <3>1. memo' \in [Shared -> {memo[r] : r \in Shared} \union {f}]
      BY <1>2 DEF Ends, Memoise, TypeOK
    <3> QED
      BY <2>5, <2>6, <3>1
  <2> QED
    BY <1>2, <2>1, <2>2, <2>3, <2>4, <2>5, <2>6 DEF Noted, ShownInv, NoFeed
<1>3. ASSUME ReuseFeed PROVE ShownInv'
  <2>1. /\ leg \in Shared /\ feed = NoFeed /\ feed' = NoFeed
        /\ pull'.issues = pull.issues \union memo[leg].issues
        /\ UNCHANGED <<memo, kept, failed, amiss>>
    BY <1>3 DEF ReuseFeed, Enter, AddToPull, runVars, LoopInv
  <2>2. leg' # "done"
    BY <1>3, <2>1 DEF ReuseFeed, Enter, Shared, After
  <2> QED
    BY <2>1, <2>2 DEF ShownInv, NoFeed
<1>4. ASSUME leg \in Leg \ {"health", "done"}, PullRaises PROVE ShownInv'
  <2>1. leg' # "done"
    BY <1>4, NextTickerType DEF PullRaises, healthVars, LoopInv
  <2>2. failed' # {} /\ "fault" \in amiss'
    BY <1>4 DEF PullRaises, Blamed
  <2> QED
    BY <2>1, <2>2 DEF ShownInv
<1>5. ASSUME NEW scores \in BOOLEAN, NEW raises \in BOOLEAN, Compute(scores, raises)
      PROVE  ShownInv'
  <2>1. feed = NoFeed /\ todo # <<>>
    BY <1>5, WalkingLegs DEF Compute, LoopInv
  <2>2. Current \in Ticker /\ leg' # "done" /\ feed' = NoFeed /\ pull' = NoPull
    BY <1>5, <2>1, NextTickerType DEF Compute, healthVars
  <2>3. Current \notin kept.tickers
    BY <1>5, CurrentFresh DEF Compute
  <2>4. kept'.tickers = kept.tickers \union {Current}
    BY <1>5 DEF Compute
  <2>5. /\ kept'.issues[Current] = pull.issues
        /\ \A k \in kept.tickers : kept'.issues[k] = kept.issues[k]
    BY <1>5, <2>2, <2>3 DEF Compute, TypeOK, Kept
  <2>6. "fault" \in amiss' <=> failed' # {}
    BY <1>5 DEF Compute, Blamed, ShownInv
  <2>7. "lost" \in amiss' => "lost" \in amiss
    BY <1>5 DEF Compute, Blamed
  <2>8. UNCHANGED memo /\ failed \subseteq failed' /\ amiss \subseteq amiss'
    BY <1>5 DEF Compute, Blamed
  <2>9. "lost" \in amiss' =>
          failed' # {} \/ \E k \in kept'.tickers : kept'.issues[k] # {}
    BY <2>1, <2>4, <2>5, <2>7, <2>8 DEF ShownInv, NoFeed
  <2>10. ASSUME amiss' \subseteq {"quiet"}
         PROVE  /\ \A s \in Shared : memo'[s].issues = {}
                /\ \A k \in kept'.tickers : kept'.issues[k] = {}
    BY <2>4, <2>5, <2>8, <2>10 DEF ShownInv
  <2> QED
    BY <2>2, <2>6, <2>9, <2>10 DEF ShownInv, NoFeed, NoPull
<1>6. ASSUME AssessRunHealth PROVE ShownInv'
  <2>1. UNCHANGED <<config, feed, pull, memo, kept, failed, scored, amiss>>
    BY <1>6 DEF AssessRunHealth, pullVars, runVars
  <2>2. HealthLines' = HealthLines
    BY <2>1, HealthLinesStable
  <2> QED
    BY <1>6, <2>1, <2>2 DEF AssessRunHealth, ShownInv
<1> QED
  BY <1>1, <1>2, <1>3, <1>4, <1>5, <1>6 DEF Shape, Kept1

LEMMA ShownInvariant == Spec => [](Base /\ ShownInv)
<1>1. Init => Base /\ ShownInv
  <2>1. Init => ShownInv
    BY DEF Init, ShownInv, NoFeed, NoPull
  <2> QED
    BY <2>1, BaseInit
<1>2. Base /\ ShownInv /\ [Next]_vars => (Base /\ ShownInv)'
  <2> SUFFICES ASSUME Base, ShownInv, [Next]_vars PROVE ShownInv'
    BY BaseStep
  <2>1. CASE Next
    BY <2>1, StepShape, ShownStep
  <2>2. CASE UNCHANGED vars
    BY <2>2, HealthLinesStable DEF vars, ShownInv
  <2> QED
    BY <2>1, <2>2
<1> QED
  BY <1>1, <1>2, PTL DEF Spec

(* A run that is done has nothing in its diagnostics exactly if it is      *)
(* complete and no issue was kept.                                         *)
LEMMA HealthLinesEmpty ==
  HealthLines = {} <=> /\ Complete /\ failed = {}
                       /\ \A k \in kept.tickers : kept.issues[k] = {}
<1>1. Unscored = {} /\ failed = {} <=> Accepted \subseteq scored /\ failed = {}
  BY DEF Unscored
<1>2. ASSUME HealthLines = {} PROVE Expected \subseteq kept.answered
  BY <1>2 DEF HealthLines
<1>3. ASSUME Complete, failed = {}, \A k \in kept.tickers : kept.issues[k] = {}
      PROVE  HealthLines = {}
  BY <1>1, <1>3 DEF HealthLines, Complete
<1>4. HealthLines = {} => /\ Unscored = {} /\ failed = {} /\ ~config.warned
                          /\ \A k \in kept.tickers : kept.issues[k] = {}
  BY DEF HealthLines
<1> QED
  BY <1>1, <1>2, <1>3, <1>4 DEF Complete

(* A run that says succeeded lost nothing, whatever the chains, the keys,  *)
(* the tickers and the replies.                                            *)
THEOREM SuccessLostNothing == Spec => []SucceededLostNothing
<1>1. Base /\ ShownInv => SucceededLostNothing
  <2> SUFFICES ASSUME Base, ShownInv, status = "succeeded"
               PROVE  Complete /\ amiss \intersect {"lost", "fault"} = {}
    BY DEF SucceededLostNothing
  <2>1. leg = "done" /\ feed = NoFeed /\ pull = NoPull
    BY WalkingLegs DEF Base, LoopInv
  <2>2. HealthLines = {}
    BY <2>1 DEF ShownInv
  <2> QED
    BY <2>1, <2>2, HealthLinesEmpty DEF ShownInv, NoFeed, NoPull
<1> QED
  BY <1>1, ShownInvariant, PTL

(* A run that lost nothing says so: gates, missing keys, unwired hooks and *)
(* fallbacks leave its status alone.                                       *)
THEOREM HealthSucceeds == Spec => []HealthyRunSucceeds
<1>1. Base /\ ShownInv => HealthyRunSucceeds
  <2> SUFFICES ASSUME Base, ShownInv, leg = "done", Complete,
                      amiss \subseteq {"quiet"}
               PROVE  status = "succeeded"
    BY DEF HealthyRunSucceeds
  <2>1. failed = {} /\ \A k \in kept.tickers : kept.issues[k] = {}
    BY DEF ShownInv
  <2> QED
    BY <2>1, HealthLinesEmpty DEF ShownInv
<1> QED
  BY <1>1, ShownInvariant, PTL

-----------------------------------------------------------------------------
(* The legs after each market-wide one.                                    *)
Past(s) ==
  (IF s = "retail" THEN {"insider", "compute"} ELSE {"retail", "insider", "compute"})
  \union (IF s \in {"calendar", "readings"}
            THEN {"earnings", "news", "analyst", "political", "past_political"}
            ELSE {})
  \union (IF s = "calendar" THEN {"readings"} ELSE {})

Sees(s, k, issues) ==
  /\ memoFor[s] # None /\ used[k][s] = memoFor[s]
  /\ memo[s].issues \subseteq issues

(* A ticker that was kept, or is past a market-wide leg, has the one fetch *)
(* of it, with its issues.                                                 *)
SharedInv ==
  /\ \A s \in Shared, k \in kept.tickers : Sees(s, k, kept.issues[k])
  /\ \A s \in Shared : leg \in Past(s) => Sees(s, Current, pull.issues)

LEMMA SharedStep ==
  ASSUME Base, SharedInv, Shape
  PROVE  SharedInv'
<1> USE DEF Base
<1>1. ASSUME NEW f, NEW b, Noted(f, b), GoesOn(f) PROVE SharedInv'
  <2>1. UNCHANGED <<pull, memo, memoFor, used, kept, todo>>
    BY <1>1 DEF GoesOn, pullVars, runVars
  <2>2. \A s \in Shared : leg' \in Past(s) => leg \in Past(s)
    BY <1>1 DEF GoesOn, Past
  <2> QED
    BY <2>1, <2>2 DEF SharedInv, Sees, Current
<1>2. ASSUME NEW f, NEW b, Noted(f, b), Ends(f) PROVE SharedInv'
  <2>1. /\ leg' = After[leg] /\ pull'.issues = pull.issues \union f.issues
        /\ UNCHANGED <<kept, todo>>
    BY <1>2 DEF Ends, Enter, AddToPull, runVars
  <2>2. leg \notin {"health", "done"}
    BY <1>2 DEF Ends, PlainLeg, Shared
  <2>3. Current \in Ticker /\ Current # None /\ Current' = Current
    BY <2>1, <2>2, CurrentFresh, BoundsAssumption DEF Current
  <2>4. ASSUME NEW m \in Shared, Memoise(m, f), memoFor[m] = None,
               (m = leg /\ m # "political") \/ (m = "political" /\ leg = "past_political")
        PROVE  SharedInv'
    <3>1. kept.tickers = {}
      BY <2>4 DEF SharedInv, Sees
    <3>2. ASSUME NEW s \in Shared, leg' \in Past(s)
          PROVE  Sees(s, Current, pull.issues)' \/ s = m
      <4>1. s = m \/ leg \in Past(s)
        BY <2>1, <2>4, <3>2 DEF After, Past, Shared
      <4>2. ASSUME s # m, Sees(s, Current, pull.issues)
            PROVE  Sees(s, Current, pull.issues)'
        BY <2>1, <2>3, <2>4, <4>2 DEF Memoise, Sees, TypeOK
      <4> QED
        BY <4>1, <4>2 DEF SharedInv
    <3>3. Sees(m, Current, pull.issues)'
      BY <2>1, <2>3, <2>4 DEF Memoise, Sees, TypeOK
    <3> QED
      BY <2>1, <3>1, <3>2, <3>3 DEF SharedInv
  <2>5. ASSUME leg \in PlainLeg, UNCHANGED <<memo, memoFor, used>> PROVE SharedInv'
    <3>1. \A s \in Shared : leg' \in Past(s) => leg \in Past(s)
      BY <2>1, <2>5 DEF PlainLeg, Leg, After, Past, Shared
    <3> QED
      BY <2>1, <2>3, <2>5, <3>1 DEF SharedInv, Sees
  <2>6. CASE leg \in Shared \ {"political"} /\ memoFor[leg] = None /\ Memoise(leg, f)
    <3>1. PICK m \in Shared : m = leg
      BY <2>6
    <3>2. Memoise(m, f)
      BY <2>6, <3>1 DEF Memoise
    <3>3. /\ memoFor[m] = None
          /\ (m = leg /\ m # "political") \/ (m = "political" /\ leg = "past_political")
      BY <2>6, <3>1
    <3> HIDE DEF Base
    <3> QED
      BY <2>4, <3>2, <3>3
  <2>7. CASE leg = "past_political" /\ Memoise("political", f)
    <3>1. memoFor["political"] = None
      BY <2>7 DEF LoopInv
    <3> QED
      BY <2>4, <2>7, <3>1 DEF Shared
  <2> QED
    BY <1>2, <2>5, <2>6, <2>7 DEF Ends
<1>3. ASSUME ReuseFeed PROVE SharedInv'
  <2>1. /\ leg \in Shared /\ memoFor[leg] # None
        /\ leg' = IF leg = "political" THEN "retail" ELSE After[leg]
        /\ pull'.issues = pull.issues \union memo[leg].issues
        /\ used' = [used EXCEPT ![Current][leg] = memoFor[leg]]
        /\ UNCHANGED <<memo, memoFor, kept, todo>>
    BY <1>3 DEF ReuseFeed, Enter, AddToPull, runVars
  <2>2. /\ Current \in Ticker /\ Current \notin kept.tickers
        /\ Current' = Current
    BY <2>1, CurrentFresh DEF Shared, Current
  <2>3. ASSUME NEW s \in Shared, NEW k \in kept.tickers
        PROVE  Sees(s, k, kept.issues[k])'
    BY <2>1, <2>2, <2>3 DEF SharedInv, Sees, TypeOK, Kept
  <2>4. ASSUME NEW s \in Shared, leg' \in Past(s)
        PROVE  Sees(s, Current, pull.issues)'
    <3>1. s = leg \/ leg \in Past(s)
      BY <2>1, <2>4 DEF After, Past, Shared
    <3> QED
      BY <2>1, <2>2, <3>1 DEF SharedInv, Sees, TypeOK
  <2> QED
    BY <2>1, <2>3, <2>4 DEF SharedInv
<1>4. ASSUME leg \in Leg \ {"health", "done"}, PullRaises PROVE SharedInv'
  <2>1. UNCHANGED <<memo, memoFor, used, kept>>
    BY <1>4 DEF PullRaises
  <2>2. leg' \in {"options", "health"}
    BY <1>4, NextTickerType DEF PullRaises, healthVars, LoopInv
  <2>3. \A s \in Shared : leg' \notin Past(s)
    BY <2>2 DEF Past
  <2> QED
    BY <2>1, <2>3 DEF SharedInv, Sees
<1>5. ASSUME NEW scores \in BOOLEAN, NEW raises \in BOOLEAN, Compute(scores, raises)
      PROVE  SharedInv'
  <2>1. leg = "compute" /\ UNCHANGED <<memo, memoFor, used>>
    BY <1>5 DEF Compute
  <2>2. todo # <<>> /\ Current \in Ticker /\ Current \notin kept.tickers
    BY <2>1, CurrentFresh
  <2>3. \A s \in Shared : Sees(s, Current, pull.issues)
    BY <2>1 DEF SharedInv, Past, Shared
  <2>4. /\ kept'.tickers = kept.tickers \union {Current}
        /\ kept'.issues[Current] = pull.issues
        /\ \A k \in kept.tickers : kept'.issues[k] = kept.issues[k]
    BY <1>5, <2>2 DEF Compute, TypeOK, Kept
  <2>5. \A s \in Shared : leg' \notin Past(s)
    BY <1>5, <2>2, NextTickerType DEF Compute, healthVars, Past
  <2> QED
    BY <2>1, <2>3, <2>4, <2>5 DEF SharedInv, Sees
<1>6. ASSUME AssessRunHealth PROVE SharedInv'
  BY <1>6 DEF AssessRunHealth, SharedInv, Sees, Past, Shared, pullVars, runVars
<1> QED
  BY <1>1, <1>2, <1>3, <1>4, <1>5, <1>6 DEF Shape, Kept1

LEMMA SharedInvariant == Spec => [](Base /\ SharedInv)
<1>1. Init => SharedInv
  BY DEF Init, SharedInv, Past
<1>2. Base /\ SharedInv /\ [Next]_vars => Base' /\ SharedInv'
  <2> SUFFICES ASSUME Base, SharedInv, [Next]_vars PROVE Base' /\ SharedInv'
    OBVIOUS
  <2>1. CASE Next
    BY <2>1, StepShape, SharedStep, BaseStep DEF Base
  <2>2. CASE UNCHANGED vars
    BY <2>2, BaseStep DEF vars, SharedInv, Sees, Past, Current
  <2> QED
    BY <2>1, <2>2
<1> QED
  BY <1>1, <1>2, BaseInit, PTL DEF Spec

(* Every two tickers of a run are scored with the same market-wide feeds,  *)
(* however many there are and wherever pulls fail (fetched once per run    *)
(* date and shared across tickers).                                        *)
THEOREM FeedsAgree == Spec => []SharedFeedsAgree
<1>1. Base /\ SharedInv => SharedFeedsAgree
  <2> SUFFICES ASSUME Base, SharedInv, NEW j \in kept.tickers, NEW k \in kept.tickers
               PROVE  used[j] = used[k]
    BY DEF SharedFeedsAgree
  <2>1. \A s \in Shared : used[j][s] = memoFor[s] /\ used[k][s] = memoFor[s]
    BY DEF SharedInv, Sees
  <2>2. /\ used[j] \in [Shared -> Ticker \union {None}]
        /\ used[k] \in [Shared -> Ticker \union {None}]
    BY DEF Base, TypeOK, Kept
  <2> QED
    BY <2>1, <2>2
<1> QED
  BY <1>1, SharedInvariant, PTL

(* ... and each of them names what went wrong with those feeds.            *)
THEOREM IssuesNameAll == Spec => []SharedIssuesNameAll
<1>1. SharedInv => SharedIssuesNameAll
  BY DEF SharedInv, Sees, SharedIssuesNameAll
<1> QED
  BY <1>1, SharedInvariant, PTL

-----------------------------------------------------------------------------
(* Legs that end with the first reply that has data.                       *)
FirstLeg == {"options", "prices", "short_interest", "earnings", "news"}

(* A leg that collects has only what the provider being asked has said.    *)
Collecting ==
  /\ leg \in WalkingLeg \ FirstLeg
  /\ order # <<>> /\ tried > 0 /\ Asked \in Wired[leg]
  /\ feed.from = {Asked}
  /\ leg \in {"calendar", "readings"} /\ Asked = "fred" => releases.known
  /\ leg = "calendar" /\ Asked = "fred" => releases.count > 0

SourceInv ==
  \/ feed.from = {}
  \/ leg = "past_political" /\ SingleSource
  \/ Collecting

(* Who has said something is not left before the leg is done.              *)
Faithful(l, reply, done, over) ==
  ~done /\ (over \/ LastRequest(l) \/ l \in FirstLeg) => Heard(l, reply).from = {}

LEMMA WalkSource ==
  ASSUME Base, SourceInv, NEW l \in WalkingLeg, NEW reply \in Reply,
         NEW done, NEW over, Walk(l, reply, done, over),
         Faithful(l, reply, done, over)
  PROVE  SourceInv'
<1> DEFINE f == Heard(l, reply)
<1>1. /\ leg = l /\ order # <<>> /\ Asked \in Wired[l] /\ tried < Requests(l)
      /\ l \in {"calendar", "readings"} /\ Asked = "fred" => releases.known
  BY DEF Walk, Asking
<1>2. f.from = {} \/ f.from = {Asked}
  <2>1. feed.from = {} \/ feed.from = {Asked}
    BY <1>1, WalkingLegs DEF SourceInv, Collecting
  <2> QED
    BY <2>1 DEF Heard
<1>3. CASE reply = "fault"
  BY <1>3 DEF Walk, PullRaises, NextTicker, Enter, NoFeed, SourceInv
<1>4. CASE reply # "fault" /\ done
  <2>1. EndChain(f)
    BY <1>4 DEF Walk
  <2>2. CASE leg = "political"
    BY <1>2, <2>1, <2>2 DEF EndChain, SourceInv, SingleSource
  <2>3. CASE leg # "political"
    BY <2>1, <2>3 DEF EndChain, EndLeg, Enter, NoFeed, SourceInv
  <2> QED
    BY <2>2, <2>3
<1>5. CASE reply # "fault" /\ ~done
  <2>1. CASE over \/ LastRequest(l)
    <3>1. NextProvider(f)
      BY <1>5, <2>1 DEF Walk
    <3>2. f.from = {}
      BY <1>5, <2>1 DEF Faithful
    <3> QED
      BY <3>1, <3>2 DEF NextProvider, SourceInv
  <2>2. CASE ~(over \/ LastRequest(l))
    <3>1. AskAgain(f) /\ UNCHANGED releases
      BY <1>5, <2>2 DEF Walk
    <3>2. CASE f.from = {}
      BY <3>1, <3>2 DEF AskAgain, SourceInv
    <3>3. CASE f.from # {}
      <4>1. f.from = {Asked} /\ l \notin FirstLeg
        BY <1>2, <1>5, <3>3 DEF Faithful
      <4>2. tried + 1 > 0
        BY DEF Base, TypeOK
      <4>3. l = "calendar" /\ Asked = "fred" => releases.count > 0
        BY <1>1 DEF Requests, Base, TypeOK
      <4> QED
        BY <1>1, <3>1, <4>1, <4>2, <4>3 DEF AskAgain, SourceInv, Collecting, Asked
    <3> QED
      BY <3>2, <3>3
  <2> QED
    BY <2>1, <2>2
<1> QED
  BY <1>3, <1>4, <1>5

LEMMA SourceStep ==
  ASSUME Base, SourceInv, Next
  PROVE  SourceInv'
<1>1. ASSUME NEW reply \in Reply,
             \/ PullOptionChain(reply) \/ PriceBars(reply) \/ ShortBorrow(reply)
             \/ CatalystCalendar(reply) \/ NewsBatch(reply)
      PROVE  SourceInv'
  <2>1. \A l \in FirstLeg : leg = l => feed.from = {}
    BY DEF SourceInv, Collecting, FirstLeg
  <2>2. \A l \in FirstLeg : ~Yields(l, reply) /\ leg = l => Heard(l, reply).from = {}
    BY <2>1 DEF Heard
  <2>3. \E l \in WalkingLeg : \E done, over :
          Walk(l, reply, done, over) /\ Faithful(l, reply, done, over)
    BY <1>1, <2>2, WalkingLegs
    DEF PullOptionChain, PriceBars, ShortBorrow, CatalystCalendar, NewsBatch,
        Faithful, FirstLeg, Walk, Asking
  <2> QED
    BY <2>3, WalkSource
<1>2. ASSUME NEW reply \in Reply,
             \/ MacroCalendar(reply) \/ MacroReadings(reply)
             \/ AnalystSignals(reply) \/ PoliticalTrades(reply)
             \/ RetailMomentum(reply)
      PROVE  SourceInv'
  <2>1. \E l \in WalkingLeg : \E done, over :
          Walk(l, reply, done, over) /\ Faithful(l, reply, done, over)
    BY <1>2, WalkingLegs
    DEF MacroCalendar, MacroReadings, AnalystSignals, PoliticalTrades,
        RetailMomentum, Collected, Faithful, FirstLeg
  <2> QED
    BY <2>1, WalkSource
<1>3. ASSUME NEW reply \in Reply, InsiderTransactions(reply) PROVE SourceInv'
  <2>1. Preliminary("insider") /\ leg = "insider" => Heard("insider", reply).from = {}
    BY DEF Preliminary, Heard, Yields, SourceInv, Collecting
  <2>2. \E l \in WalkingLeg : \E done, over :
          Walk(l, reply, done, over) /\ Faithful(l, reply, done, over)
    BY <1>3, <2>1, WalkingLegs
    DEF InsiderTransactions, Collected, Faithful, FirstLeg, Walk, Asking
  <2> QED
    BY <2>2, WalkSource
<1>4. ASSUME NEW reply \in Reply, StoredOptionSeries(reply) PROVE SourceInv'
  BY <1>4
  DEF StoredOptionSeries, PullRaises, NextTicker, EndLeg, Enter, NoFeed, SourceInv
<1>5. ASSUME NEW reply \in Reply, FredSeriesReleases(reply) PROVE SourceInv'
  <2>1. feed.from = {}
    BY <1>5 DEF FredSeriesReleases, SourceInv, Collecting
  <2> QED
    BY <1>5, <2>1
    DEF FredSeriesReleases, PullRaises, NextTicker, Enter, NoFeed, SourceInv
<1>6. ASSUME NEW reply \in Reply, CachedPoliticalTrades(reply) PROVE SourceInv'
  BY <1>6
  DEF CachedPoliticalTrades, PullRaises, NextTicker, Enter, NoFeed, SourceInv
<1>7. ASSUME PassOver PROVE SourceInv'
  <2>1. feed.from = {}
    BY <1>7, WalkingLegs DEF PassOver, SourceInv, Collecting
  <2> QED
    BY <1>7, <2>1 DEF PassOver, NextProvider, SourceInv
<1>8. ASSUME ChainEnds PROVE SourceInv'
  <2>1. feed.from = {}
    BY <1>8, WalkingLegs DEF ChainEnds, SourceInv, Collecting
  <2> QED
    BY <1>8, <2>1
    DEF ChainEnds, EndChain, EndLeg, PullRaises, NextTicker, Enter, NoFeed, SourceInv
<1>9. ASSUME ReuseFeed PROVE SourceInv'
  BY <1>9 DEF ReuseFeed, Enter, NoFeed, SourceInv
<1>10. ASSUME NEW scores \in BOOLEAN, NEW raises \in BOOLEAN, Compute(scores, raises)
       PROVE  SourceInv'
  BY <1>10 DEF Compute, NextTicker, Enter, NoFeed, SourceInv
<1>11. ASSUME ComputeRaises PROVE SourceInv'
  BY <1>11 DEF ComputeRaises, PullRaises, NextTicker, Enter, NoFeed, SourceInv
<1>12. ASSUME AssessRunHealth PROVE SourceInv'
  <2>1. feed.from = {}
    BY <1>12, WalkingLegs DEF AssessRunHealth, SourceInv, Collecting
  <2> QED
    BY <1>12, <2>1 DEF AssessRunHealth, SourceInv
<1> QED
  BY <1>1, <1>2, <1>3, <1>4, <1>5, <1>6, <1>7, <1>8, <1>9, <1>10, <1>11, <1>12
  DEF Next

(* The data of a leg is never a merge of two providers, whatever the       *)
(* chains, their hooks and the replies (_analyst_signals).                 *)
THEOREM OneSource == Spec => []SingleSource
<1>1. Init => SourceInv
  BY DEF Init, NoFeed, SourceInv
<1>2. Base /\ SourceInv /\ [Next]_vars => Base' /\ SourceInv'
  <2> SUFFICES ASSUME Base, SourceInv, [Next]_vars PROVE SourceInv'
    BY BaseStep
  <2>1. CASE Next
    BY <2>1, SourceStep
  <2>2. CASE UNCHANGED vars
    BY <2>2 DEF vars, SourceInv, SingleSource, Collecting, Asked
  <2> QED
    BY <2>1, <2>2
<1>3. SourceInv => SingleSource
  BY DEF SourceInv, SingleSource, Collecting
<1> QED
  BY <1>1, <1>2, <1>3, BaseInit, PTL DEF Spec

=============================================================================
