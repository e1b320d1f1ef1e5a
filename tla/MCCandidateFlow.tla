--------------------------- MODULE MCCandidateFlow ---------------------------
(***************************************************************************)
(* Candidates, settings and pulls for model checking CandidateFlow.        *)
(***************************************************************************)
EXTENDS CandidateFlow

Date(day, confirmed, earnings) ==
  [day |-> day, confirmed |-> confirmed, earnings |-> earnings]

(* None; estimated; confirmed before and after the weekly expiry; earnings; *)
(* an estimate before a confirmed date and on the same day; one beyond the *)
(* horizon; the last day of the window of long premium and the next.       *)
Calendars ==
  {{}, {Date(3, FALSE, FALSE)}, {Date(3, TRUE, FALSE)}, {Date(3, TRUE, TRUE)},
   {Date(3, FALSE, FALSE), Date(5, TRUE, FALSE)},
   {Date(5, FALSE, TRUE), Date(5, TRUE, FALSE)},
   {Date(15, TRUE, FALSE)}, {Date(10, TRUE, FALSE)}, {Date(11, TRUE, FALSE)}}

Declared(class, us, catalysts, permitted) ==
  [class |-> class, us |-> us, horizon |-> 14, catalysts |-> catalysts,
   permitted |-> permitted, borrow |-> TRUE, thesis |-> TRUE, duplicate |-> FALSE]

Volatility == {Declared("V", us, k, {"options"}) : us \in BOOLEAN, k \in Calendars}

Events ==
  {Declared("E", TRUE, k, i) :
     k \in Calendars,
     i \in {{"options", "shares"}, {"shares", "knock_out"}, {"knock_out"}, {"etf"}}}

Ownership ==
  {Declared(class, TRUE, {Date(3, TRUE, FALSE)}, {"options", "shares"}) :
     class \in {"P", "S"}}

Refused ==
  LET good == Declared("S", TRUE, {Date(3, TRUE, FALSE)}, {"shares"})
  IN {[good EXCEPT !.borrow = FALSE], [good EXCEPT !.thesis = FALSE],
      [good EXCEPT !.duplicate = TRUE], [good EXCEPT !.class = "V"]}

MCCandidates == Volatility \union Events \union Ownership \union Refused

(* The shipped settings (config.example.yaml), and ones that allow what     *)
(* these refuse and refuse what these only flag.                           *)
MCSettings ==
  {[enabled |-> {"V", "E"}, leverageOnEstimated |-> FALSE, euOptionsTrack |-> "C",
    requireBorrowSource |-> TRUE, requireThesisSource |-> TRUE,
    unverifiedToWatchlist |-> FALSE],
   [enabled |-> ExpressionClass, leverageOnEstimated |-> TRUE, euOptionsTrack |-> "B",
    requireBorrowSource |-> FALSE, requireThesisSource |-> TRUE,
    unverifiedToWatchlist |-> TRUE]}

Of(percent, status, quality) ==
  [available |-> TRUE, score |-> percent, status |-> status, quality |-> quality]

Qualities == {<<"verified", "primary">>, <<"verified", "aggregator">>, <<"partial", "primary">>}

(* Scores on both sides of each band, of each quality, and n/a.            *)
Macro(scores) == {NoComponent} \union {Of(x, q[1], q[2]) : x \in scores, q \in Qualities}

Sentiment == {NoComponent, Of(60, "verified", "aggregator")}

MacroSentiment(macro, sentiment) ==
  [n \in {"S_M", "S_S", "S_I"} |->
     CASE n = "S_M" -> macro [] n = "S_S" -> sentiment [] OTHER -> NoComponent]

Measured == [verified |-> TRUE, closes |-> TRUE, borrow |-> FALSE, ivRank |-> "none",
             premium |-> "zero", skew |-> "contained", front |-> 7, volatile |-> FALSE,
             liquid |-> TRUE, chain |-> Of(0, "verified", "primary"),
             components |-> MacroSentiment(Of(0, "verified", "primary"), NoComponent)]

(* Every measure of volatility, with a neutral, a bullish and a bearish    *)
(* composite.                                                              *)
VolatilityPulls ==
  {[Measured EXCEPT !.ivRank = rank, !.premium = premium, !.skew = skew,
                    !.front = front, !.liquid = liquid, !.closes = closes,
                    !.components = MacroSentiment(Of(x, "verified", "primary"), NoComponent)] :
     rank \in {"none", "cheap", "middle", "rich"},
     premium \in {"negative", "zero", "positive"},
     skew \in {"none", "contained", "extreme"}, front \in {0, 7},
     liquid \in BOOLEAN, closes \in BOOLEAN, x \in {-40, 0, 40}}

(* Every way evidence can be missing or weak, with composites in each band. *)
(* A chain that is not verified is partial.                                *)
EvidencePulls ==
  {[Measured EXCEPT !.verified = verified, !.closes = closes, !.borrow = borrow,
                    !.volatile = volatile,
                    !.chain = IF verified THEN Of(x, "verified", "primary")
                              ELSE Of(x, "partial", "primary"),
                    !.components = MacroSentiment(macro, sentiment)] :
     verified \in BOOLEAN, closes \in BOOLEAN, borrow \in BOOLEAN,
     volatile \in BOOLEAN, x \in {-80, 30, 80},
     macro \in Macro({-80, 0, 80}), sentiment \in Sentiment}

(* Chains whose legs give no score, or whose providers no component.       *)
EmptyPulls ==
  {[Measured EXCEPT !.chain = NoComponent],
   [Measured EXCEPT !.chain = NoComponent,
                    !.components = MacroSentiment(NoComponent, NoComponent)]}

(* Everything an ownership class requires, but for S_F.                    *)
OwnershipPulls ==
  {[Measured EXCEPT !.borrow = borrow,
                    !.components = [n \in {"S_M", "S_S", "S_I"} |-> Of(80, "verified", "primary")]] :
     borrow \in BOOLEAN}

MCPulls ==
  [class \in ExpressionClass |->
     CASE class = "V" -> VolatilityPulls \union EmptyPulls
       [] class = "E" -> EvidencePulls \union EmptyPulls
       [] OTHER -> OwnershipPulls]
=============================================================================
