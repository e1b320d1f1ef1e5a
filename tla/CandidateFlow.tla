--------------------------- MODULE CandidateFlow ---------------------------
(***************************************************************************)
(* The way of one candidate through a run (src/briefing_app/pipeline.py):  *)
(* the gate, the pull of its data with the composite score, the strategy   *)
(* rules, and the idea the report lists for it.  A pull and the rules of   *)
(* one ticker may each fail without stopping the run.                      *)
(***************************************************************************)
EXTENDS StrategyRules

CONSTANTS Candidates,   \* declarations of the universe
          Settings,     \* gate settings of the configuration
          Pulls         \* per class, what its data may turn out to be

Mode == {"live", "fixture"}

(* What the pull of a ticker finds.  closes: a price history long enough   *)
(* to measure a range.  chain: whether S_O can be computed from the chain. *)
Pull == [verified : BOOLEAN, closes : BOOLEAN, borrow : BOOLEAN,
         ivRank : {"none", "cheap", "middle", "rich"},
         premium : {"negative", "zero", "positive"},
         skew : {"none", "contained", "extreme"},
         front : Nat, volatile : BOOLEAN, liquid : BOOLEAN,
         chain : ComponentScore,
         components : [{"S_M", "S_S", "S_I"} -> ComponentScore]]

ASSUME CandidatesAssumption == Candidates \subseteq Candidate
ASSUME SettingsAssumption == Settings \subseteq GateSettings
ASSUME PullsAssumption == Pulls \in [ExpressionClass -> SUBSET Pull]

VARIABLES cand, settings, mode,
          pc,          \* the stage that comes next
          pull,        \* what the pull found
          failed,      \* the stage that raised, if one did
          structure, score,
          tier,        \* the tier of the setup result
          setups,      \* its candidates for a trade
          idea         \* the status of the idea in the report

vars == <<cand, settings, mode, pc, pull, failed, structure, score, tier, setups, idea>>

NoStructure == [available |-> FALSE, measured |-> FALSE, borrow |-> FALSE,
                widened |-> FALSE, ivRank |-> "none", premium |-> "none",
                skew |-> "none", front |-> 0, volatile |-> FALSE]
NoScore == [scored |-> FALSE, sum |-> 0, weight |-> 0, tier |-> "C"]
NoPull == [verified |-> FALSE, closes |-> FALSE, borrow |-> FALSE,
           ivRank |-> "none", premium |-> "zero", skew |-> "none", front |-> 0,
           volatile |-> FALSE, liquid |-> FALSE, chain |-> NoComponent,
           components |-> [n \in {"S_M", "S_S", "S_I"} |-> NoComponent]]

(* The instruments say whether a candidate is a basket or an issuer.       *)
IsFund(c) == "etf" \in c.permitted /\ "shares" \notin c.permitted

EarningsInHorizon(c) == \E k \in InHorizon(c) : k.earnings

OptionsStructureOfAnyChain(p, c) ==   \* mutant: chain_verified not looked at
  [available |-> TRUE, measured |-> p.closes, borrow |-> p.borrow,
   widened |-> p.closes /\ EarningsInHorizon(c), ivRank |-> p.ivRank,
   premium |-> IF p.closes THEN p.premium ELSE "none",
   skew |-> p.skew, front |-> p.front, volatile |-> p.volatile]

(* build_options_structure: without a verified chain nothing is kept, not  *)
(* even what was measured from closes or is known of borrow.               *)
OptionsStructure(p, c) ==
  IF ~p.verified THEN NoStructure
  ELSE [available |-> TRUE, measured |-> p.closes, borrow |-> p.borrow,
        widened |-> p.closes /\ EarningsInHorizon(c),
        ivRank |-> p.ivRank,
        premium |-> IF p.closes THEN p.premium ELSE "none",
        skew |-> p.skew, front |-> p.front, volatile |-> p.volatile]

(* S_O as scoring reads it from the structure and its evidence rows.       *)
ChainScore(p, s) ==
  [available |-> s.available /\ p.chain.available, score |-> p.chain.score,
   status |-> p.chain.status, quality |-> IF s.available THEN "primary" ELSE "none"]

(* _as_synthetic and the label of the fixture chain: nothing a fixture     *)
(* computed keeps the status of a measurement.                             *)
AsSynthetic(component) ==
  [available |-> component.available, score |-> component.score,
   status |-> "synthetic", quality |-> component.quality]

(* S_F is declared n/a for every ticker.                                   *)
Components(p, s, m) ==
  LET found == [n \in Component |->
                  IF n = "S_O" THEN ChainScore(p, s)
                  ELSE IF n = "S_F" THEN NoComponent ELSE p.components[n]]
  IN IF m = "fixture" THEN [n \in Component |-> AsSynthetic(found[n])] ELSE found

(* A fixture builds a full chain, closes and no history or borrow data.    *)
Answers(class, m) ==
  {p \in Pulls[class] :
     m = "fixture" => p.verified /\ p.closes /\ ~p.borrow /\ p.ivRank = "none"}

Gated == [class |-> cand.class, primary |-> PrimaryCatalyst(cand),
          catalysts |-> InHorizon(cand), confirmed |-> HasConfirmed(cand),
          permitted |-> Permitted(cand, settings)]

Accepted == Decision(cand, settings) = "accepted"

-----------------------------------------------------------------------------
Init ==
  /\ cand \in Candidates /\ settings \in Settings /\ mode \in Mode
  /\ pc = "gate" /\ pull = NoPull /\ failed = "no"
  /\ structure = NoStructure /\ score = NoScore
  /\ tier = "C" /\ setups = {} /\ idea = "none"

Gate ==
  /\ pc = "gate"
  /\ pc' = IF Accepted THEN "pull" ELSE "report"
  /\ UNCHANGED <<cand, settings, mode, pull, failed, structure, score, tier,
                 setups, idea>>

PullAndScore ==
  /\ pc = "pull"
  /\ \E p \in Answers(cand.class, mode) :
       LET s == OptionsStructure(p, cand)
       IN /\ pull' = p
          /\ structure' = s
          /\ score' = Result(Components(p, s, mode), s, cand.class, cand.us,
                             InHorizon(cand) # {})
  /\ pc' = "rules"
  /\ UNCHANGED <<cand, settings, mode, failed, tier, setups, idea>>

PullRaises ==
  /\ pc = "pull"
  /\ failed' = "pull"
  /\ pc' = "report"
  /\ UNCHANGED <<cand, settings, mode, pull, structure, score, tier, setups, idea>>

(* The rules see the tier of the strategy's own floors.                    *)
EvaluationIn(t) ==
  [gate |-> Gated, score |-> score, structure |-> structure,
   liquid |-> pull.liquid, tier |-> t]

Evaluation == EvaluationIn(StrategyTier(EvaluationIn("C")))

Rules ==
  /\ pc = "rules"
  /\ tier' = Evaluation.tier
  /\ setups' = Setups(Evaluation)
  /\ pc' = "report"
  /\ UNCHANGED <<cand, settings, mode, pull, failed, structure, score, idea>>

RulesRaise ==
  /\ pc = "rules"
  /\ failed' = "rules"
  /\ pc' = "report"
  /\ UNCHANGED <<cand, settings, mode, pull, structure, score, tier, setups, idea>>

(* _idea_status, for an accepted candidate.                                *)
IdeaStatus ==
  IF failed = "pull" THEN "UNSCORED"
  ELSE IF failed = "rules" THEN "BLOCKED"
  ELSE IF setups # {} THEN "TRADEABLE" ELSE "WATCHLIST"

(* The report lists the ideas of accepted issuers.                         *)
Report ==
  /\ pc = "report"
  /\ idea' = IF Accepted /\ ~IsFund(cand) THEN IdeaStatus ELSE "unlisted"
  /\ pc' = "done"
  /\ UNCHANGED <<cand, settings, mode, pull, failed, structure, score, tier, setups>>

Next == Gate \/ PullAndScore \/ PullRaises \/ Rules \/ RulesRaise \/ Report

Spec == Init /\ [][Next]_vars

-----------------------------------------------------------------------------
Setup == [type : SetupType, direction : {"long", "short", "neutral"},
          tier : Tier, instrument : Instrument]

(* Values are of their types; the composite keeps to one hundred percent.  *)
TypeOK ==
  /\ cand \in Candidates /\ settings \in Settings /\ mode \in Mode
  /\ pc \in {"gate", "pull", "rules", "report", "done"}
  /\ pull = NoPull \/ pull \in Pull
  /\ failed \in {"no", "pull", "rules"}
  /\ structure \in Structure
  /\ score.scored \in BOOLEAN /\ score.tier \in Tier
  /\ score.sum \in -100 * score.weight .. 100 * score.weight
  /\ tier \in Tier /\ setups \subseteq Setup
  /\ idea \in {"none", "unlisted", "UNSCORED", "BLOCKED", "TRADEABLE", "WATCHLIST"}

(* README.md:158-160: a fixture run can produce a dashboard but never a    *)
(* tradeable call.  The label set at the pull has to survive the reading   *)
(* of components, the tier and both lists of floors.                       *)
FixtureNeverTradeable ==
  mode = "fixture" => tier = "C" /\ score.tier = "C" /\ idea # "TRADEABLE"

(* A date that was inferred never carries a trade, also where the gate's   *)
(* settings allow leverage on one and where a later date of the horizon is *)
(* confirmed (_reject_inferred_catalyst_dependency).                       *)
EstimatedNeverTradeable ==
  idea = "TRADEABLE" => PrimaryCatalyst(cand).confirmed

(* The tier stored in the snapshot (scoring.py) and the tier of the setup  *)
(* result (strategy/engine.py) are computed from two lists of floors; they *)
(* agree on every ticker whose rules ran.                                  *)
OneTier ==
  Accepted /\ failed = "no" /\ pc \in {"report", "done"} => tier = score.tier

(* What a component may be reduced to by a worse source or a lost one.     *)
Weaker(component) ==
  {NoComponent}
    \union (IF component.status = "verified"
            THEN {[component EXCEPT !.status = "partial"]} ELSE {})
    \union (IF component.quality = "primary"
            THEN {[component EXCEPT !.quality = "aggregator"]} ELSE {})

(* Of the same pull with any component worse or missing, the tier is no    *)
(* better: re-weighting moves the composite only, and two degraded         *)
(* components never hide a missing one (_confidence_tier).                 *)
WeakerEvidenceKeepsTier ==
  pc = "rules" =>
    LET found == Components(pull, structure, mode)
    IN \A n \in Component : \A weak \in Weaker(found[n]) :
         Severity[Result([found EXCEPT ![n] = weak], structure, cand.class,
                         cand.us, InHorizon(cand) # {}).tier] >= Severity[score.tier]

(* Classes P and S stay on the watchlist for as long as S_F is declared    *)
(* n/a (pipeline.py:179-186), whatever else was found for them.            *)
OwnershipClassesFloored ==
  cand.class \in {"P", "S"} => tier = "C" /\ setups = {}

(* Volatility is never sold and bought for one ticker of one report: the   *)
(* two rules test the rank and the premium on their own, with thresholds   *)
(* of their own.                                                           *)
OneSidedVolatility ==
  \A a, b \in setups :
    a.type = "short_premium_iron_condor"
      => b.type \notin {"long_premium_straddle", "long_premium_calendar"}

(* What a tradeable idea rests on, whichever rule it came from: a verified *)
(* chain, real closes, every required component measured, an instrument of *)
(* the broker, and for a bearish one borrow evidence.                      *)
TradeableIsGrounded ==
  idea = "TRADEABLE" =>
    /\ pull.verified /\ pull.closes
    /\ \A n \in Required(cand.class) :
         LET component == Components(pull, structure, mode)[n]
         IN component.available /\ component.status \in {"verified", "partial"}
    /\ \A setup \in setups :
         /\ setup.instrument \in cand.permitted
         /\ setup.direction = "short" => pull.borrow
=============================================================================
