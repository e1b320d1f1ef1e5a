------------------------ MODULE CandidateFlowProofs ------------------------
(***************************************************************************)
(* Theorems on CandidateFlow, for every universe, configuration and data.  *)
(*                                                                         *)
(* Each variable is set once, so a state is determined by the candidate,   *)
(* the settings, the mode, the pull and what failed (StateInv).  The       *)
(* properties then follow from what the rules make of that.                *)
(***************************************************************************)
EXTENDS CandidateFlow, TLAPS

Scored == pc = "rules" \/ (pc \in {"report", "done"} /\ Accepted /\ failed # "pull")
Ruled  == pc \in {"report", "done"} /\ Accepted /\ failed = "no"

ScoreOf(p, s) ==
  Result(Components(p, s, mode), s, cand.class, cand.us, InHorizon(cand) # {})

StageInv ==
  /\ cand \in Candidates /\ settings \in Settings /\ mode \in Mode
  /\ pc \in {"gate", "pull", "rules", "report", "done"}
  /\ failed \in {"no", "pull", "rules"}
  /\ pc \in {"pull", "rules"} => Accepted
  /\ pc \in {"gate", "pull", "rules"} => failed = "no"

ScoredInv ==
  IF Scored
  THEN /\ pull \in Answers(cand.class, mode)
       /\ structure = OptionsStructure(pull, cand)
       /\ score = ScoreOf(pull, structure)
  ELSE pull = NoPull /\ structure = NoStructure /\ score = NoScore

RuledInv ==
  IF Ruled THEN tier = Evaluation.tier /\ setups = Setups(Evaluation)
  ELSE tier = "C" /\ setups = {}

IdeaInv ==
  idea = IF pc # "done" THEN "none"
         ELSE IF Accepted /\ ~IsFund(cand) THEN IdeaStatus ELSE "unlisted"

StateInv == StageInv /\ ScoredInv /\ RuledInv /\ IdeaInv

-----------------------------------------------------------------------------
(* The candidate and the settings, and with them the verdict of the gate,  *)
(* stay as they are; so does everything a stage has set.                   *)
LEMMA Invariance == Spec => []StateInv
<1>1. Init => StateInv
  BY DEF Init, StateInv, StageInv, ScoredInv, RuledInv, IdeaInv, Scored, Ruled
<1>2. StateInv /\ [Next]_vars => StateInv'
  <2> SUFFICES ASSUME StateInv, [Next]_vars PROVE StateInv'
    OBVIOUS
  <2> USE DEF StateInv, StageInv, ScoredInv, RuledInv, IdeaInv, Scored, Ruled,
              Accepted, IdeaStatus
  <2>1. CASE Gate
    BY <2>1 DEF Gate
  <2>2. CASE PullAndScore
    BY <2>2 DEF PullAndScore, ScoreOf
  <2>3. CASE PullRaises
    BY <2>3 DEF PullRaises
  <2>4. CASE Rules
    BY <2>4 DEF Rules, ScoreOf, Evaluation, EvaluationIn, Gated
  <2>5. CASE RulesRaise
    BY <2>5 DEF RulesRaise, ScoreOf
  <2>6. CASE Report
    BY <2>6 DEF Report, ScoreOf, Evaluation, EvaluationIn, Gated
  <2>7. CASE UNCHANGED vars
    BY <2>7 DEF vars, ScoreOf, Evaluation, EvaluationIn, Gated
  <2> QED
    BY <2>1, <2>2, <2>3, <2>4, <2>5, <2>6, <2>7 DEF Next
<1> QED
  BY <1>1, <1>2, PTL DEF Spec

-----------------------------------------------------------------------------
(* With an unscored pull nothing of the score can reach Tier A or B.       *)
LEMMA UnscoredIsTierC ==
  ASSUME StateInv, ~Scored
  PROVE  score.tier = "C"
  BY DEF StateInv, ScoredInv, NoScore

LEMMA FloorToC == \A t \in Tier : FloorTo(t, "C") = "C"
  BY DEF Tier, FloorTo, Severity

LEMMA ScoreTier ==
  ASSUME StateInv PROVE score.tier \in Tier
<1>1. CASE ~Scored
  BY <1>1 DEF StateInv, ScoredInv, NoScore, Tier
<1>2. CASE Scored
  <2>1. score = ScoreOf(pull, structure)
    BY <1>2 DEF StateInv, ScoredInv
  <2> QED
    BY <2>1 DEF ScoreOf, Result, RequiredTier, Tier
<1> QED
  BY <1>1, <1>2

(* The two lists of floors.  The strategy's has two more entries: a        *)
(* structure, without which no closes were measured, and a score, without  *)
(* which no required component is there.                                   *)
LEMMA FloorsAgree ==
  ASSUME StateInv, Scored, Accepted
  PROVE  StrategyTier(EvaluationIn("C")) = score.tier
<1>1. score.tier \in Tier
  BY ScoreTier
<1>2. /\ structure = OptionsStructure(pull, cand)
      /\ score = ScoreOf(pull, structure)
  BY DEF StateInv, ScoredInv
<1>3. CASE MeetsStrategyFloors(EvaluationIn("C"))
  BY <1>3 DEF StrategyTier, EvaluationIn
<1>4. CASE ~MeetsStrategyFloors(EvaluationIn("C"))
  <2>1. score.tier = "C"
    <3>1. CASE ~score.scored
      <4>1. Available(Components(pull, structure, mode)) = {}
        BY <1>2, <3>1 DEF ScoreOf, Result
      <4>2. "S_M" \in Required(cand.class)
        BY DEF Required
      <4>3. "S_M" \in Component
        BY DEF Component
      <4>4. ~Components(pull, structure, mode)["S_M"].available
        BY <4>1, <4>3 DEF Available
      <4>5. Condition(Components(pull, structure, mode)["S_M"]) = "C"
        BY <4>4 DEF Condition
      <4>6. RequiredTier(Components(pull, structure, mode), cand.class) = "C"
        BY <4>2, <4>5 DEF RequiredTier
      <4> QED
        BY <1>2, <4>6 DEF ScoreOf, Result
    <3>2. CASE score.scored
      <4>1. ~MeetsFloors(cand.class, structure, InHorizon(cand) # {})
        BY <1>2, <1>4, <3>2 DEF MeetsStrategyFloors, EvaluationIn, Gated, MeetsFloors,
                               OptionsStructure, NoStructure
      <4> QED
        BY <1>2, <4>1 DEF ScoreOf, Result
    <3> QED
      BY <3>1, <3>2
  <2> QED
    BY <1>4, <2>1, FloorToC, <1>1 DEF StrategyTier, EvaluationIn
<1> QED
  BY <1>3, <1>4

(* The snapshot and the setup result name the same tier (OneTier).         *)
THEOREM SnapshotAndSetupsAgree == Spec => []OneTier
<1>1. StateInv => OneTier
  <2> SUFFICES ASSUME StateInv, Accepted, failed = "no", pc \in {"report", "done"}
               PROVE  tier = score.tier
    BY DEF OneTier
  <2>1. tier = Evaluation.tier
    BY DEF StateInv, RuledInv, Ruled
  <2>2. Evaluation.tier = StrategyTier(EvaluationIn("C"))
    BY DEF Evaluation, EvaluationIn
  <2>3. StrategyTier(EvaluationIn("C")) = score.tier
    BY FloorsAgree DEF Scored
  <2> QED
    BY <2>1, <2>2, <2>3
<1> QED
  BY <1>1, Invariance, PTL

-----------------------------------------------------------------------------
(* A required component that is no evidence puts the ticker in Tier C.     *)
LEMMA OneMissingIsTierC ==
  ASSUME StateInv, Scored, NEW n \in Required(cand.class),
         Condition(Components(pull, structure, mode)[n]) = "C"
  PROVE  score.tier = "C"
<1>1. RequiredTier(Components(pull, structure, mode), cand.class) = "C"
  BY DEF RequiredTier
<1> QED
  BY <1>1 DEF StateInv, ScoredInv, ScoreOf, Result

(* In Tier C no rule runs.                                                 *)
LEMMA TierCHasNoSetups ==
  ASSUME StateInv, Scored => score.tier = "C"
  PROVE  tier = "C" /\ score.tier = "C" /\ setups = {}
<1>1. score.tier = "C"
  BY UnscoredIsTierC
<1>2. CASE ~Ruled
  BY <1>1, <1>2 DEF StateInv, RuledInv
<1>3. CASE Ruled
  <2>1. tier = Evaluation.tier /\ setups = Setups(Evaluation)
    BY <1>3 DEF StateInv, RuledInv
  <2>2. Evaluation.tier = StrategyTier(EvaluationIn("C"))
    BY DEF Evaluation, EvaluationIn
  <2>3. StrategyTier(EvaluationIn("C")) = "C"
    BY <1>1, <1>3, FloorsAgree DEF Ruled, Scored
  <2> QED
    BY <1>1, <2>1, <2>2, <2>3 DEF Setups
<1> QED
  BY <1>2, <1>3

LEMMA NoSetupsNoTrade ==
  ASSUME StateInv, setups = {}
  PROVE  idea # "TRADEABLE"
  BY DEF StateInv, IdeaInv, IdeaStatus

LEMMA RequiredOfEveryClass ==
  "S_M" \in Required(cand.class) /\ "S_M" \in Component /\ "S_F" \in Component
  BY DEF Required, Component

(* Nothing a fixture run computes is traded, for every universe and every  *)
(* setting (FixtureNeverTradeable).                                        *)
THEOREM FixturesAreNotTraded == Spec => []FixtureNeverTradeable
<1>1. StateInv => FixtureNeverTradeable
  <2> SUFFICES ASSUME StateInv, mode = "fixture"
               PROVE  tier = "C" /\ score.tier = "C" /\ idea # "TRADEABLE"
    BY DEF FixtureNeverTradeable
  <2>1. ASSUME Scored PROVE score.tier = "C"
    <3>1. Components(pull, structure, mode)["S_M"].status = "synthetic"
      BY RequiredOfEveryClass DEF Components, AsSynthetic
    <3>2. Condition(Components(pull, structure, mode)["S_M"]) = "C"
      BY <3>1 DEF Condition
    <3> QED
      BY <2>1, <3>2, OneMissingIsTierC, RequiredOfEveryClass
  <2> QED
    BY <2>1, TierCHasNoSetups, NoSetupsNoTrade
<1> QED
  BY <1>1, Invariance, PTL

(* Without S_F classes P and S have no setup (OwnershipClassesFloored).    *)
THEOREM OwnershipClassesAreFloored == Spec => []OwnershipClassesFloored
<1>1. StateInv => OwnershipClassesFloored
  <2> SUFFICES ASSUME StateInv, cand.class \in {"P", "S"}
               PROVE  tier = "C" /\ setups = {}
    BY DEF OwnershipClassesFloored
  <2>1. "S_F" \in Required(cand.class)
    BY DEF Required
  <2>2. ~Components(pull, structure, mode)["S_F"].available
    BY RequiredOfEveryClass DEF Components, AsSynthetic, NoComponent
  <2>3. Condition(Components(pull, structure, mode)["S_F"]) = "C"
    BY <2>2 DEF Condition
  <2> QED
    BY <2>1, <2>3, OneMissingIsTierC, TierCHasNoSetups
<1> QED
  BY <1>1, Invariance, PTL

-----------------------------------------------------------------------------
(* What every setup, of whichever rule, has been through.                  *)
LEMMA BuiltSetup ==
  ASSUME NEW e, NEW type, NEW direction, NEW setup \in Build(e, type, direction)
  PROVE  /\ ~Inferred(e) /\ Fits(e, type) # {} /\ e.structure.measured
         /\ setup.type = type /\ setup.direction = direction
         /\ setup.instrument = Selected(e, type)
  BY DEF Build

(* A setup is one that Build made, for a name out of Tier C.               *)
LEMMA SetupsAreBuilt ==
  ASSUME NEW e, NEW setup \in Setups(e)
  PROVE  /\ e.tier # "C"
         /\ \E type, direction : setup \in Build(e, type, direction)
<1>1. e.tier # "C"
  BY DEF Setups
<1>2. CASE setup \in ShortPremium(e)
  BY <1>1, <1>2 DEF ShortPremium
<1>3. CASE setup \in LongPremium(e)
  BY <1>1, <1>3 DEF LongPremium
<1>4. CASE setup \in EventDirectional(e)
  BY <1>1, <1>4 DEF EventDirectional
<1> QED
  BY <1>1, <1>2, <1>3, <1>4 DEF Setups

(* A tradeable idea has a setup of the rules.                              *)
LEMMA TradeableHasSetup ==
  ASSUME StateInv, idea = "TRADEABLE"
  PROVE  Ruled /\ setups = Setups(Evaluation) /\ setups # {}
  BY DEF StateInv, IdeaInv, RuledInv, Ruled, StageInv, IdeaStatus

(* No trade rests on an inferred date (EstimatedNeverTradeable).           *)
THEOREM EstimatedDatesAreNotTraded == Spec => []EstimatedNeverTradeable
<1>1. StateInv => EstimatedNeverTradeable
  <2> SUFFICES ASSUME StateInv, idea = "TRADEABLE"
               PROVE  PrimaryCatalyst(cand).confirmed
    BY DEF EstimatedNeverTradeable
  <2>1. PICK setup \in Setups(Evaluation) : TRUE
    BY TradeableHasSetup
  <2>2. PICK type, direction : setup \in Build(Evaluation, type, direction)
    BY SetupsAreBuilt
  <2>3. ~Inferred(Evaluation)
    BY <2>2, BuiltSetup
  <2> QED
    BY <2>3 DEF Inferred, Evaluation, EvaluationIn, Gated
<1> QED
  BY <1>1, Invariance, PTL

(* Volatility is not sold and bought at once (OneSidedVolatility).         *)
THEOREM VolatilityIsOneSided == Spec => []OneSidedVolatility
<1>1. StateInv => OneSidedVolatility
  <2> SUFFICES ASSUME StateInv, NEW a \in setups, NEW b \in setups,
                      a.type = "short_premium_iron_condor",
                      b.type \in {"long_premium_straddle", "long_premium_calendar"}
               PROVE  FALSE
    BY DEF OneSidedVolatility
  <2>1. setups = Setups(Evaluation)
    BY DEF StateInv, RuledInv
  <2> DEFINE e == Evaluation
  <2>2. \A x \in EventDirectional(e) :
          x.type \notin {"short_premium_iron_condor", "long_premium_straddle",
                         "long_premium_calendar"}
    BY BuiltSetup DEF EventDirectional
  <2>3. \A x \in ShortPremium(e) :
          /\ x.type = "short_premium_iron_condor"
          /\ e.structure.ivRank = "rich" /\ e.structure.premium = "positive"
    BY BuiltSetup DEF ShortPremium
  <2>4. \A x \in LongPremium(e) :
          /\ x.type \in {"long_premium_straddle", "long_premium_calendar"}
          /\ e.structure.ivRank = "cheap" \/ e.structure.premium = "negative"
    BY BuiltSetup DEF LongPremium, CheapVolatility
  <2>5. a \in ShortPremium(e) /\ b \in LongPremium(e)
    BY <2>1, <2>2, <2>3, <2>4 DEF Setups
  <2> QED
    BY <2>3, <2>4, <2>5
<1> QED
  BY <1>1, Invariance, PTL

-----------------------------------------------------------------------------
(* The first position that fits is among those that fit.                   *)
LEMMA SelectedFits ==
  ASSUME NEW e, NEW type, Fits(e, type) # {}
  PROVE  Selected(e, type) \in e.gate.permitted
<1> DEFINE S == Fits(e, type)
<1>1. S \subseteq 1 .. 8
  <2>1. DOMAIN Preference(type) \subseteq 1 .. 8
    BY DEF Preference
  <2> QED
    BY <2>1 DEF Fits
<1>2. \E i \in S : \A j \in S : i <= j
  <2> HIDE DEF S
  <2>1. CASE 1 \in S
    BY <1>1, <2>1
  <2>2. CASE 1 \notin S /\ 2 \in S
    BY <1>1, <2>2
  <2>3. CASE 1 \notin S /\ 2 \notin S /\ 3 \in S
    BY <1>1, <2>3
  <2>4. CASE S \subseteq 4 .. 8 /\ 4 \in S
    BY <1>1, <2>4
  <2>5. CASE S \subseteq 5 .. 8 /\ 5 \in S
    BY <1>1, <2>5
  <2>6. CASE S \subseteq 6 .. 8
    BY <1>1, <2>6 DEF S
  <2> QED
    BY <1>1, <2>1, <2>2, <2>3, <2>4, <2>5, <2>6
<1>3. \A i \in S : Preference(type)[i] \in e.gate.permitted
  BY DEF Fits
<1> QED
  BY <1>2, <1>3 DEF Selected

(* What a pull finds is of the assumed types.                              *)
LEMMA PullTyped ==
  ASSUME StateInv, Scored
  PROVE  cand \in Candidate /\ pull \in Pull
<1>1. cand \in Candidate
  BY CandidatesAssumption DEF StateInv, StageInv
<1>2. cand.class \in ExpressionClass
  BY <1>1 DEF Candidate
<1>3. pull \in Pulls[cand.class]
  BY DEF StateInv, ScoredInv, Answers
<1> QED
  BY <1>1, <1>2, <1>3, PullsAssumption

LEMMA ComponentsTyped ==
  ASSUME StateInv, Scored
  PROVE  Components(pull, structure, mode) \in [Component -> ComponentScore]
<1>1. /\ pull.chain \in ComponentScore
      /\ pull.components \in [{"S_M", "S_S", "S_I"} -> ComponentScore]
  BY PullTyped DEF Pull
<1>2. structure.available \in BOOLEAN
  <2>1. structure = OptionsStructure(pull, cand)
    BY DEF StateInv, ScoredInv
  <2>2. CASE pull.verified
    BY <2>1, <2>2 DEF OptionsStructure
  <2>3. CASE ~pull.verified
    BY <2>1, <2>3 DEF OptionsStructure, NoStructure
  <2> QED
    BY <2>2, <2>3
<1>3. ChainScore(pull, structure) \in ComponentScore
  BY <1>1, <1>2 DEF ChainScore, ComponentScore, Quality
<1>4. NoComponent \in ComponentScore
  BY DEF NoComponent, ComponentScore, Validation, Quality
<1>5. \A c \in ComponentScore : AsSynthetic(c) \in ComponentScore
  BY DEF AsSynthetic, ComponentScore, Validation
<1> QED
  BY <1>1, <1>3, <1>4, <1>5 DEF Components, Component

(* What a tradeable idea rests on (TradeableIsGrounded).                   *)
THEOREM TradesAreGrounded == Spec => []TradeableIsGrounded
<1>1. StateInv => TradeableIsGrounded
  <2> SUFFICES ASSUME StateInv, idea = "TRADEABLE"
               PROVE  TradeableIsGrounded
    BY DEF TradeableIsGrounded
  <2> DEFINE e == Evaluation
             found == Components(pull, structure, mode)
  <2>1. Ruled /\ Scored /\ setups = Setups(e) /\ setups # {}
    BY TradeableHasSetup DEF Ruled, Scored
  <2>2. structure = OptionsStructure(pull, cand) /\ e.structure = structure
    BY <2>1 DEF StateInv, ScoredInv, Evaluation, EvaluationIn
  <2>3. e.tier = score.tier /\ score.tier # "C"
    <3>1. e.tier = StrategyTier(EvaluationIn("C"))
      BY DEF Evaluation, EvaluationIn
    <3>2. e.tier # "C"
      BY <2>1, SetupsAreBuilt
    <3> QED
      BY <3>1, <3>2, <2>1, FloorsAgree DEF Ruled
  <2>4. structure.measured
    <3>1. PICK setup \in Setups(e) : TRUE
      BY <2>1
    <3>2. PICK type, direction : setup \in Build(e, type, direction)
      BY SetupsAreBuilt
    <3> QED
      BY <2>2, <3>2, BuiltSetup
  <2>5. pull.verified /\ pull.closes /\ (structure.borrow => pull.borrow)
    BY <2>2, <2>4 DEF OptionsStructure, NoStructure
  <2>6. ASSUME NEW n \in Required(cand.class)
        PROVE  found[n].available /\ found[n].status \in {"verified", "partial"}
    <3>1. Condition(found[n]) # "C"
      BY <2>1, <2>3, OneMissingIsTierC
    <3>2. found[n].status \in Validation
      BY <2>1, ComponentsTyped DEF Required, Component, ComponentScore
    <3> QED
      BY <3>1, <3>2 DEF Condition, Validation
  <2>7. ASSUME NEW setup \in setups
        PROVE  setup.instrument \in cand.permitted
    <3>1. PICK type, direction : setup \in Build(e, type, direction)
      BY <2>1, SetupsAreBuilt
    <3>2. setup.instrument \in e.gate.permitted
      BY <3>1, BuiltSetup, SelectedFits
    <3> QED
      BY <3>2 DEF Evaluation, EvaluationIn, Gated, Permitted
  <2>8. ASSUME NEW setup \in setups, setup.direction = "short"
        PROVE  pull.borrow
    <3>1. setup \notin ShortPremium(e) /\ setup \notin LongPremium(e)
      BY <2>8, BuiltSetup DEF ShortPremium, LongPremium
    <3>2. setup \in EventDirectional(e)
      BY <2>1, <3>1 DEF Setups
    <3>3. ~Bullish(e.score)
      BY <2>8, <3>2, BuiltSetup DEF EventDirectional
    <3>4. ~BorrowBlocks(e)
      BY <3>2, <3>3 DEF EventDirectional, Neutral
    <3> QED
      BY <2>2, <2>5, <3>4 DEF BorrowBlocks
  <2> QED
    BY <2>5, <2>6, <2>7, <2>8 DEF TradeableIsGrounded
<1> QED
  BY <1>1, Invariance, PTL

-----------------------------------------------------------------------------
(* A weaker component leaves no more of the tier.                          *)
LEMMA WeakerCondition ==
  ASSUME NEW component \in ComponentScore, NEW weak \in Weaker(component)
  PROVE  Severity[Condition(weak)] >= Severity[Condition(component)]
<1>1. CASE weak = NoComponent
  <2>1. Condition(weak) = "C"
    BY <1>1 DEF NoComponent, Condition
  <2> QED
    BY <2>1 DEF Condition, Severity
<1>2. CASE component.status = "verified" /\ weak = [component EXCEPT !.status = "partial"]
  <2>1. /\ weak.available = component.available /\ weak.quality = component.quality
        /\ weak.status = "partial"
    BY <1>2 DEF ComponentScore
  <2> QED
    BY <1>2, <2>1 DEF Condition, Severity
<1>3. CASE component.quality = "primary" /\ weak = [component EXCEPT !.quality = "aggregator"]
  <2>1. /\ weak.available = component.available /\ weak.status = component.status
        /\ weak.quality = "aggregator"
    BY <1>3 DEF ComponentScore
  <2> QED
    BY <1>3, <2>1 DEF Condition, Severity
<1> QED
  BY <1>1, <1>2, <1>3 DEF Weaker

(* The required tier is no better than any of the conditions.              *)
LEMMA RequiredTierIsWorst ==
  ASSUME NEW found, NEW other, NEW class,
         \A n \in Required(class) :
           Severity[Condition(other[n])] >= Severity[Condition(found[n])]
  PROVE  Severity[RequiredTier(other, class)] >= Severity[RequiredTier(found, class)]
<1>1. \A c : Condition(c) \in Tier
  BY DEF Condition, Tier
<1>2. CASE RequiredTier(found, class) = "C"
  <2>1. PICK n \in Required(class) : Condition(found[n]) = "C"
    BY <1>2 DEF RequiredTier
  <2>2. Condition(other[n]) = "C"
    BY <1>1, <2>1 DEF Tier, Severity
  <2>3. RequiredTier(other, class) = "C"
    BY <2>2 DEF RequiredTier
  <2> QED
    BY <1>2, <2>3 DEF Severity
<1>3. CASE RequiredTier(found, class) = "B"
  <2>1. PICK n \in Required(class) : Condition(found[n]) = "B"
    BY <1>3 DEF RequiredTier
  <2>2. Condition(other[n]) \in {"B", "C"}
    BY <1>1, <2>1 DEF Tier, Severity
  <2>3. RequiredTier(other, class) \in {"B", "C"}
    BY <2>2 DEF RequiredTier
  <2> QED
    BY <1>3, <2>3 DEF Severity
<1>4. CASE RequiredTier(found, class) = "A"
  BY <1>4 DEF RequiredTier, Severity
<1> QED
  BY <1>2, <1>3, <1>4 DEF RequiredTier

(* Worse evidence never improves a tier (WeakerEvidenceKeepsTier).         *)
THEOREM TierIsMonotone == Spec => []WeakerEvidenceKeepsTier
<1>1. StateInv => WeakerEvidenceKeepsTier
  <2> DEFINE found == Components(pull, structure, mode)
             With(n, weak) == [found EXCEPT ![n] = weak]
             New(n, weak) == Result(With(n, weak), structure, cand.class, cand.us,
                                    InHorizon(cand) # {})
  <2> SUFFICES ASSUME StateInv, pc = "rules",
                      NEW n \in Component, NEW weak \in Weaker(found[n])
               PROVE  Severity[New(n, weak).tier] >= Severity[score.tier]
    BY DEF WeakerEvidenceKeepsTier
  <2>1. Scored
    BY DEF Scored
  <2>2. found \in [Component -> ComponentScore]
    BY <2>1, ComponentsTyped
  <2>3. Required(cand.class) \subseteq Component
    BY DEF Required, Component
  <2>4. \A k \in Required(cand.class) :
          Severity[Condition(With(n, weak)[k])] >= Severity[Condition(found[k])]
    <3> SUFFICES ASSUME NEW k \in Required(cand.class)
                 PROVE  Severity[Condition(With(n, weak)[k])]
                          >= Severity[Condition(found[k])]
      OBVIOUS
    <3>1. CASE k = n
      <4>1. With(n, weak)[k] = weak
        BY <2>2, <3>1
      <4> QED
        BY <2>2, <3>1, <4>1, WeakerCondition
    <3>2. CASE k # n
      <4>1. With(n, weak)[k] = found[k]
        BY <2>2, <2>3, <3>2
      <4> QED
        BY <4>1 DEF Condition, Severity
    <3> QED
      BY <3>1, <3>2
  <2>5. Severity[RequiredTier(With(n, weak), cand.class)]
          >= Severity[RequiredTier(found, cand.class)]
    <3> HIDE DEF found, With
    <3> QED
      BY <2>4, RequiredTierIsWorst
  <2>6. score = ScoreOf(pull, structure)
    BY <2>1 DEF StateInv, ScoredInv
  <2> HIDE DEF found, With
  <2>7. CASE MeetsFloors(cand.class, structure, InHorizon(cand) # {})
    <3>1. score.tier = RequiredTier(found, cand.class)
      BY <2>6, <2>7 DEF ScoreOf, Result, found
    <3>2. New(n, weak).tier = RequiredTier(With(n, weak), cand.class)
      BY <2>7 DEF Result
    <3> QED
      BY <2>5, <3>1, <3>2
  <2>8. CASE ~MeetsFloors(cand.class, structure, InHorizon(cand) # {})
    <3>1. score.tier = "C" /\ New(n, weak).tier = "C"
      BY <2>6, <2>8 DEF ScoreOf, Result
    <3> QED
      BY <3>1 DEF Severity
  <2> QED
    BY <2>7, <2>8
<1> QED
  BY <1>1, Invariance, PTL

-----------------------------------------------------------------------------
LEMMA StructureTyped ==
  ASSUME StateInv PROVE structure \in Structure
<1>1. NoStructure \in Structure
  BY DEF NoStructure, Structure
<1>2. CASE Scored
  <2>1. structure = OptionsStructure(pull, cand) /\ pull \in Pull
    BY <1>2, PullTyped DEF StateInv, ScoredInv
  <2>2. CASE pull.verified
    <3>1. EarningsInHorizon(cand) \in BOOLEAN
      BY DEF EarningsInHorizon
    <3>2. pull.closes \in BOOLEAN /\ pull.premium \in {"negative", "zero", "positive"}
      BY <2>1 DEF Pull
    <3>3. (pull.closes /\ EarningsInHorizon(cand)) \in BOOLEAN
      OBVIOUS
    <3>4. (IF pull.closes THEN pull.premium ELSE "none")
             \in {"none", "negative", "zero", "positive"}
      BY <3>2
    <3>5. /\ pull.borrow \in BOOLEAN /\ pull.volatile \in BOOLEAN /\ pull.front \in Nat
          /\ pull.ivRank \in {"none", "cheap", "middle", "rich"}
          /\ pull.skew \in {"none", "contained", "extreme"}
      BY <2>1 DEF Pull
    <3> QED
      BY <2>1, <2>2, <3>2, <3>3, <3>4, <3>5 DEF OptionsStructure, Structure
  <2>3. CASE ~pull.verified
    BY <1>1, <2>1, <2>3 DEF OptionsStructure
  <2> QED
    BY <2>2, <2>3
<1>3. CASE ~Scored
  BY <1>1, <1>3 DEF StateInv, ScoredInv
<1> QED
  BY <1>2, <1>3

(* The sum keeps to one hundred percent of the weight it is over.          *)
LEMMA WeightedSumBounded ==
  ASSUME NEW us, NEW found \in [Component -> ComponentScore]
  PROVE  WeightedSum(found, us) \in -100 * TotalWeight(found, us) .. 100 * TotalWeight(found, us)
<1> DEFINE x(n) == IF found[n].available THEN Weights(us)[n] * found[n].score ELSE 0
           w(n) == IF found[n].available THEN Weights(us)[n] ELSE 0
<1>1. ASSUME NEW n \in Component
      PROVE  w(n) \in Int /\ x(n) \in Int /\ -100 * w(n) <= x(n) /\ x(n) <= 100 * w(n)
  <2>1. found[n].score \in -100 .. 100
    BY DEF ComponentScore
  <2>2. Weights(us)[n] \in {5, 10, 15, 20, 25, 30, 35}
    BY DEF Weights, Component
  <2> QED
    BY <2>1, <2>2
<1>2. WeightedSum(found, us) = x("S_M") + x("S_O") + x("S_S") + x("S_I") + x("S_F")
  BY DEF WeightedSum, SumOfParts, Component
<1>3. TotalWeight(found, us) = w("S_M") + w("S_O") + w("S_S") + w("S_I") + w("S_F")
  BY DEF TotalWeight, SumOfParts, Component
<1> HIDE DEF x, w
<1> QED
  BY <1>1, <1>2, <1>3 DEF Component

LEMMA ScoreTyped ==
  ASSUME StateInv
  PROVE  /\ score.scored \in BOOLEAN /\ score.tier \in Tier
         /\ score.sum \in -100 * score.weight .. 100 * score.weight
<1>1. CASE ~Scored
  <2>1. score = NoScore
    BY <1>1 DEF StateInv, ScoredInv
  <2>2. score.scored = FALSE /\ score.sum = 0 /\ score.weight = 0
    BY <2>1 DEF NoScore
  <2>3. score.scored \in BOOLEAN
    BY <2>2
  <2>4. score.sum \in -100 * score.weight .. 100 * score.weight
    BY <2>2
  <2> QED
    BY <2>3, <2>4, ScoreTier
<1>2. CASE Scored
  <2> DEFINE found == Components(pull, structure, mode)
  <2>1. score = ScoreOf(pull, structure)
    BY <1>2 DEF StateInv, ScoredInv
  <2>2. /\ score.scored = (Available(found) # {})
        /\ score.sum = WeightedSum(found, cand.us)
        /\ score.weight = TotalWeight(found, cand.us)
    BY <2>1 DEF ScoreOf, Result
  <2>3. found \in [Component -> ComponentScore]
    BY <1>2, ComponentsTyped
  <2> HIDE DEF found
  <2>4. score.sum \in -100 * score.weight .. 100 * score.weight
    BY <2>2, <2>3, WeightedSumBounded
  <2>5. score.scored \in BOOLEAN
    BY <2>2
  <2> QED
    BY <2>4, <2>5, ScoreTier
<1> QED
  BY <1>1, <1>2

LEMMA SetupsTyped ==
  ASSUME StateInv PROVE setups \subseteq Setup
<1> SUFFICES ASSUME NEW setup \in setups PROVE setup \in Setup
  OBVIOUS
<1> DEFINE e == Evaluation
<1>1. Ruled /\ Scored /\ setup \in Setups(e)
  BY DEF StateInv, RuledInv, Ruled, Scored
<1>2. e.tier \in Tier
  <2>1. e.tier = StrategyTier(EvaluationIn("C"))
    BY DEF Evaluation, EvaluationIn
  <2> QED
    BY <1>1, <2>1, FloorsAgree, ScoreTier DEF Ruled
<1>3. \A type :
        Fits(e, type) # {} => Selected(e, type) \in Instrument
  <2>1. e.gate.permitted \subseteq Instrument
    <3>1. cand.permitted \subseteq Instrument
      BY <1>1, PullTyped DEF Candidate
    <3> QED
      BY <3>1 DEF Evaluation, EvaluationIn, Gated, Permitted
  <2> QED
    BY <2>1, SelectedFits
<1>4. ASSUME NEW type \in SetupType, NEW direction \in {"long", "short", "neutral"},
             setup \in Build(e, type, direction)
      PROVE  setup \in Setup
  <2>1. setup = [type |-> type, direction |-> direction, tier |-> e.tier,
                 instrument |-> Selected(e, type)]
    BY <1>4 DEF Build
  <2>2. Selected(e, type) \in Instrument
    BY <1>3, <1>4, BuiltSetup
  <2> QED
    BY <1>2, <2>1, <2>2 DEF Setup
<1>5. CASE setup \in ShortPremium(e)
  BY <1>4, <1>5 DEF ShortPremium, SetupType
<1>6. CASE setup \in LongPremium(e)
  BY <1>4, <1>6 DEF LongPremium, SetupType
<1>7. CASE setup \in EventDirectional(e)
  <2> HIDE DEF e
  <2> QED
    BY <1>4, <1>7 DEF EventDirectional, SetupType
<1> QED
  BY <1>1, <1>5, <1>6, <1>7 DEF Setups

(* Values are of their types (TypeOK).                                     *)
THEOREM TypeCorrect == Spec => []TypeOK
<1>1. StateInv => TypeOK
  <2> SUFFICES ASSUME StateInv PROVE TypeOK
    OBVIOUS
  <2>1. /\ cand \in Candidates /\ settings \in Settings /\ mode \in Mode
        /\ pc \in {"gate", "pull", "rules", "report", "done"}
        /\ failed \in {"no", "pull", "rules"}
    BY DEF StateInv, StageInv
  <2>2. pull = NoPull \/ pull \in Pull
    BY PullTyped DEF StateInv, ScoredInv
  <2>3. tier \in Tier
    <3>1. CASE Ruled
      BY <3>1, FloorsAgree, ScoreTier
      DEF StateInv, RuledInv, Evaluation, EvaluationIn, Ruled, Scored
    <3>2. CASE ~Ruled
      BY <3>2 DEF StateInv, RuledInv, Tier
    <3> QED
      BY <3>1, <3>2
  <2>4. idea \in {"none", "unlisted", "UNSCORED", "BLOCKED", "TRADEABLE", "WATCHLIST"}
    BY DEF StateInv, IdeaInv, IdeaStatus
  <2> QED
    BY <2>1, <2>2, <2>3, <2>4, StructureTyped, ScoreTyped, SetupsTyped DEF TypeOK
<1> QED
  BY <1>1, Invariance, PTL
=============================================================================
