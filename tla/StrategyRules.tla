--------------------------- MODULE StrategyRules ---------------------------
(***************************************************************************)
(* The rules of src/briefing_app/strategy/engine.py for one scored ticker, *)
(* with the default thresholds of StrategySettings.  A measurement is      *)
(* reduced to the side of the thresholds it lies on.                       *)
(*                                                                         *)
(* A rule is given the evaluation e: the gate's result, the score, the     *)
(* options structure, whether the chain is liquid, and the tier.  Where it *)
(* rejects, it yields no setup; the codes and texts of rejections are left *)
(* out, and so are scenario probabilities, warnings, evidence and sizes.   *)
(*                                                                         *)
(* No rule is given for three setups.  Classes P and S require S_F, which  *)
(* no pull computes, so they never leave Tier C (OwnershipClassesFloored); *)
(* and no data source has the history that the skew rule asks for.         *)
(***************************************************************************)
EXTENDS GateRules, Scoring

SetupType == {"short_premium_iron_condor", "long_premium_straddle",
              "long_premium_calendar", "event_directional_long",
              "event_directional_put", "event_directional_vertical",
              "watchlist_no_trade"}

(* What can express a setup, best first.                                   *)
Preference(type) ==
  IF type = "event_directional_long"
  THEN <<"options", "shares", "etf", "futures", "knock_out",
         "factor_certificate", "warrant", "cfd">>
  ELSE <<"options">>

(* What build_options_structure measures.  ivRank: below 25, above 70 or   *)
(* between; premium: the sign of the variance risk premium; skew: of the   *)
(* 25-delta risk reversal; front: the weekly expiry, 0 if there is none;   *)
(* volatile: the routine day comes too near the knock-out barrier.         *)
Structure == [available : BOOLEAN, measured : BOOLEAN, borrow : BOOLEAN,
              widened : BOOLEAN,
              ivRank : {"none", "cheap", "middle", "rich"},
              premium : {"none", "negative", "zero", "positive"},
              skew : {"none", "contained", "extreme"},
              front : Nat, volatile : BOOLEAN]

(* _apply_tier_floors, which looks at the evidence again.                  *)
MeetsStrategyFloors(e) ==
  /\ e.structure.available /\ e.structure.measured
  /\ e.gate.catalysts # {}
  /\ e.gate.class = "S" => e.structure.available /\ e.structure.borrow
  /\ e.score.scored

StrategyTier(e) ==
  IF MeetsStrategyFloors(e) THEN e.score.tier ELSE FloorTo(e.score.tier, "C")

InferredByFlag(e) == ~e.gate.confirmed   \* mutant: the flag alone

(* The primary catalyst is inferred, or every one of the horizon is.       *)
Inferred(e) == ~e.gate.primary.confirmed \/ ~e.gate.confirmed

(* check_leverage, at the default leverage: an estimated date, a missing   *)
(* range or a routine move too near the barrier each refuse it.            *)
LeverageRefused(e) ==
  ~e.gate.primary.confirmed \/ ~e.structure.measured \/ e.structure.volatile

(* _select_instrument: the positions in the preference that are permitted. *)
Fits(e, type) ==
  {i \in DOMAIN Preference(type) : Preference(type)[i] \in e.gate.permitted}

Selected(e, type) ==
  Preference(type)[CHOOSE i \in Fits(e, type) : \A j \in Fits(e, type) : i <= j]

(* _build_setup: the floor every rule that fires goes through.             *)
Build(e, type, direction) ==
  IF \/ Inferred(e)
     \/ Fits(e, type) = {}
     \/ ~e.structure.measured
     \/ Selected(e, type) \in Leveraged /\ LeverageRefused(e)
  THEN {}
  ELSE {[type |-> type, direction |-> direction, tier |-> e.tier,
         instrument |-> Selected(e, type)]}

(* Events of the horizon, if the range was not widened for one.            *)
Unmodeled(e) == IF e.structure.widened THEN {} ELSE e.gate.catalysts

ShortPremiumByRank(e) ==   \* mutant: the premium not looked at
  IF /\ e.structure.ivRank = "rich" /\ Neutral(e.score)
     /\ e.structure.skew = "contained" /\ Unmodeled(e) = {} /\ e.liquid
  THEN Build(e, "short_premium_iron_condor", "neutral") ELSE {}

ShortPremium(e) ==
  IF /\ e.structure.ivRank = "rich" /\ Neutral(e.score)
     /\ e.structure.skew = "contained" /\ e.structure.premium = "positive"
     /\ Unmodeled(e) = {} /\ e.liquid
  THEN Build(e, "short_premium_iron_condor", "neutral") ELSE {}

CatalystWindow == 10   \* catalyst_window_days

(* Volatility is cheap by its rank or against what was realized.           *)
CheapVolatility(e) ==
  e.structure.ivRank = "cheap" \/ e.structure.premium = "negative"

LongPremium(e) ==
  IF e.gate.primary.day <= CatalystWindow /\ CheapVolatility(e) /\ e.liquid
  THEN LET late == e.structure.front # 0 /\ e.gate.primary.day > e.structure.front
       IN Build(e, IF late THEN "long_premium_calendar" ELSE "long_premium_straddle",
                "neutral")
  ELSE {}

(* A bearish expression needs verified borrow evidence.                    *)
BorrowBlocks(e) == ~e.structure.borrow

EventDirectional(e) ==
  IF Neutral(e.score) \/ (Bearish(e.score) /\ BorrowBlocks(e)) THEN {}
  ELSE Build(e, IF ~Strong(e.score) THEN "event_directional_vertical"
                ELSE IF Bullish(e.score) THEN "event_directional_long"
                ELSE "event_directional_put",
             IF Bullish(e.score) THEN "long" ELSE "short")

(* evaluate_candidate_setups: no rule runs in Tier C.                      *)
Setups(e) ==
  IF e.tier = "C" THEN {}
  ELSE IF e.gate.class = "V" THEN ShortPremium(e) \union LongPremium(e)
  ELSE IF e.gate.class = "E" THEN EventDirectional(e)
  ELSE {}
=============================================================================
