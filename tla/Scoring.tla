------------------------------ MODULE Scoring ------------------------------
(***************************************************************************)
(* build_scoring_result (src/briefing_app/scoring.py): the composite score *)
(* of a ticker and its confidence tier, from the components the pull has   *)
(* computed and the options structure.  Scores and weights are in percent. *)
(* The composite is kept as its weighted sum and the weight it is over, so *)
(* that comparing it with a band needs no division.                        *)
(***************************************************************************)
EXTENDS Integers

Component == {"S_M", "S_O", "S_S", "S_I", "S_F"}
Tier      == {"A", "B", "C"}
Severity  == [A |-> 0, B |-> 1, C |-> 2]

(* ConfidenceTier.floor_to: the more severe tier wins.                     *)
FloorTo(tier, other) == IF Severity[other] > Severity[tier] THEN other ELSE tier

Weights(us) ==
  IF us THEN [S_M |-> 30, S_O |-> 25, S_S |-> 20, S_I |-> 15, S_F |-> 10]
  ELSE [S_M |-> 35, S_O |-> 30, S_S |-> 20, S_I |-> 10, S_F |-> 5]

Required(class) ==
  IF class \in {"V", "E"} THEN {"S_O", "S_M"} ELSE {"S_M", "S_S", "S_I", "S_F"}

Validation == {"verified", "partial", "unavailable", "synthetic"}
Quality    == {"primary", "aggregator", "manual", "none"}

(* A component is n/a or has a score.                                      *)
ComponentScore == [available : BOOLEAN, score : -100 .. 100,
                   status : Validation, quality : Quality]

NoComponent == [available |-> FALSE, score |-> 0,
                status |-> "unavailable", quality |-> "none"]

ConditionOfSynthetic(component) ==   \* mutant: synthetic not among the unavailable
  IF \/ ~component.available
     \/ component.status = "unavailable" \/ component.quality = "none"
  THEN "C"
  ELSE IF component.status = "partial" \/ component.quality \in {"aggregator", "manual"}
       THEN "B" ELSE "A"

(* What a required component leaves of the tier.                           *)
Condition(component) ==
  IF \/ ~component.available
     \/ component.status \in {"unavailable", "synthetic"}
     \/ component.quality = "none"
  THEN "C"
  ELSE IF component.status = "partial" \/ component.quality \in {"aggregator", "manual"}
       THEN "B" ELSE "A"

RequiredTierDegradedFirst(components, class) ==   \* mutant: tests swapped
  LET conditions == {Condition(components[n]) : n \in Required(class)}
  IN IF "B" \in conditions THEN "B" ELSE IF "C" \in conditions THEN "C" ELSE "A"

(* The worst condition of the required components.                         *)
RequiredTier(components, class) ==
  LET conditions == {Condition(components[n]) : n \in Required(class)}
  IN IF "C" \in conditions THEN "C" ELSE IF "B" \in conditions THEN "B" ELSE "A"

MeetsFloorsUnmeasured(class, structure, catalyst) ==   \* mutant: a floor dropped
  catalyst /\ (class = "S" => structure.borrow)

(* A ticker with structure, borrow evidence and catalyst that no floor of  *)
(* _universal_floor_reasons sends to Tier C.                               *)
MeetsFloors(class, structure, catalyst) ==
  /\ structure.measured
  /\ catalyst
  /\ class = "S" => structure.borrow

Available(components) == {n \in Component : components[n].available}

(* A missing component is dropped, not counted as neutral: the rest share  *)
(* its weight.                                                             *)
SumOfParts(part) == part["S_M"] + part["S_O"] + part["S_S"] + part["S_I"] + part["S_F"]

WeightedSum(components, us) ==
  SumOfParts([n \in Component |->
                IF components[n].available THEN Weights(us)[n] * components[n].score ELSE 0])

TotalWeightWithoutChain(components, us) ==   \* mutant: weighed before S_O is added
  SumOfParts([n \in Component |->
                IF components[n].available /\ n # "S_O" THEN Weights(us)[n] ELSE 0])

TotalWeight(components, us) ==
  SumOfParts([n \in Component |-> IF components[n].available THEN Weights(us)[n] ELSE 0])

Result(components, structure, class, us, catalyst) ==
  [scored |-> Available(components) # {},
   sum    |-> WeightedSum(components, us),
   weight |-> TotalWeight(components, us),
   tier   |-> IF MeetsFloors(class, structure, catalyst)
              THEN RequiredTier(components, class) ELSE "C"]

(* The bands of Posture.from_score: 15 and 60 percent.                     *)
NeutralBand == 15
StrongBand  == 60

Bullish(s)     == s.sum >= NeutralBand * s.weight
Bearish(s)     == s.sum <= -NeutralBand * s.weight
Neutral(s)     == ~Bullish(s) /\ ~Bearish(s)
Strong(s)      == s.sum >= StrongBand * s.weight \/ s.sum <= -StrongBand * s.weight
=============================================================================
