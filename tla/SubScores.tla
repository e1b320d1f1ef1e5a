----------------------------- MODULE SubScores -----------------------------
(***************************************************************************)
(* What the component builders share (src/briefing_app/components/base.py):*)
(* the legs of a component and the weighted mean that passes the weight of *)
(* a leg that could not be measured on to the others.  Scores, weights and *)
(* ceilings are in percent; a quotient is cut towards zero.                *)
(***************************************************************************)
EXTENDS Scoring, FiniteSetsExt

Abs(x)   == IF x < 0 THEN -x ELSE x
Clamp(x) == IF x > 100 THEN 100 ELSE IF x < -100 THEN -100 ELSE x

Quotient(x, y) == IF x < 0 THEN -((-x) \div y) ELSE x \div y

(* squash: half the scale reads two thirds, the scale itself one.          *)
Squash(value, scale) == Clamp(Quotient(200 * value, scale + Abs(value)))

(* A measurement, or its absence, which is never neutral.                  *)
Reading      == [measured : BOOLEAN, score : -100 .. 100]
NA           == [measured |-> FALSE, score |-> 0]
Reads(score) == [measured |-> TRUE, score |-> Clamp(score)]

MeanOf(scores) ==
  IF DOMAIN scores = {} THEN NA
  ELSE Reads(Quotient(SumFunction(scores), Cardinality(DOMAIN scores)))

(* SubScore.  A share is never above 100, so that ceiling is none.         *)
NoCeiling == 100
Leg(reading, weight, ceiling) ==
  [reading |-> reading, weight |-> weight, ceiling |-> ceiling]

(* combine_sub_scores.  A leg whose share exceeds its ceiling is held at   *)
(* it, and what that frees goes to the legs that are not held, which may   *)
(* lift another one over its own; with no leg to take it, nothing scores.  *)
Measurable(legs) ==
  {l \in DOMAIN legs : legs[l].reading.measured /\ legs[l].weight > 0}
WeightOf(legs, names)   == SumFunction([l \in names |-> legs[l].weight])
CeilingOf(legs, names)  == SumFunction([l \in names |-> legs[l].ceiling])

Over(legs, held) ==
  LET free == Measurable(legs) \ held
  IN  {l \in free : legs[l].weight * (100 - CeilingOf(legs, held))
                      > legs[l].ceiling * WeightOf(legs, free)}

Held(legs) ==
  LET rounds == Cardinality(DOMAIN legs)
      held[i \in 0 .. rounds] ==
        IF i = 0 THEN {} ELSE held[i - 1] \union Over(legs, held[i - 1])
  IN  held[rounds]

CombineUncapped(legs) ==   \* mutant: ceilings are not looked at
  LET free == Measurable(legs)
      shares == [l \in free |-> legs[l].weight * legs[l].reading.score]
  IN  IF free = {} THEN NA
      ELSE Reads(Quotient(SumFunction(shares), WeightOf(legs, free)))

Combine(legs) ==
  LET held  == Held(legs)
      free  == Measurable(legs) \ held
      pool  == WeightOf(legs, free)
      left  == 100 - CeilingOf(legs, held)
      shares == [l \in free |-> legs[l].weight * legs[l].reading.score]
      capped == [l \in held |-> legs[l].ceiling * legs[l].reading.score]
  IN  IF free = {} THEN NA
      ELSE Reads(Quotient(left * SumFunction(shares) + pool * SumFunction(capped),
                          100 * pool))

(* is_stale: a day to come is never stale.                                 *)
IsStale(day, today, maxAge) == today - day > maxAge

(* ComponentResult, as scoring reads it; unavailable_component is          *)
(* NoComponent.                                                            *)
Component_(reading, status, quality) ==
  IF reading.measured
    THEN [available |-> TRUE, score |-> reading.score,
          status |-> status, quality |-> quality]
    ELSE NoComponent
=============================================================================
