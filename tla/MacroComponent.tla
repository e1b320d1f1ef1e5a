--------------------------- MODULE MacroComponent ---------------------------
(***************************************************************************)
(* S_M (src/briefing_app/components/macro.py): the trends of macro factors *)
(* against the exposure that is declared for the sector.  A trend is the   *)
(* last change of a series of figures on the scale of its own changes, or  *)
(* the surprise of a release against its estimate.  The calendar and the   *)
(* event risk, which carry no direction, are left out.                     *)
(***************************************************************************)
EXTENDS SubScores, Sequences

Trend(name, factor, trend, day) ==
  [name |-> name, factor |-> factor, trend |-> trend, day |-> day]
NoReading == Trend("none", "none", 0, 0)

(* _stdev, squared and free of fractions: of n changes, n * (n - 1) times  *)
(* their variance.                                                         *)
Spread(changes) ==
  LET n == Len(changes)
      total   == SumFunction(changes)
      squares == SumFunction([i \in DOMAIN changes |-> changes[i] * changes[i]])
  IN  n * squares - total * total

(* The change in units of twice the deviation, in percent: how many of the *)
(* hundredths it reaches.                                                  *)
Strength(change, changes) ==
  LET n == Len(changes)
      spread == Spread(changes)
      size == Cardinality({r \in 1 .. 100 :
                 4 * r * r * spread <= 10000 * change * change * n * (n - 1)})
  IN  IF change < 0 THEN -size ELSE size

(* _known_at: the day of the release, or of the period without one.        *)
KnownAt(event) == IF event.released < 0 THEN event.period ELSE event.released

(* release_change_reading, of a series oldest first, whose periods of the  *)
(* past are its first.  Too short, stale or flat is no reading, never a    *)
(* neutral one.                                                            *)
ReleaseChange(events, factor, today, maxAge, minHistory) ==
  LET n == Cardinality({i \in DOMAIN events : events[i].period <= today})
      changes == [i \in 1 .. n - 1 |-> events[i + 1].value - events[i].value]
  IN  IF n < minHistory + 1 THEN NoReading
      ELSE IF IsStale(KnownAt(events[n]), today, maxAge) THEN NoReading
      ELSE IF Spread(changes) = 0 THEN NoReading
      ELSE Trend(factor, factor, Strength(changes[n - 1], changes), KnownAt(events[n]))

(* release_surprise and _surprise_readings: a tenth of the estimate is a   *)
(* full surprise.  An estimate of 0 is measured by the figure before it.   *)
Surprise(event) ==
  LET scale == CASE event.estimate # 0 -> Abs(event.estimate)
                 [] event.estimate = 0 /\ event.previous # 0 -> Abs(event.previous)
                 [] OTHER -> 1
  IN  Clamp(Quotient(1000 * (event.actual - event.estimate), scale))

Surprises(calendar, today, maxAge) ==
  {Trend(e.name, e.factor, Surprise(e), e.day) :
     e \in {e \in calendar : /\ e.day <= today /\ ~IsStale(e.day, today, maxAge)
                             /\ e.estimated /\ e.factor # "unknown"}}

(* FACTOR_BUCKETS, of one factor for each bucket and a second of one.      *)
Bucket == [yield_curve |-> "policy", cpi |-> "growth", unemployment |-> "growth",
           wti |-> "commodity"]

(* _bucket_scores and _bucket_sub_score.  A factor without a declared      *)
(* sensitivity is skipped.                                                 *)
BucketScore(bucket, readings, sensitivity) ==
  LET used == {r \in readings : /\ r.factor \in DOMAIN Bucket \intersect DOMAIN sensitivity
                                /\ Bucket[r.factor] = bucket}
  IN  MeanOf([r \in used |-> Clamp(Quotient(r.trend * sensitivity[r.factor], 100))])

(* build_macro_component.  exposure: the sensitivities, and the policy     *)
(* stance of the sector, declared or not.                                  *)
Macro(exposure, readings, calendar, today, maxAge) ==
  LET all  == {r \in readings : ~IsStale(r.day, today, maxAge)}
                \union Surprises(calendar, today, maxAge)
      Scored(bucket) == BucketScore(bucket, all, exposure.sensitivity)
      legs == [policy    |-> Leg(Scored("policy"), 30, NoCeiling),
               growth    |-> Leg(Scored("growth"), 30, NoCeiling),
               commodity |-> Leg(Scored("commodity"), 20, NoCeiling),
               sector    |-> Leg(exposure.stance, 20, NoCeiling)]
      whole == \A l \in DOMAIN legs : legs[l].reading.measured
  IN  IF exposure.declared
        THEN Component_(Combine(legs), IF whole THEN "verified" ELSE "partial", "primary")
        ELSE NoComponent
=============================================================================
