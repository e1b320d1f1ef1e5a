----------------------------- MODULE GateRules -----------------------------
(***************************************************************************)
(* The rules of the catalyst gate (src/briefing_app/universe/gate.py): what *)
(* evaluate_candidate makes of one candidate.  A date is a number of days  *)
(* from the date of the run.  Details of reasons, the flags that only warn, *)
(* crowding and the ledger's counts (GateLedger) are left out.             *)
(***************************************************************************)
EXTENDS Integers, FiniteSets

ExpressionClass == {"V", "E", "P", "S"}

Instrument == {"shares", "etf", "options", "futures", "factor_certificate",
               "knock_out", "warrant", "cfd"}

Leveraged == {"factor_certificate", "knock_out", "warrant", "cfd", "futures"}

(* Instruments that can express a class.                                   *)
ClassInstruments ==
  [V |-> {"options"},
   E |-> Instrument,
   P |-> {"shares", "etf", "options"},
   S |-> {"options", "shares", "cfd", "knock_out", "factor_certificate"}]

Catalyst == [day : Int, confirmed : BOOLEAN, earnings : BOOLEAN]

(* A declaration.  duplicate: the ticker was already loaded.  thesis: it    *)
(* has a primary source.  borrow: it names a source of borrow evidence.    *)
Candidate == [class : ExpressionClass, us : BOOLEAN, horizon : Nat,
              catalysts : SUBSET Catalyst, permitted : SUBSET Instrument,
              borrow : BOOLEAN, thesis : BOOLEAN, duplicate : BOOLEAN]

GateSettings == [enabled : SUBSET ExpressionClass,
                 leverageOnEstimated : BOOLEAN,
                 euOptionsTrack : {"A", "B", "C"},
                 requireBorrowSource : BOOLEAN,
                 requireThesisSource : BOOLEAN,
                 unverifiedToWatchlist : BOOLEAN]

InHorizon(c) == {k \in c.catalysts : k.day \in 0 .. c.horizon}
HasConfirmed(c) == \E k \in InHorizon(c) : k.confirmed

(* The earliest in the horizon; of one day, a confirmed one.               *)
PrimaryCatalyst(c) ==
  CHOOSE k \in InHorizon(c) :
    \A j \in InHorizon(c) :
      \/ k.day < j.day
      \/ k.day = j.day /\ (k.confirmed \/ ~j.confirmed)

LeverageAllowed(c, s) == HasConfirmed(c) \/ s.leverageOnEstimated

(* The instruments that may carry the idea: those of the broker and of the *)
(* class, without the leveraged ones if no date is confirmed.              *)
Permitted(c, s) ==
  {i \in c.permitted \intersect ClassInstruments[c.class] :
     LeverageAllowed(c, s) \/ i \notin Leveraged}

(* Fits that were lost to the rule on leverage alone.                      *)
OnlyLeveraged(c, s) ==
  /\ c.permitted \intersect ClassInstruments[c.class] # {}
  /\ ~LeverageAllowed(c, s)
  /\ c.permitted \intersect Leveraged # {}

ReasonCode == {"duplicate_ticker", "no_catalyst_in_horizon", "class_not_enabled",
               "no_instrument_fit", "leverage_requires_confirmed_catalyst",
               "eu_options_unavailable", "borrow_source_undeclared",
               "unverified_thesis"}

(* Every rule is evaluated; none stops at the first failure.               *)
Fails(rule, c, s) ==
  CASE rule = "duplicate_ticker" -> c.duplicate
    [] rule = "class_not_enabled" -> c.class \notin s.enabled
    [] rule = "no_catalyst_in_horizon" -> InHorizon(c) = {}
    [] rule = "leverage_requires_confirmed_catalyst" ->
         Permitted(c, s) = {} /\ OnlyLeveraged(c, s)
    [] rule = "no_instrument_fit" ->
         Permitted(c, s) = {} /\ ~OnlyLeveraged(c, s)
    [] rule = "eu_options_unavailable" ->
         c.class \in {"V", "E"} /\ ~c.us /\ s.euOptionsTrack = "C"
    [] rule = "borrow_source_undeclared" ->
         c.class = "S" /\ s.requireBorrowSource /\ ~c.borrow
    [] rule = "unverified_thesis" ->
         s.requireThesisSource /\ ~c.thesis /\ s.unverifiedToWatchlist

Reasons(c, s) == {rule \in ReasonCode : Fails(rule, c, s)}

Decision(c, s) ==
  IF Reasons(c, s) \intersect {"duplicate_ticker", "no_instrument_fit"} # {}
  THEN "rejected"
  ELSE IF Reasons(c, s) # {} THEN "watchlist" ELSE "accepted"
=============================================================================
