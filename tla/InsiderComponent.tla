-------------------------- MODULE InsiderComponent --------------------------
(***************************************************************************)
(* S_I (src/briefing_app/components/insider.py): the open-market trades of *)
(* insiders within a window, by what they are worth, how many people made  *)
(* them, and how senior those are.  US names; an EU name differs in what   *)
(* it discloses.                                                           *)
(***************************************************************************)
EXTENDS SubScores, Sequences

(* ROLE_WEIGHTS, in tenths; a title that names none is "other".            *)
RoleWeight == [ceo |-> 10, cfo |-> 10, operating |-> 7, senior |-> 6,
               director |-> 5, holder |-> 3, other |-> 4]
Senior == {r \in DOMAIN RoleWeight : RoleWeight[r] >= 7}

(* InsiderTransaction.  "mechanical" are EXCLUDED_CODES; plan: its words   *)
(* name a plan, a grant, an exercise or the like; side: what its words, or *)
(* a letter without words, say of the direction.  A value of 0 is unknown. *)
Transaction == [source : STRING, day : Int, insider : STRING, role : DOMAIN RoleWeight,
                code : {"P", "S", "mechanical", "unknown"}, plan : BOOLEAN,
                side : {"buy", "sell", "unsaid"}, value : Nat]

DirectionByWords(t) ==   \* mutant: the code of a transaction is not read
  IF t.plan THEN "excluded" ELSE IF t.side = "unsaid" THEN "excluded" ELSE t.side

(* classify_transaction: a code decides before the words do.               *)
Direction(t) ==
  CASE t.plan \/ t.code = "mechanical" -> "excluded"
    [] ~t.plan /\ t.code = "P"         -> "buy"
    [] ~t.plan /\ t.code = "S"         -> "sell"
    [] ~t.plan /\ t.code = "unknown"   -> IF t.side = "unsaid" THEN "excluded" ELSE t.side

(* extract_activity: the places of the trades in that direction.           *)
InWindow(t, today, window) == today - t.day \in 0 .. window
Trades(list, direction, today, window) ==
  {i \in DOMAIN list : /\ InWindow(list[i], today, window)
                       /\ Direction(list[i]) = direction}

(* _net_flow_sub_score; the scale is NET_VALUE_SCALE.                      *)
NetFlow(list, buys, sells, scale) ==
  LET Value(trades)    == SumFunction([i \in trades |-> list[i].value])
      Weighted(trades) == SumFunction([i \in trades |-> list[i].value * RoleWeight[list[i].role]])
  IN  IF Value(buys \union sells) = 0 THEN NA
      ELSE Reads(Squash(Weighted(buys) - Weighted(sells), 10 * scale))

(* _breadth_sub_score: four people are full conviction.                    *)
Breadth(list, buys, sells) ==
  LET buyers  == Cardinality({list[i].insider : i \in buys})
      sellers == Cardinality({list[i].insider : i \in sells})
      people  == buyers + sellers
  IN  IF people = 0 THEN NA
      ELSE Reads(Quotient(100 * (buyers - sellers) * Min({people, 4}), 4 * people))

(* _seniority_sub_score.                                                   *)
Seniority(list, buys, sells) ==
  LET Value(trades) ==
        SumFunction([i \in trades |-> IF list[i].role \in Senior THEN list[i].value ELSE 0])
      bought == Value(buys)
      sold   == Value(sells)
  IN  IF bought + sold = 0 THEN NA
      ELSE Reads(Quotient(100 * (bought - sold), bought + sold))

(* build_insider_component.                                                *)
Insider(issuer, list, today, window, scale) ==
  LET buys  == Trades(list, "buy", today, window)
      sells == Trades(list, "sell", today, window)
      legs  == [net_flow  |-> Leg(NetFlow(list, buys, sells, scale), 60, NoCeiling),
                breadth   |-> Leg(Breadth(list, buys, sells), 25, NoCeiling),
                seniority |-> Leg(Seniority(list, buys, sells), 15, NoCeiling)]
  IN  IF issuer THEN Component_(Combine(legs), "verified", "primary") ELSE NoComponent
=============================================================================
