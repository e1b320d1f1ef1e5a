--------------------------- MODULE DailyAllowance ---------------------------
(***************************************************************************)
(* What the request budget promises, without files or processes: requests  *)
(* are claimed against a day, never more than its allowance, and none      *)
(* against a day the provider has said stop for.                           *)
(***************************************************************************)
EXTENDS Integers

CONSTANTS Day, Allowance, NoLimit

VARIABLES
  claimed,   \* claimed[d]: the requests claimed against day d
  stopped    \* the days whose refusal is on record

vars == <<claimed, stopped>>

Init == claimed = [d \in Day |-> 0] /\ stopped = {}

Claim(d) ==
  /\ Allowance # NoLimit => (d \notin stopped /\ claimed[d] < Allowance)
  /\ claimed' = [claimed EXCEPT ![d] = @ + 1]
  /\ UNCHANGED stopped

Stop(d) ==
  /\ stopped' = stopped \union {d}
  /\ UNCHANGED claimed

Next == \E d \in Day : Claim(d) \/ Stop(d)

Spec == Init /\ [][Next]_vars
=============================================================================
