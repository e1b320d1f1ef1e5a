--------------------------- MODULE RequestBudget ---------------------------
(***************************************************************************)
(* The files of RequestBudget (src/briefing_app/providers/budget.py) for   *)
(* one provider, and what each of its methods does with the contents it    *)
(* has read: one counter file per UTC day, and one memo (plan_gated.json)  *)
(* of the endpoints the key cannot reach.                                  *)
(*                                                                         *)
(* The module holds no variables.  Every method reads a file, decides, and *)
(* rewrites it; the steps, and who else runs between them, are those of    *)
(* ProviderFetch.                                                          *)
(***************************************************************************)
EXTENDS Integers

CONSTANTS
  Endpoint,    \* the endpoints of the provider
  Allowance,   \* daily_requests of its policy, or NoLimit
  NoLimit,     \* "no daily count": daily_requests is None
  LastDay      \* bound: the days of the model are 0 .. LastDay

ASSUME BudgetAssumption ==
  /\ LastDay \in Nat
  /\ Allowance \in Nat \union {NoLimit}
  /\ NoLimit \notin Nat

Day == 0 .. LastDay

(* The parts of a day's counter file that a later call depends on: how     *)
(* many requests were claimed, and whether the provider itself said stop.  *)
CounterFile == [count : Nat, refused : BOOLEAN]

(* _read answers {} for a file that is absent, truncated, or not JSON: all *)
(* three are the same file to every reader.                                *)
Empty == [count |-> 0, refused |-> FALSE]

Unlimited == Allowance = NoLimit

ExhaustedByCountOnly(file) ==   \* mutant: the refusal on record not read
  ~Unlimited /\ file.count >= Allowance

(* reserve() raises BudgetExhausted: the recorded refusal outranks the     *)
(* configured ceiling, and a policy without a daily count never raises.    *)
Exhausted(file) == ~Unlimited /\ (file.refused \/ file.count >= Allowance)

(* What reserve() writes over the contents it read: one more request, a    *)
(* recorded refusal carried along.                                         *)
Reserved(file) == [count |-> file.count + 1, refused |-> file.refused]

(* note_quota_exhausted() records a refusal only for a provider with a     *)
(* daily count, and once per day.                                          *)
LearnsFrom(file) == ~Unlimited /\ ~file.refused

RefusedByCount(file) == [file EXCEPT !.count = Allowance]   \* mutant: counter filled up
RefusedAnew(file) == [Empty EXCEPT !.refused = TRUE]   \* mutant: count not kept
Refused(file) == [file EXCEPT !.refused = TRUE]

(* remaining(): what is left of the configured count.  It does not look at *)
(* the recorded refusal.                                                   *)
Remaining(file) ==
  IF Unlimited THEN NoLimit
  ELSE IF file.count >= Allowance THEN 0 ELSE Allowance - file.count

GatedAlone(known, e) == {e}   \* mutant: the memo's other endpoints not kept

(* note_plan_gated() rewrites the memo with the endpoint added.            *)
GatedWith(known, e) == known \union {e}
=============================================================================
