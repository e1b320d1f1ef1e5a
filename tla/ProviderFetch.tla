--------------------------- MODULE ProviderFetch ---------------------------
(***************************************************************************)
(* BaseProviderClient (src/briefing_app/providers/base.py): the clients    *)
(* of one provider in several processes (a scheduled run, a backfill, runs *)
(* started over the API) that share its counter files, its memo of gated   *)
(* endpoints and the raw cache.                                            *)
(*                                                                         *)
(* A step is one file access, one request, or one answer.  A file is       *)
(* rewritten in two steps, because Path.write_text truncates it before it  *)
(* writes; in between, every reader finds it Empty.                        *)
(***************************************************************************)
EXTENDS RequestBudget

CONSTANTS
  Proc,         \* the processes that hold a client of this provider
  Premium,      \* premium_endpoints, the provider being on its free plan
  Attempts,     \* 1 + network_retries
  ClaimBound,   \* bound: no call starts on a day with this many claims
  MaxCrashes    \* bound: processes killed between two steps

ASSUME FetchAssumption ==
  /\ Endpoint # {}
  /\ Premium \subseteq Endpoint
  /\ Attempts \in Nat \ {0}
  /\ ClaimBound \in Nat
  /\ MaxCrashes \in Nat

VARIABLES
  today,      \* the UTC date
  counter,    \* counter[d]: the contents of the counter file of day d
  gated,      \* the endpoints in plan_gated.json
  cached,     \* cached[e]: the status of the payload in the raw cache
  pc,         \* pc[p]: what p does next
  call,       \* call[p]: the locals of p's current call
  refusals,   \* refusals[p][e]: _refusal_counts of p's client
  crashes,
  \* What happened, for the properties:
  claimed,    \* claimed[d]: reservations made against day d
  stopped,    \* days a refusal was recorded for
  gateNoted   \* endpoints some process has recorded as gated

files    == <<counter, gated, cached>>
history  == <<claimed, stopped, gateNoted>>
vars     == <<today, files, pc, call, refusals, crashes, history>>

(* REPEAT_REFUSAL_THRESHOLD *)
Threshold == 2

(* What an answer amounts to once validated.  "plan_gated": an entitlement *)
(* status whose wording gates the endpoint; "other": every other answer    *)
(* that is not usable data (missing, a symbol gate, HTTP 5xx, a body that  *)
(* is not JSON), which changes no state.                                   *)
Status == {"ok", "malformed", "throttled", "plan_gated", "other"}

PC == {"idle", "guard", "reserve", "reserve_truncate", "reserve_write", "send",
       "gate", "gate_truncate", "gate_write",
       "quota", "quota_truncate", "quota_write"}

Call == [endpoint : Endpoint, tries : 0 .. Attempts - 1, day : Day,
         file : CounterFile, known : SUBSET Endpoint]

TypeOK ==
  /\ today \in Day
  /\ counter \in [Day -> CounterFile]
  /\ gated \subseteq Endpoint
  /\ cached \in [Endpoint -> Status \union {"none"}]
  /\ pc \in [Proc -> PC]
  /\ call \in [Proc -> Call]
  /\ refusals \in [Proc -> [Endpoint -> Nat]]
  /\ crashes \in 0 .. MaxCrashes
  /\ claimed \in [Day -> Nat]
  /\ stopped \subseteq Day
  /\ gateNoted \subseteq Endpoint

NoCall == [endpoint |-> CHOOSE e \in Endpoint : TRUE, tries |-> 0, day |-> 0,
           file |-> Empty, known |-> {}]

Init ==
  /\ today = 0
  /\ counter = [d \in Day |-> Empty]
  /\ gated = {}
  /\ cached = [e \in Endpoint |-> "none"]
  /\ pc = [p \in Proc |-> "idle"]
  /\ call = [p \in Proc |-> NoCall]
  /\ refusals = [p \in Proc |-> [e \in Endpoint |-> 0]]
  /\ crashes = 0
  /\ claimed = [d \in Day |-> 0]
  /\ stopped = {}
  /\ gateNoted = {}

Goto(p, label) == pc' = [pc EXCEPT ![p] = label]
Return(p) == Goto(p, "idle") /\ call' = [call EXCEPT ![p] = NoCall]

-----------------------------------------------------------------------------
(* fetch_json_url / fetch_text_url: ask for an endpoint.                   *)
Fetch(p, e) ==
  /\ pc[p] = "idle"
  /\ claimed[today] < ClaimBound
  /\ call' = [call EXCEPT ![p] = [NoCall EXCEPT !.endpoint = e]]
  /\ Goto(p, "guard")
  /\ UNCHANGED <<today, files, refusals, crashes, history>>

(* The process builds a new client: a live run does for each call of       *)
(* another leg or ticker, the backfill once.                               *)
NewClient(p) ==
  /\ pc[p] = "idle"
  /\ refusals' = [refusals EXCEPT ![p] = [e \in Endpoint |-> 0]]
  /\ UNCHANGED <<today, files, pc, call, crashes, history>>

(* _guard_request up to the budget: the premium list, the endpoints parked *)
(* for this run, and the memo as it reads now, each refuse the call.       *)
MayAskThrice(p) ==   \* mutant: > for >= in the test of the threshold
  LET e == call[p].endpoint
  IN  e \notin Premium /\ refusals[p][e] <= Threshold /\ e \notin gated

MayAsk(p) ==
  LET e == call[p].endpoint
  IN  e \notin Premium /\ refusals[p][e] < Threshold /\ e \notin gated

Guard(p) ==
  /\ pc[p] = "guard"
  /\ IF MayAsk(p) THEN Goto(p, "reserve") /\ UNCHANGED call ELSE Return(p)
  /\ UNCHANGED <<today, files, refusals, crashes, history>>

(* reserve(): the day and the counter are read here, and not again.        *)
ReserveWaits(p) ==   \* mutant: wait for the next day instead of raising
  /\ pc[p] = "reserve"
  /\ ~Exhausted(counter[today])
  /\ Goto(p, "reserve_truncate")
  /\ call' = [call EXCEPT ![p].day = today, ![p].file = counter[today]]
  /\ UNCHANGED <<today, files, refusals, crashes, history>>

Reserve(p) ==
  /\ pc[p] = "reserve"
  /\ IF Exhausted(counter[today])
       THEN Return(p)
       ELSE /\ Goto(p, "reserve_truncate")
            /\ call' = [call EXCEPT ![p].day = today,
                                    ![p].file = counter[today]]
  /\ UNCHANGED <<today, files, refusals, crashes, history>>

(* ... and, after the pacing sleep, that day's file is written from what   *)
(* was read.                                                               *)
ReserveTruncate(p) ==
  /\ pc[p] = "reserve_truncate"
  /\ counter' = [counter EXCEPT ![call[p].day] = Empty]
  /\ Goto(p, "reserve_write")
  /\ UNCHANGED <<today, gated, cached, call, refusals, crashes, history>>

ReserveWrite(p) ==
  /\ pc[p] = "reserve_write"
  /\ counter' = [counter EXCEPT ![call[p].day] = Reserved(call[p].file)]
  /\ claimed' = [claimed EXCEPT ![call[p].day] = @ + 1]
  /\ Goto(p, "send")
  /\ UNCHANGED <<today, gated, cached, call, refusals, crashes,
                 stopped, gateNoted>>

(* A timeout or a broken connection: guard and reserve again while         *)
(* attempts remain, else report network_error.                             *)
FaultOnceMore(p) ==   \* mutant: network_retries counted one too many
  /\ pc[p] = "send"
  /\ IF call[p].tries + 1 <= Attempts
       THEN Goto(p, "guard") /\ call' = [call EXCEPT ![p].tries = @ + 1]
       ELSE Return(p)
  /\ UNCHANGED <<today, files, refusals, crashes, history>>

Fault(p) ==
  /\ pc[p] = "send"
  /\ IF call[p].tries + 1 < Attempts
       THEN Goto(p, "guard") /\ call' = [call EXCEPT ![p].tries = @ + 1]
       ELSE Return(p)
  /\ UNCHANGED <<today, files, refusals, crashes, history>>

(* An answer, validated: _cache_valid_payload, then the head of _response. *)
(* The two statuses that are remembered beyond this client go on to        *)
(* rewrite a file.                                                         *)
AfterAnswer(status) ==
  CASE status = "plan_gated" -> "gate"
    [] status = "throttled"  -> "quota"
    [] OTHER                 -> "idle"

CacheAfter(status, e) ==
  IF status = "ok" THEN [cached EXCEPT ![e] = status] ELSE cached

RefusalsAfter(status, n) ==
  CASE status = "ok"        -> 0
    [] status = "malformed" -> n + 1
    [] OTHER                -> n

Answer(p, status) ==
  LET e == call[p].endpoint
  IN  /\ pc[p] = "send"
      /\ cached' = CacheAfter(status, e)
      /\ refusals' = [refusals EXCEPT ![p][e] = RefusalsAfter(status, @)]
      /\ IF AfterAnswer(status) = "idle"
           THEN Return(p)
           ELSE Goto(p, AfterAnswer(status)) /\ UNCHANGED call
      /\ UNCHANGED <<today, counter, gated, crashes,
                     claimed, stopped, gateNoted>>

(* note_plan_gated(): read the memo, add the endpoint, write it back.      *)
GateRead(p) ==
  /\ pc[p] = "gate"
  /\ IF call[p].endpoint \in gated
       THEN Return(p)
       ELSE /\ Goto(p, "gate_truncate")
            /\ call' = [call EXCEPT ![p].known = gated]
  /\ UNCHANGED <<today, files, refusals, crashes, history>>

GateTruncate(p) ==
  /\ pc[p] = "gate_truncate"
  /\ gated' = {}
  /\ Goto(p, "gate_write")
  /\ UNCHANGED <<today, counter, cached, call, refusals, crashes, history>>

GateWrite(p) ==
  /\ pc[p] = "gate_write"
  /\ gated' = GatedWith(call[p].known, call[p].endpoint)
  /\ gateNoted' = gateNoted \union {call[p].endpoint}
  /\ Return(p)
  /\ UNCHANGED <<today, counter, cached, refusals, crashes,
                 claimed, stopped>>

(* note_quota_exhausted(): the day is taken again, when the refusal is     *)
(* recorded, not when the request was claimed or sent.                     *)
QuotaRead(p) ==
  /\ pc[p] = "quota"
  /\ IF LearnsFrom(counter[today])
       THEN /\ Goto(p, "quota_truncate")
            /\ call' = [call EXCEPT ![p].day = today,
                                    ![p].file = counter[today]]
       ELSE Return(p)
  /\ UNCHANGED <<today, files, refusals, crashes, history>>

QuotaTruncate(p) ==
  /\ pc[p] = "quota_truncate"
  /\ counter' = [counter EXCEPT ![call[p].day] = Empty]
  /\ Goto(p, "quota_write")
  /\ UNCHANGED <<today, gated, cached, call, refusals, crashes, history>>

QuotaWrite(p) ==
  /\ pc[p] = "quota_write"
  /\ counter' = [counter EXCEPT ![call[p].day] = Refused(call[p].file)]
  /\ stopped' = stopped \union {call[p].day}
  /\ Return(p)
  /\ UNCHANGED <<today, gated, cached, refusals, crashes,
                 claimed, gateNoted>>

(* The process is killed: the files stay as they are, the client is gone.  *)
Crash(p) ==
  /\ pc[p] # "idle"
  /\ crashes < MaxCrashes
  /\ crashes' = crashes + 1
  /\ Return(p)
  /\ refusals' = [refusals EXCEPT ![p] = [e \in Endpoint |-> 0]]
  /\ UNCHANGED <<today, files, history>>

Midnight ==
  /\ today < LastDay
  /\ today' = today + 1
  /\ UNCHANGED <<files, pc, call, refusals, crashes, history>>

-----------------------------------------------------------------------------
(* The step of a call in progress. *)
Step(p) ==
  \/ Guard(p)
  \/ Reserve(p)
  \/ ReserveTruncate(p)
  \/ ReserveWrite(p)
  \/ Fault(p)
  \/ \E status \in Status : Answer(p, status)
  \/ GateRead(p)
  \/ GateTruncate(p)
  \/ GateWrite(p)
  \/ QuotaRead(p)
  \/ QuotaTruncate(p)
  \/ QuotaWrite(p)

Next ==
  \/ \E p \in Proc :
       \/ \E e \in Endpoint : Fetch(p, e)
       \/ NewClient(p)
       \/ Step(p)
       \/ Crash(p)
  \/ Midnight

Spec == Init /\ [][Next]_vars

(* A call runs on: the fetcher has a timeout and every other step is local. *)
FairSpec == Spec /\ \A p \in Proc : WF_vars(Step(p))
-----------------------------------------------------------------------------
(* No process has truncated the file of day d without writing it yet.      *)
Settled(d) ==
  \A p \in Proc : pc[p] \in {"reserve_write", "quota_write"} => call[p].day # d

(* With one process and no crash, the counter file of a day says exactly   *)
(* how many reservations were made against it and whether its refusal is   *)
(* on record, also when a pacing sleep or a slow answer crosses midnight   *)
(* (reserve writes the day it read, note_quota_exhausted keeps the count). *)
CounterIsExact ==
  \A d \in Day : Settled(d) =>
     /\ counter[d].count = claimed[d]
     /\ counter[d].refused <=> d \in stopped

(* Never more requests are claimed against a day than the allowance of its *)
(* policy: the purpose of reserve() before every attempt, retries too.     *)
ClaimedWithinAllowance ==
  ~Unlimited => \A d \in Day : claimed[d] <= Allowance

(* With one process, an endpoint recorded as gated is never asked again,   *)
(* on any later day or run (note_plan_gated merges into what it read).     *)
NeverReprobed ==
  [][\A p \in Proc : ReserveWrite(p) => call[p].endpoint \notin gateNoted]_vars

(* What the files say understates what happened and never overstates it,   *)
(* however many processes write them and wherever one is killed: no file   *)
(* counts a request nobody claimed, or records a stop nobody was told of.  *)
FilesNeverOverstate ==
  /\ \A d \in Day : /\ counter[d].count <= claimed[d]
                    /\ counter[d].refused => d \in stopped
  /\ gated \subseteq gateNoted

(* A client is told "malformed" at most twice per endpoint and run without *)
(* a good answer in between: then _guard_request parks the endpoint.       *)
ParkedAfterTwo ==
  \A p \in Proc, e \in Endpoint : refusals[p][e] <= Threshold

(* Every call comes back: retries are bounded and a refused guard raises.  *)
CallEnds == \A p \in Proc : pc[p] # "idle" ~> pc[p] = "idle"

(* With one process and no crash, the files and their rewrites implement   *)
(* the daily allowance.                                                    *)
Promise == INSTANCE DailyAllowance WITH
  Day <- Day, Allowance <- Allowance, NoLimit <- NoLimit,
  claimed <- claimed, stopped <- stopped
ImplementsDailyAllowance == Promise!Spec
=============================================================================
