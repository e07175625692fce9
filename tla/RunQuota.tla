------------------------------ MODULE RunQuota ------------------------------
(***************************************************************************)
(* The monthly search quota of one tenant and the investigation runs it    *)
(* limits (POST /investigations/run).  A run reads the enabled rules and   *)
(* the plan, compares the committed usage of the month with the plan,      *)
(* works, and only then records what it used, the searches first and then  *)
(* the model calls, each with a creation time of its own; the records      *)
(* count when the request commits.  No lock is held from check to commit.  *)
(*                                                                         *)
(* One rule is one search, and at most one detection and one model call.   *)
(* A search that fails is tried again; the rules of a run share a circuit  *)
(* breaker, which counts failures until a success.                         *)
(***************************************************************************)
EXTENDS Integers, FiniteSets

CONSTANTS
  Requests,       \* runs under way at one time, in whatever worker process
  Rules,          \* the detection rule library
  Plans,
  NoPlan,         \* of a request that is not checking its quota
  SearchLimit,    \* searches_per_month of a plan, or Unlimited
  MaxUsed,        \* bound: usage at which an unlimited plan stops running
  Attempts,       \* of with_retry for one rule
  Threshold       \* failures at which the breaker opens

Unlimited == -1

ASSUME FiniteInputs == IsFiniteSet(Requests) /\ IsFiniteSet(Rules) /\ Requests # {}
ASSUME LimitTypes == SearchLimit \in [Plans -> Nat \cup {Unlimited}] /\ MaxUsed \in Nat
\* Three attempts and a threshold of five.
ASSUME RetriesBelowThreshold == /\ Attempts \in Nat \ {0} /\ Threshold \in Nat
                                /\ Attempts < Threshold

VARIABLES
  plan,           \* the tenant's committed plan
  disabled,       \* rules the tenant's admin switched off
  used,           \* committed searches of this month
  calls,          \* committed model calls of this month
  pc,
  plan_of,        \* the plan a run has read and not yet compared its usage with
  wanted,         \* the rules a run searches; empty once they count for a past month
  answered,       \* those Splunk has answered
  found,          \* those that raised a detection, each triaged by the model;
                  \* empty once the calls count for a past month
  attempt,        \* failed attempts of the rule a run is searching
  failures,       \* the count of its breaker
  plans           \* history: the plans the tenant has had

searches == <<answered, found, attempt, failures>>
vars == <<plan, disabled, used, calls, pc, plan_of, wanted, searches, plans>>

-----------------------------------------------------------------------------
\* Mutant: what is asked for is not counted.
ExceedsIgnoringWant(limit, count, want) == limit # Unlimited /\ count > limit

\* QuotaService.status: would `want` more units exceed the limit?
Exceeds(limit, count, want) == limit # Unlimited /\ count + want > limit

Init ==
  /\ plan \in Plans
  /\ disabled = {}
  /\ used = 0
  /\ calls = 0
  /\ pc = [r \in Requests |-> "idle"]
  /\ plan_of = [r \in Requests |-> NoPlan]
  /\ wanted = [r \in Requests |-> {}]
  /\ answered = [r \in Requests |-> {}]
  /\ found = [r \in Requests |-> {}]
  /\ attempt = [r \in Requests |-> 0]
  /\ failures = [r \in Requests |-> 0]
  /\ plans = {plan}

\* The rule states and the tenant row, read before the usage is.
Begin(r) ==
  /\ pc[r] = "idle"
  /\ wanted' = [wanted EXCEPT ![r] = Rules \ disabled]
  /\ plan_of' = [plan_of EXCEPT ![r] = plan]
  /\ pc' = [pc EXCEPT ![r] = "checking"]
  /\ UNCHANGED <<plan, disabled, used, calls, searches, plans>>

End(r) ==
  /\ pc' = [pc EXCEPT ![r] = "idle"]
  /\ wanted' = [wanted EXCEPT ![r] = {}]
  /\ answered' = [answered EXCEPT ![r] = {}]
  /\ found' = [found EXCEPT ![r] = {}]
  /\ attempt' = [attempt EXCEPT ![r] = 0]
  /\ failures' = [failures EXCEPT ![r] = 0]
  /\ plan_of' = [plan_of EXCEPT ![r] = NoPlan]
  /\ UNCHANGED <<plan, disabled, plans>>

\* check_or_raise for the searches; a refused run ends with a 429.
Check(r) ==
  /\ pc[r] = "checking"
  /\ SearchLimit[plan_of[r]] = Unlimited => used < MaxUsed
  /\ UNCHANGED <<used, calls>>
  /\ IF Exceeds(SearchLimit[plan_of[r]], used, Cardinality(wanted[r]))
     THEN End(r)
     ELSE /\ pc' = [pc EXCEPT ![r] = "admitted"]
          /\ plan_of' = [plan_of EXCEPT ![r] = NoPlan]
          /\ UNCHANGED <<plan, disabled, wanted, searches, plans>>

\* with_retry starts a rule only while the breaker is closed; the error of an
\* open one ends the run as any other does (Abort).
Searching(r) ==
  /\ pc[r] = "admitted" /\ answered[r] # wanted[r]
  /\ attempt[r] < Attempts
  /\ attempt[r] = 0 => failures[r] < Threshold

\* Splunk answers a search, with enough events for a detection or not.
SearchAnswered(r) ==
  /\ Searching(r)
  /\ \E rule \in wanted[r] \ answered[r] : \E hits \in SUBSET {rule} :
       /\ answered' = [answered EXCEPT ![r] = @ \cup {rule}]
       /\ found' = [found EXCEPT ![r] = @ \cup hits]
  /\ attempt' = [attempt EXCEPT ![r] = 0]
  /\ failures' = [failures EXCEPT ![r] = 0]
  /\ UNCHANGED <<plan, disabled, used, calls, pc, plan_of, wanted, plans>>

\* The connection, the token or the server fails an attempt, and the breaker
\* counts it, the last one of a rule too.
SearchFailed(r) ==
  /\ Searching(r)
  /\ attempt' = [attempt EXCEPT ![r] = @ + 1]
  /\ failures' = [failures EXCEPT ![r] = @ + 1]
  /\ UNCHANGED <<plan, disabled, used, calls, pc, plan_of, wanted, answered, found, plans>>

\* Mutant: a rule that has failed is searched again.
GiveUpStartsOver(r) ==
  /\ pc[r] = "admitted" /\ attempt[r] = Attempts
  /\ attempt' = [attempt EXCEPT ![r] = 0]
  /\ UNCHANGED <<plan, disabled, used, calls, pc, plan_of, wanted, answered, found,
                 failures, plans>>

\* The error of its last attempt ends the run, and its breaker with it.
GiveUp(r) ==
  /\ pc[r] = "admitted" /\ attempt[r] = Attempts
  /\ End(r)
  /\ UNCHANGED <<used, calls>>

\* run_full_pipeline has searched every enabled rule and triaged every hit; the
\* usage event of the searches is inserted and gets its creation time.
MeterSearches(r) ==
  /\ pc[r] = "admitted" /\ answered[r] = wanted[r]
  /\ pc' = [pc EXCEPT ![r] = "searches_metered"]
  /\ answered' = [answered EXCEPT ![r] = {}]
  /\ UNCHANGED <<plan, disabled, used, calls, plan_of, wanted, found, attempt,
                 failures, plans>>

\* That of the model calls, if there were any.
MeterCalls(r) ==
  /\ pc[r] = "searches_metered"
  /\ pc' = [pc EXCEPT ![r] = "metered"]
  /\ UNCHANGED <<plan, disabled, used, calls, plan_of, wanted, searches, plans>>

Commit(r) ==
  /\ pc[r] = "metered"
  /\ used' = used + Cardinality(wanted[r])
  /\ calls' = calls + Cardinality(found[r])
  /\ End(r)

\* Splunk, the model, metering or what follows raised: the session rolls back
\* and what the run has used so far is charged to nobody.
Abort(r) ==
  /\ pc[r] # "idle"
  /\ End(r)
  /\ UNCHANGED <<used, calls>>

\* PUT /rules/{rule_id}
Toggle(rule) ==
  /\ disabled' = IF rule \in disabled THEN disabled \ {rule} ELSE disabled \cup {rule}
  /\ UNCHANGED <<plan, used, calls, pc, plan_of, wanted, searches, plans>>

\* PUT /provider/tenants/{tenant_id}/plan
ChangePlan(p) ==
  /\ p # plan
  /\ plan' = p
  /\ plans' = plans \cup {p}
  /\ UNCHANGED <<disabled, used, calls, pc, plan_of, wanted, searches>>

MeteredSearches == {r \in Requests : pc[r] \in {"searches_metered", "metered"}}
MeteredCalls == {r \in Requests : pc[r] = "metered"}

\* Mutant: the model calls of the old month are carried over.
NewMonthCarriesCalls ==
  /\ used' = 0
  /\ wanted' = [r \in Requests |-> IF r \in MeteredSearches THEN {} ELSE wanted[r]]
  /\ UNCHANGED <<calls, searches, plan, disabled, pc, plan_of, plans>>

\* _month_start moves: usage events with an earlier creation time, committed
\* or about to be, no longer count.
NewMonth ==
  /\ used' = 0
  /\ calls' = 0
  /\ wanted' = [r \in Requests |-> IF r \in MeteredSearches THEN {} ELSE wanted[r]]
  /\ found' = [r \in Requests |-> IF r \in MeteredCalls THEN {} ELSE found[r]]
  /\ UNCHANGED <<plan, disabled, pc, plan_of, answered, attempt, failures, plans>>

Search(r) == SearchAnswered(r) \/ SearchFailed(r) \/ GiveUp(r)

Proceed(r) == Search(r) \/ MeterSearches(r) \/ MeterCalls(r) \/ Commit(r)

Next ==
  \/ \E r \in Requests : Begin(r) \/ Check(r) \/ Proceed(r) \/ Abort(r)
  \/ \E rule \in Rules : Toggle(rule)
  \/ \E p \in Plans : ChangePlan(p)
  \/ NewMonth

Spec == Init /\ [][Next]_vars

\* A handler goes on when its await is over, which a timeout ensures; nobody
\* has to begin a run.
FairSpec == Spec /\ \A r \in Requests : WF_vars(Proceed(r))

-----------------------------------------------------------------------------
TypeOK ==
  /\ plan \in plans
  /\ disabled \in SUBSET Rules
  /\ used \in Nat
  /\ calls \in Nat
  /\ pc \in [Requests -> {"idle", "checking", "admitted",
                          "searches_metered", "metered"}]
  /\ plan_of \in [Requests -> plans \cup {NoPlan}]
  /\ \A r \in Requests : pc[r] = "checking" => plan_of[r] \in plans
  /\ wanted \in [Requests -> SUBSET Rules]
  /\ answered \in [Requests -> SUBSET Rules]
  /\ found \in [Requests -> SUBSET Rules]
  /\ attempt \in [Requests -> Nat]
  /\ failures \in [Requests -> Nat]
  /\ plans \in SUBSET Plans

\* services/quotas.py concedes "a small amount of overage" under concurrency.
\* It is at most one run's searches for each of the other runs under way, over
\* the largest limit of the plans the tenant has had; without concurrency, none.
Overage == (Cardinality(Requests) - 1) * Cardinality(Rules)

OverageBounded ==
  \/ \E p \in plans : SearchLimit[p] = Unlimited
  \/ \E p \in plans : used <= SearchLimit[p] + Overage

\* Model calls are charged with the searches whose hits they triaged, whatever
\* fails and whenever the month turns.  Only the runs that were between their two
\* records at the turn charge calls to a month that has not their searches: at
\* most a run's rules for every run under way, and none in later months.
CallsFollowSearches == calls <= used + Cardinality(Requests) * Cardinality(Rules)

\* The breaker of a run never opens: a rule gives up and ends the run before, and
\* what failed in earlier rules was forgotten with their answers.  (Operators are
\* told that it opens when Splunk is down.)
BreakerNeverOpens == \A r \in Requests : failures[r] < Threshold

\* An admitted run ends, though Splunk fails as often as it likes.
AdmittedRunsEnd == \A r \in Requests : pc[r] = "admitted" ~> pc[r] = "idle"
=============================================================================
