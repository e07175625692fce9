--------------------------- MODULE RunQuotaProofs ---------------------------
(***************************************************************************)
(* Machine-checked facts about RunQuota: for any number of runs, rules and *)
(* plans, whatever interleaves with plan changes, rule toggles, failures   *)
(* and the turn of the month.                                              *)
(***************************************************************************)
EXTENDS RunQuota, FiniteSetTheorems, TLAPS

(* Every reachable state is well typed.                                    *)
LEMMA TypeInit == Init => TypeOK
<1>. SUFFICES ASSUME Init PROVE TypeOK
  OBVIOUS
<1>. QED BY DEF Init, TypeOK

(* A search keeps the types, whether it is answered or fails.              *)
LEMMA SearchType ==
  ASSUME TypeOK, NEW r \in Requests, Search(r)
  PROVE  TypeOK'
<1>1. CASE SearchAnswered(r)
  <2>1. PICK rule \in wanted[r] \ answered[r] : \E hits \in SUBSET {rule} :
          /\ answered' = [answered EXCEPT ![r] = @ \cup {rule}]
          /\ found' = [found EXCEPT ![r] = @ \cup hits]
    BY <1>1 DEF SearchAnswered
  <2>2. PICK hits \in SUBSET {rule} :
          /\ answered' = [answered EXCEPT ![r] = @ \cup {rule}]
          /\ found' = [found EXCEPT ![r] = @ \cup hits]
    BY <2>1
  <2>3. rule \in Rules /\ hits \subseteq Rules
    BY <2>1, <2>2 DEF TypeOK
  <2>. QED BY <1>1, <2>2, <2>3 DEF SearchAnswered, Searching, TypeOK
<1>2. CASE SearchFailed(r)
  BY <1>2 DEF SearchFailed, Searching, TypeOK
<1>3. CASE GiveUp(r)
  BY <1>3 DEF GiveUp, End, TypeOK
<1>. QED BY <1>1, <1>2, <1>3 DEF Search

(* Every step keeps the types.                                             *)
LEMMA TypeNext == TypeOK /\ [Next]_vars => TypeOK'
<1>. SUFFICES ASSUME TypeOK, [Next]_vars PROVE TypeOK'
  OBVIOUS
<1>1. ASSUME NEW r \in Requests, Begin(r)
      PROVE  TypeOK'
  BY <1>1 DEF Begin, searches, TypeOK
<1>2. ASSUME NEW r \in Requests, Check(r)
      PROVE  TypeOK'
  BY <1>2 DEF Check, End, searches, TypeOK
<1>3. ASSUME NEW r \in Requests, Search(r)
      PROVE  TypeOK'
  BY <1>3, SearchType
<1>11. ASSUME NEW r \in Requests, MeterSearches(r)
      PROVE  TypeOK'
  BY <1>11 DEF MeterSearches, TypeOK
<1>4. ASSUME NEW r \in Requests, MeterCalls(r)
      PROVE  TypeOK'
  BY <1>4 DEF MeterCalls, searches, TypeOK
<1>5. ASSUME NEW r \in Requests, Commit(r)
      PROVE  TypeOK'
  <2>1. IsFiniteSet(wanted[r]) /\ IsFiniteSet(found[r])
    BY FiniteInputs, FS_Subset DEF TypeOK
  <2>2. Cardinality(wanted[r]) \in Nat /\ Cardinality(found[r]) \in Nat
    BY <2>1, FS_CardinalityType
  <2>. QED BY <1>5, <2>2 DEF Commit, End, TypeOK
<1>6. ASSUME NEW r \in Requests, Abort(r)
      PROVE  TypeOK'
  BY <1>6 DEF Abort, End, TypeOK
<1>7. ASSUME NEW rule \in Rules, Toggle(rule)
      PROVE  TypeOK'
  BY <1>7 DEF Toggle, searches, TypeOK
<1>8. ASSUME NEW p \in Plans, ChangePlan(p)
      PROVE  TypeOK'
  BY <1>8 DEF ChangePlan, searches, TypeOK
<1>9. CASE NewMonth
  BY <1>9 DEF NewMonth, TypeOK
<1>10. CASE UNCHANGED vars
  BY <1>10 DEF vars, searches, TypeOK
<1>. QED BY <1>1, <1>2, <1>3, <1>4, <1>5, <1>6, <1>7, <1>8, <1>9, <1>10, <1>11 DEF Next, Proceed

(* Plan, usage and runs always have the types the quota service gives      *)
(* them.                                                                   *)
THEOREM TypeCorrect == Spec => []TypeOK
  BY TypeInit, TypeNext, PTL DEF Spec

-----------------------------------------------------------------------------
(* The inductive invariant behind OverageBounded: the committed usage and  *)
(* the searches that admitted runs are about to charge stay together below *)
(* the limit and the overage.  The searches under way are a set of pairs,  *)
(* so that their number is a cardinality.                                  *)

Admitted == {"admitted", "searches_metered", "metered"}

UnderWay == {u \in Requests \X Rules : pc[u[1]] \in Admitted /\ u[2] \in wanted[u[1]]}

Capped == \A p \in plans : SearchLimit[p] # Unlimited

Reserved ==
  Capped => \E p \in plans : used + Cardinality(UnderWay) <= SearchLimit[p] + Overage

QuotaInv == TypeOK /\ Reserved

(* The bounds of the overage are natural numbers.                          *)
LEMMA Numbers ==
  /\ IsFiniteSet(Requests \X Rules)
  /\ Cardinality(Requests) \in Nat \ {0}
  /\ Cardinality(Rules) \in Nat
  /\ Overage \in Nat
<1>1. Cardinality(Requests) \in Nat /\ Cardinality(Rules) \in Nat
  BY FiniteInputs, FS_CardinalityType
<1>2. Cardinality(Requests) # 0
  BY FiniteInputs, FS_EmptySet
<1>3. IsFiniteSet(Requests \X Rules)
  BY FiniteInputs, FS_Product
<1>4. \A m, n \in Nat : m # 0 => (m - 1) * n \in Nat
  OBVIOUS
<1>. QED BY <1>1, <1>2, <1>3, <1>4 DEF Overage

(* Finitely many searches are under way.                                   *)
LEMMA UnderWayFinite ==
  /\ IsFiniteSet(UnderWay) /\ Cardinality(UnderWay) \in Nat
  /\ IsFiniteSet(UnderWay') /\ Cardinality(UnderWay') \in Nat
<1>1. UnderWay \subseteq Requests \X Rules /\ UnderWay' \subseteq Requests \X Rules
  BY DEF UnderWay
<1>. QED BY <1>1, Numbers, FS_Subset, FS_CardinalityType

(* The searches of one run are as many pairs.                              *)
LEMMA RunSearches ==
  ASSUME NEW r \in Requests, NEW W \in SUBSET Rules
  PROVE  /\ IsFiniteSet({r} \X W) /\ Cardinality({r} \X W) = Cardinality(W)
         /\ IsFiniteSet(W) /\ Cardinality(W) \in Nat
<1>1. IsFiniteSet(W) /\ Cardinality(W) \in Nat
  BY FiniteInputs, FS_Subset, FS_CardinalityType
<1>2. IsFiniteSet({r}) /\ Cardinality({r}) = 1
  BY FS_Singleton
<1>3. IsFiniteSet({r} \X W) /\ Cardinality({r} \X W) = 1 * Cardinality(W)
  BY <1>1, <1>2, FS_Product
<1>. QED BY <1>1, <1>3

(* The other runs have at most Overage searches under way.                 *)
LEMMA OtherSearches ==
  ASSUME NEW r \in Requests, NEW S \in SUBSET ((Requests \ {r}) \X Rules)
  PROVE  IsFiniteSet(S) /\ Cardinality(S) \in Nat /\ Cardinality(S) <= Overage
<1>1. /\ IsFiniteSet(Requests \ {r})
      /\ Cardinality(Requests \ {r}) = Cardinality(Requests) - 1
  BY FiniteInputs, FS_RemoveElement
<1>2. /\ IsFiniteSet((Requests \ {r}) \X Rules)
      /\ Cardinality((Requests \ {r}) \X Rules) = Overage
  BY <1>1, FiniteInputs, FS_Product DEF Overage
<1>. QED BY <1>2, FS_Subset, FS_CardinalityType

(* A step that neither charges nor admits anything keeps the sum bounded.  *)
LEMMA NothingAdded ==
  ASSUME QuotaInv, TypeOK', plans \subseteq plans',
         used' <= used, UnderWay' \subseteq UnderWay
  PROVE  QuotaInv'
<1>1. used \in Nat /\ used' \in Nat /\ plans' \subseteq Plans
  BY DEF TypeOK, QuotaInv
<1>2. /\ Cardinality(UnderWay) \in Nat /\ Cardinality(UnderWay') \in Nat
      /\ Cardinality(UnderWay') <= Cardinality(UnderWay)
  BY UnderWayFinite, FS_Subset
<1>3. ASSUME Capped'
      PROVE  \E p \in plans' : used' + Cardinality(UnderWay') <= SearchLimit[p] + Overage
  <2>1. Capped
    BY <1>3 DEF Capped
  <2>2. PICK p \in plans : used + Cardinality(UnderWay) <= SearchLimit[p] + Overage
    BY <2>1 DEF QuotaInv, Reserved
  <2>3. SearchLimit[p] \in Int
    BY <1>1, LimitTypes DEF Unlimited
  <2>4. used' + Cardinality(UnderWay') <= SearchLimit[p] + Overage
    BY <1>1, <1>2, <2>2, <2>3, Numbers
  <2>. QED BY <2>4
<1>. QED BY <1>3 DEF QuotaInv, Reserved, Overage

(* An admission: the run fits on top of the committed usage, and only the  *)
(* searches of the other runs come on top of that.                         *)
LEMMA AdmissionBounded ==
  ASSUME QuotaInv, TypeOK', NEW r \in Requests, Check(r), pc'[r] = "admitted"
  PROVE  QuotaInv'
<1>. DEFINE others == {u \in UnderWay : u[1] # r}
            mine == {r} \X wanted[r]
<1>1. /\ wanted[r] \in SUBSET Rules /\ used \in Nat
      /\ plan_of[r] \in plans /\ plans \subseteq Plans
  BY DEF QuotaInv, TypeOK, Check
<1>2. /\ ~Exceeds(SearchLimit[plan_of[r]], used, Cardinality(wanted[r]))
      /\ used' = used /\ plans' = plans /\ wanted' = wanted
      /\ pc' = [pc EXCEPT ![r] = "admitted"]
  BY DEF Check, End, QuotaInv, TypeOK
<1>3. UnderWay' \subseteq others \cup mine
  <2>1. ASSUME NEW u \in UnderWay', u[1] # r
        PROVE  u \in UnderWay
    BY <1>2, <2>1 DEF UnderWay, QuotaInv, TypeOK
  <2>2. ASSUME NEW u \in UnderWay', u[1] = r
        PROVE  u \in mine
    BY <1>2, <2>2 DEF UnderWay
  <2>. QED BY <2>1, <2>2
<1>4. others \in SUBSET ((Requests \ {r}) \X Rules)
  BY DEF UnderWay
<1>. HIDE DEF others
<1>5. /\ IsFiniteSet(others) /\ Cardinality(others) \in Nat
      /\ Cardinality(others) <= Overage
  BY <1>4, OtherSearches
<1>6. /\ IsFiniteSet(mine) /\ Cardinality(mine) = Cardinality(wanted[r])
      /\ Cardinality(wanted[r]) \in Nat
  BY <1>1, RunSearches
<1>. HIDE DEF mine
<1>7. Cardinality(UnderWay') <= Cardinality(others) + Cardinality(wanted[r])
  <2>1. /\ IsFiniteSet(others \cup mine)
        /\ Cardinality(others \cup mine) =
             Cardinality(others) + Cardinality(mine) - Cardinality(others \cap mine)
    BY <1>5, <1>6, FS_Union
  <2>2. Cardinality(others \cap mine) \in Nat
    BY <1>5, FS_Intersection, FS_CardinalityType
  <2>3. /\ Cardinality(others \cup mine) \in Nat
        /\ Cardinality(UnderWay') <= Cardinality(others \cup mine)
    BY <1>3, <2>1, FS_Subset, FS_CardinalityType
  <2>. QED BY <1>5, <1>6, <2>1, <2>2, <2>3, UnderWayFinite
<1>8. ASSUME Capped'
      PROVE  used' + Cardinality(UnderWay') <= SearchLimit[plan_of[r]] + Overage
  <2>1. SearchLimit[plan_of[r]] # Unlimited
    BY <1>1, <1>2, <1>8 DEF Capped
  <2>2. SearchLimit[plan_of[r]] \in Nat
    BY <1>1, <2>1, LimitTypes
  <2>3. used + Cardinality(wanted[r]) <= SearchLimit[plan_of[r]]
    BY <1>1, <1>2, <1>6, <2>1, <2>2 DEF Exceeds
  <2>. QED BY <1>1, <1>2, <1>5, <1>6, <1>7, <2>2, <2>3, Numbers, UnderWayFinite
<1>. QED BY <1>1, <1>2, <1>8 DEF QuotaInv, Reserved, Overage

(* A commit turns the run's searches under way into committed usage.       *)
LEMMA CommitBounded ==
  ASSUME QuotaInv, TypeOK', NEW r \in Requests, Commit(r)
  PROVE  QuotaInv'
<1>. DEFINE mine == {r} \X wanted[r]
<1>1. wanted[r] \in SUBSET Rules /\ used \in Nat /\ plans \subseteq Plans
  BY DEF QuotaInv, TypeOK
<1>2. /\ used' = used + Cardinality(wanted[r]) /\ plans' = plans
      /\ pc[r] = "metered" /\ pc' = [pc EXCEPT ![r] = "idle"]
      /\ wanted' = [wanted EXCEPT ![r] = {}]
  BY DEF Commit, End
<1>3. /\ IsFiniteSet(mine) /\ Cardinality(mine) = Cardinality(wanted[r])
      /\ Cardinality(wanted[r]) \in Nat
  BY <1>1, RunSearches
<1>4. mine \subseteq UnderWay
  BY <1>1, <1>2 DEF UnderWay, Admitted
<1>5. UnderWay' \subseteq UnderWay \ mine
  <2>1. ASSUME NEW u \in UnderWay'
        PROVE  u[1] # r /\ u \in UnderWay
    <3>1. u[1] \in Requests /\ pc'[u[1]] \in Admitted /\ u \in Requests \X Rules
          /\ u[2] \in wanted'[u[1]]
      BY DEF UnderWay
    <3>2. u[1] # r
      BY <1>2, <3>1 DEF QuotaInv, TypeOK, Admitted
    <3>. QED BY <1>2, <3>1, <3>2 DEF QuotaInv, TypeOK, UnderWay
  <2>. QED BY <2>1
<1>. HIDE DEF mine
<1>6. Cardinality(UnderWay') <= Cardinality(UnderWay) - Cardinality(wanted[r])
  <2>1. UnderWay \cap mine = mine
    BY <1>4
  <2>2. /\ IsFiniteSet(UnderWay \ mine)
        /\ Cardinality(UnderWay \ mine) = Cardinality(UnderWay) - Cardinality(mine)
    BY <2>1, UnderWayFinite, FS_Difference
  <2>3. Cardinality(UnderWay') <= Cardinality(UnderWay \ mine)
    BY <1>5, <2>2, FS_Subset
  <2>. QED BY <1>3, <2>2, <2>3
<1>7. ASSUME Capped'
      PROVE  \E p \in plans' : used' + Cardinality(UnderWay') <= SearchLimit[p] + Overage
  <2>1. Capped
    BY <1>2, <1>7 DEF Capped
  <2>2. PICK p \in plans : used + Cardinality(UnderWay) <= SearchLimit[p] + Overage
    BY <2>1 DEF QuotaInv, Reserved
  <2>3. SearchLimit[p] \in Int
    BY <1>1, LimitTypes DEF Unlimited
  <2>4. used' + Cardinality(UnderWay') <= SearchLimit[p] + Overage
    BY <1>1, <1>2, <1>3, <1>6, <2>2, <2>3, Numbers, UnderWayFinite
  <2>. QED BY <1>2, <2>4
<1>. QED BY <1>7 DEF QuotaInv, Reserved, Overage

(* Without usage or runs the limit is kept.                                *)
LEMMA QuotaInit == Init => QuotaInv
<1>. SUFFICES ASSUME Init PROVE QuotaInv
  OBVIOUS
<1>1. UnderWay = {}
  BY DEF Init, UnderWay, Admitted
<1>2. used = 0 /\ plan \in plans /\ plan \in Plans
  BY DEF Init
<1>3. Capped => SearchLimit[plan] \in Nat
  BY <1>2, LimitTypes DEF Capped
<1>4. Capped => used + Cardinality(UnderWay) <= SearchLimit[plan] + Overage
  BY <1>1, <1>2, <1>3, FS_EmptySet, Numbers
<1>. QED BY <1>2, <1>4, TypeInit DEF QuotaInv, Reserved

(* Every step keeps usage and admitted searches below limit and overage.   *)
LEMMA QuotaNext == QuotaInv /\ [Next]_vars => QuotaInv'
<1>. SUFFICES ASSUME QuotaInv, [Next]_vars PROVE QuotaInv'
  OBVIOUS
<1>. USE DEF QuotaInv
<1>1. TypeOK'
  BY TypeNext
<1>2. used \in Nat
  BY DEF TypeOK
<1>3. ASSUME NEW r \in Requests, Begin(r)
      PROVE  QuotaInv'
  <2>1. /\ used' = used /\ plans' = plans /\ pc[r] = "idle" /\ pc'[r] = "checking"
        /\ \A q \in Requests \ {r} : pc'[q] = pc[q] /\ wanted'[q] = wanted[q]
    BY <1>3 DEF Begin, searches, TypeOK
  <2>2. UnderWay' \subseteq UnderWay
    BY <2>1 DEF UnderWay, Admitted
  <2>. QED BY <1>1, <1>2, <2>1, <2>2, NothingAdded
<1>4. ASSUME NEW r \in Requests, Check(r)
      PROVE  QuotaInv'
  <2>1. CASE pc'[r] = "admitted"
    BY <1>1, <1>4, <2>1, AdmissionBounded
  <2>2. CASE pc'[r] # "admitted"
    <3>1. /\ used' = used /\ plans' = plans /\ pc'[r] = "idle"
          /\ \A q \in Requests \ {r} : pc'[q] = pc[q] /\ wanted'[q] = wanted[q]
      BY <1>4, <2>2 DEF Check, End, searches, TypeOK
    <3>2. UnderWay' \subseteq UnderWay
      BY <3>1 DEF UnderWay, Admitted
    <3>. QED BY <1>1, <1>2, <3>1, <3>2, NothingAdded
  <2>. QED BY <2>1, <2>2
<1>5. ASSUME NEW r \in Requests, SearchAnswered(r) \/ SearchFailed(r) \/ MeterSearches(r) \/ MeterCalls(r)
      PROVE  QuotaInv'
  <2>1. /\ used' = used /\ plans' = plans /\ wanted' = wanted /\ pc[r] \in Admitted
        /\ \A q \in Requests \ {r} : pc'[q] = pc[q]
    BY <1>5 DEF SearchAnswered, SearchFailed, Searching, MeterSearches, MeterCalls, TypeOK, Admitted
  <2>2. UnderWay' \subseteq UnderWay
    BY <2>1 DEF UnderWay
  <2>. QED BY <1>1, <1>2, <2>1, <2>2, NothingAdded
<1>6. ASSUME NEW r \in Requests, Commit(r)
      PROVE  QuotaInv'
  BY <1>1, <1>6, CommitBounded
<1>7. ASSUME NEW r \in Requests, GiveUp(r) \/ Abort(r)
      PROVE  QuotaInv'
  <2>1. /\ used' = used /\ plans' = plans /\ pc'[r] = "idle"
        /\ \A q \in Requests \ {r} : pc'[q] = pc[q] /\ wanted'[q] = wanted[q]
    BY <1>7 DEF GiveUp, Abort, End, TypeOK
  <2>2. UnderWay' \subseteq UnderWay
    BY <2>1 DEF UnderWay, Admitted
  <2>. QED BY <1>1, <1>2, <2>1, <2>2, NothingAdded
<1>8. ASSUME \/ \E rule \in Rules : Toggle(rule)
             \/ \E p \in Plans : ChangePlan(p)
             \/ UNCHANGED vars
      PROVE  QuotaInv'
  <2>1. used' = used /\ plans \subseteq plans' /\ wanted' = wanted /\ pc' = pc
    BY <1>8 DEF Toggle, ChangePlan, vars
  <2>2. UnderWay' \subseteq UnderWay
    BY <2>1 DEF UnderWay
  <2>. QED BY <1>1, <1>2, <2>1, <2>2, NothingAdded
<1>9. CASE NewMonth
  <2>1. /\ used' = 0 /\ plans' = plans /\ pc' = pc
        /\ \A q \in Requests : wanted'[q] \subseteq wanted[q]
    BY <1>9 DEF NewMonth
  <2>2. UnderWay' \subseteq UnderWay
    BY <2>1 DEF UnderWay
  <2>. QED BY <1>1, <1>2, <2>1, <2>2, NothingAdded
<1>. QED BY <1>3, <1>4, <1>5, <1>6, <1>7, <1>8, <1>9 DEF Next, Proceed, Search

(* The usage of a month exceeds the limit by at most one run's searches    *)
(* for each of the other runs under way: with one run at a time, by none.  *)
THEOREM OverageAlwaysBounded == Spec => []OverageBounded
<1>1. QuotaInv => OverageBounded
  <2>. SUFFICES ASSUME QuotaInv, Capped
                PROVE  \E p \in plans : used <= SearchLimit[p] + Overage
    BY DEF OverageBounded, Capped
  <2>1. PICK p \in plans : used + Cardinality(UnderWay) <= SearchLimit[p] + Overage
    BY DEF QuotaInv, Reserved
  <2>2. used \in Nat /\ SearchLimit[p] \in Int
    BY LimitTypes DEF QuotaInv, TypeOK, Unlimited
  <2>. QED BY <2>1, <2>2, UnderWayFinite, Numbers
<1>. QED BY <1>1, QuotaInit, QuotaNext, PTL DEF Spec

-----------------------------------------------------------------------------
(* The inductive invariant behind CallsFollowSearches.  What a run triages *)
(* are hits of its own searches.  A run that is late charges them to a     *)
(* month after that of its searches; it makes up for one share of the      *)
(* bound, which is still free while the run has not committed.             *)

HitsSearched == \A r \in Requests : found[r] # {} => pc[r] \in Admitted

Late == {r \in Requests : ~(found[r] \subseteq wanted[r])}

LateMetered == \A r \in Late : pc[r] = "searches_metered" \/ pc[r] = "metered"

SharesLeft ==
  calls <= used + (Cardinality(Requests) - Cardinality(Late)) * Cardinality(Rules)

CallsInv == TypeOK /\ HitsSearched /\ LateMetered /\ SharesLeft

(* Products with a smaller or greater number of runs.                      *)
LEMMA Shares ==
  ASSUME NEW m \in Int, NEW n \in Int, m <= n, NEW k \in Nat
  PROVE  /\ m * k \in Int /\ n * k \in Int /\ m * k <= n * k
         /\ m + 1 <= n => m * k + k <= n * k
<1>. DEFINE d == n - m
<1>1. d \in Nat /\ n = m + d
  OBVIOUS
<1>2. n * k = m * k + d * k
  BY <1>1
<1>3. \A a, b \in Nat : a * b \in Nat /\ (a # 0 => a * b >= b)
  OBVIOUS
<1>4. m * k \in Int /\ d * k \in Nat /\ (d # 0 => d * k >= k)
  BY <1>1, <1>3
<1>. QED BY <1>1, <1>2, <1>4

(* The late runs are some of the runs.                                     *)
LEMMA LateFinite ==
  /\ IsFiniteSet(Late) /\ Cardinality(Late) \in Nat
  /\ Cardinality(Late) <= Cardinality(Requests)
  /\ IsFiniteSet(Late') /\ Cardinality(Late') \in Nat
  /\ Cardinality(Late') <= Cardinality(Requests)
<1>1. Late \subseteq Requests /\ Late' \subseteq Requests
  BY DEF Late
<1>. QED BY <1>1, FiniteInputs, FS_Subset, FS_CardinalityType

(* A step that charges nothing and makes no run late keeps the bound.      *)
LEMMA NothingCharged ==
  ASSUME CallsInv, used' = used, calls' = calls, Late' \subseteq Late
  PROVE  SharesLeft'
<1>. DEFINE runs == Cardinality(Requests)
            rules == Cardinality(Rules)
            before == Cardinality(Late)
            after == Cardinality(Late')
<1>1. runs \in Nat /\ rules \in Nat /\ before \in Nat /\ after \in Nat /\ after <= before
  BY LateFinite, Numbers, FS_Subset
<1>2. calls <= used + (runs - before) * rules /\ calls \in Nat /\ used \in Nat
  BY DEF CallsInv, SharesLeft, TypeOK
<1>. HIDE DEF runs, rules, before, after
<1>3. runs - before \in Int /\ runs - after \in Int /\ runs - before <= runs - after
  BY <1>1
<1>4. /\ (runs - before) * rules \in Int /\ (runs - after) * rules \in Int
      /\ (runs - before) * rules <= (runs - after) * rules
  BY <1>1, <1>3, Shares
<1>5. calls <= used + (runs - after) * rules
  BY <1>2, <1>4
<1>. QED BY <1>5 DEF SharesLeft, runs, rules, after

(* A commit charges no more calls than searches, or it is late and uses    *)
(* up its share.                                                           *)
LEMMA CommitShares ==
  ASSUME CallsInv, NEW r \in Requests, Commit(r)
  PROVE  SharesLeft'
<1>. DEFINE runs == Cardinality(Requests)
            rules == Cardinality(Rules)
            before == Cardinality(Late)
            after == Cardinality(Late')
            cost == Cardinality(found[r])
            own == Cardinality(wanted[r])
<1>1. /\ used' = used + own /\ calls' = calls + cost
      /\ found' = [found EXCEPT ![r] = {}] /\ wanted' = [wanted EXCEPT ![r] = {}]
  BY DEF Commit, End
<1>2. Late' = Late \ {r}
  BY <1>1 DEF Late, CallsInv, TypeOK
<1>3. /\ runs \in Nat /\ rules \in Nat /\ before \in Nat /\ after \in Nat
      /\ before <= runs /\ after <= before
      /\ r \in Late => after + 1 = before
  BY <1>2, LateFinite, Numbers, FS_Subset, FS_RemoveElement
<1>4. found[r] \in SUBSET Rules /\ wanted[r] \in SUBSET Rules
  BY DEF CallsInv, TypeOK
<1>5. /\ cost \in Nat /\ own \in Nat /\ cost <= rules
      /\ IsFiniteSet(wanted[r])
  BY <1>4, FiniteInputs, FS_Subset, FS_CardinalityType
<1>6. r \notin Late => cost <= own
  BY <1>5, FS_Subset DEF Late
<1>7. calls <= used + (runs - before) * rules /\ calls \in Nat /\ used \in Nat
  BY DEF CallsInv, SharesLeft, TypeOK
<1>. HIDE DEF runs, rules, before, after, cost, own
<1>8. /\ runs - before \in Int /\ runs - after \in Int /\ runs - before <= runs - after
      /\ r \in Late => (runs - before) + 1 <= runs - after
  BY <1>3
<1>9. /\ (runs - before) * rules \in Int /\ (runs - after) * rules \in Int
      /\ (runs - before) * rules <= (runs - after) * rules
      /\ r \in Late => (runs - before) * rules + rules <= (runs - after) * rules
  BY <1>3, <1>8, Shares
<1>10. calls + cost <= used + own + (runs - after) * rules
  BY <1>3, <1>5, <1>6, <1>7, <1>9
<1>. QED BY <1>1, <1>10 DEF SharesLeft, runs, rules, after

(* No model call is charged at the start.                                  *)
LEMMA CallsInit == Init => CallsInv
<1>. SUFFICES ASSUME Init PROVE CallsInv
  OBVIOUS
<1>1. Late = {}
  BY DEF Init, Late
<1>2. Cardinality(Late) = 0
  BY <1>1, FS_EmptySet
<1>3. \A m, n \in Nat : 0 <= 0 + (m - 0) * n
  OBVIOUS
<1>4. SharesLeft
  BY <1>2, <1>3, Numbers DEF Init, SharesLeft
<1>. QED BY <1>1, <1>4, TypeInit DEF Init, CallsInv, HitsSearched, LateMetered

(* Every step keeps the calls below the searches and the shares left.      *)
LEMMA CallsNext == CallsInv /\ [Next]_vars => CallsInv'
<1>. SUFFICES ASSUME CallsInv, [Next]_vars PROVE CallsInv'
  OBVIOUS
<1>. USE DEF CallsInv
<1>1. TypeOK'
  BY TypeNext
<1>2. ASSUME NEW r \in Requests, Begin(r) \/ SearchFailed(r) \/ MeterSearches(r) \/ MeterCalls(r)
      PROVE  CallsInv'
  <2>1. /\ found' = found /\ used' = used /\ calls' = calls
        /\ \A q \in Requests : found[q] # {} => wanted'[q] = wanted[q]
        /\ \A q \in Requests : pc[q] \in Admitted => pc'[q] \in Admitted
        /\ \A q \in Requests : pc[q] \in {"searches_metered", "metered"} =>
             pc'[q] \in {"searches_metered", "metered"}
    BY <1>2 DEF Begin, SearchFailed, Searching, MeterSearches, MeterCalls, searches,
                TypeOK, HitsSearched, Admitted
  <2>2. Late' \subseteq Late
    BY <2>1 DEF Late
  <2>3. HitsSearched'
    BY <2>1 DEF HitsSearched
  <2>4. LateMetered'
    BY <2>1, <2>2 DEF LateMetered, Late
  <2>. QED BY <1>1, <2>1, <2>2, <2>3, <2>4, NothingCharged
<1>3. ASSUME NEW r \in Requests, SearchAnswered(r)
      PROVE  CallsInv'
  <2>1. PICK rule \in wanted[r] \ answered[r] : \E hits \in SUBSET {rule} :
          found' = [found EXCEPT ![r] = @ \cup hits]
    BY <1>3 DEF SearchAnswered
  <2>2. PICK hits \in SUBSET {rule} : found' = [found EXCEPT ![r] = @ \cup hits]
    BY <2>1
  <2>3. hits \subseteq wanted[r]
    BY <2>1, <2>2
  <2>4. /\ used' = used /\ calls' = calls /\ wanted' = wanted /\ pc' = pc
        /\ pc[r] = "admitted"
    BY <1>3 DEF SearchAnswered, Searching
  <2>5. Late' \subseteq Late
    BY <2>2, <2>3, <2>4 DEF Late, TypeOK
  <2>6. HitsSearched'
    BY <2>2, <2>4 DEF HitsSearched, TypeOK, Admitted
  <2>7. LateMetered'
    BY <2>4, <2>5 DEF LateMetered
  <2>. QED BY <1>1, <2>4, <2>5, <2>6, <2>7, NothingCharged
<1>4. ASSUME NEW r \in Requests, Check(r)
      PROVE  CallsInv'
  <2>1. /\ used' = used /\ calls' = calls /\ pc[r] = "checking" /\ found[r] = {}
        /\ found'[r] = {} /\ pc'[r] \in {"idle", "admitted"}
        /\ \A q \in Requests \ {r} : /\ pc'[q] = pc[q] /\ wanted'[q] = wanted[q]
                                     /\ found'[q] = found[q]
    BY <1>4 DEF Check, End, searches, TypeOK, HitsSearched, Admitted
  <2>2. Late' \subseteq Late /\ r \notin Late'
    BY <2>1 DEF Late
  <2>3. HitsSearched'
    BY <2>1 DEF HitsSearched
  <2>4. LateMetered'
    BY <2>1, <2>2 DEF LateMetered, Late
  <2>. QED BY <1>1, <2>1, <2>2, <2>3, <2>4, NothingCharged
<1>5. ASSUME NEW r \in Requests, GiveUp(r) \/ Abort(r) \/ Commit(r)
      PROVE  CallsInv'
  <2>1. /\ found'[r] = {}
        /\ \A q \in Requests \ {r} : /\ pc'[q] = pc[q] /\ wanted'[q] = wanted[q]
                                     /\ found'[q] = found[q]
    BY <1>5 DEF GiveUp, Abort, Commit, End, TypeOK
  <2>2. Late' \subseteq Late /\ r \notin Late'
    BY <2>1 DEF Late
  <2>3. HitsSearched'
    BY <2>1 DEF HitsSearched
  <2>4. LateMetered'
    BY <2>1, <2>2 DEF LateMetered, Late
  <2>5. CASE Commit(r)
    BY <1>1, <2>3, <2>4, <2>5, CommitShares
  <2>6. CASE GiveUp(r) \/ Abort(r)
    <3>1. used' = used /\ calls' = calls
      BY <2>6 DEF GiveUp, Abort
    <3>. QED BY <1>1, <2>2, <2>3, <2>4, <3>1, NothingCharged
  <2>. QED BY <1>5, <2>5, <2>6
<1>6. ASSUME \/ \E rule \in Rules : Toggle(rule)
             \/ \E p \in Plans : ChangePlan(p)
             \/ UNCHANGED vars
      PROVE  CallsInv'
  <2>1. /\ used' = used /\ calls' = calls /\ pc' = pc /\ wanted' = wanted /\ found' = found
    BY <1>6 DEF Toggle, ChangePlan, vars, searches
  <2>2. Late' \subseteq Late
    BY <2>1 DEF Late
  <2>. QED BY <1>1, <2>1, <2>2, NothingCharged DEF HitsSearched, LateMetered
<1>7. CASE NewMonth
  <2>1. /\ used' = 0 /\ calls' = 0 /\ pc' = pc
        /\ \A q \in Requests :
             /\ pc[q] \notin {"searches_metered", "metered"} =>
                  wanted'[q] = wanted[q] /\ found'[q] = found[q]
             /\ found'[q] \subseteq found[q]
    BY <1>7 DEF NewMonth, MeteredSearches, MeteredCalls
  <2>2. HitsSearched'
    BY <2>1 DEF HitsSearched
  <2>3. LateMetered'
    BY <2>1 DEF LateMetered, Late
  <2>4. \A m, n, k \in Nat : m <= n => 0 <= 0 + (n - m) * k
    <3>1. \A a, b \in Nat : 0 <= a * b
      OBVIOUS
    <3>2. \A m, n \in Nat : m <= n => n - m \in Nat
      OBVIOUS
    <3>. QED BY <3>1, <3>2
  <2>5. SharesLeft'
    BY <2>1, <2>4, LateFinite, Numbers DEF SharesLeft
  <2>. QED BY <1>1, <2>2, <2>3, <2>5
<1>. QED BY <1>2, <1>3, <1>4, <1>5, <1>6, <1>7 DEF Next, Proceed, Search

(* For any number of runs and rules, the model calls of a month exceed its *)
(* searches by no more than one run's rules for every run under way, which *)
(* is what runs between their two usage records bring over from the month  *)
(* before (routes.py, metering.record; quotas.py, _month_start).           *)
THEOREM CallsAlwaysFollowSearches == Spec => []CallsFollowSearches
<1>1. CallsInv => CallsFollowSearches
  <2>. SUFFICES ASSUME CallsInv PROVE CallsFollowSearches
    OBVIOUS
  <2>. DEFINE runs == Cardinality(Requests)
              rules == Cardinality(Rules)
              late == Cardinality(Late)
  <2>1. runs \in Nat /\ rules \in Nat /\ late \in Nat
    BY LateFinite, Numbers
  <2>2. calls <= used + (runs - late) * rules /\ calls \in Nat /\ used \in Nat
    BY DEF CallsInv, SharesLeft, TypeOK
  <2>. HIDE DEF runs, rules, late
  <2>3. runs - late \in Int /\ runs - late <= runs /\ runs \in Int
    BY <2>1
  <2>4. /\ (runs - late) * rules \in Int /\ runs * rules \in Int
        /\ (runs - late) * rules <= runs * rules
    BY <2>1, <2>3, Shares
  <2>5. calls <= used + runs * rules
    BY <2>2, <2>4
  <2>. QED BY <2>5 DEF CallsFollowSearches, runs, rules
<1>. QED BY <1>1, CallsInit, CallsNext, PTL DEF Spec

-----------------------------------------------------------------------------
(* The inductive invariant behind BreakerNeverOpens: the breaker counts    *)
(* the failed attempts of the rule being searched and of no other, and     *)
(* with_retry gives up when a rule has failed Attempts times.              *)
CountsOneRule ==
  \A r \in Requests : failures[r] = attempt[r] /\ attempt[r] <= Attempts

BreakerInv == TypeOK /\ CountsOneRule

(* Every step keeps the count within the attempts of one rule.             *)
LEMMA BreakerNext == BreakerInv /\ [Next]_vars => BreakerInv'
<1>. SUFFICES ASSUME BreakerInv, [Next]_vars PROVE BreakerInv'
  OBVIOUS
<1>. USE RetriesBelowThreshold DEF BreakerInv
<1>1. TypeOK'
  BY TypeNext
<1>2. ASSUME NEW r \in Requests,
             \/ Begin(r) \/ Check(r) \/ GiveUp(r) \/ MeterSearches(r)
             \/ MeterCalls(r) \/ Commit(r) \/ Abort(r)
      PROVE  CountsOneRule'
  BY <1>2 DEF Begin, Check, GiveUp, MeterSearches, MeterCalls, Commit, Abort, End,
     searches, TypeOK, CountsOneRule
<1>3. ASSUME NEW r \in Requests, SearchAnswered(r)
      PROVE  CountsOneRule'
  BY <1>3 DEF SearchAnswered, TypeOK, CountsOneRule
<1>4. ASSUME NEW r \in Requests, SearchFailed(r)
      PROVE  CountsOneRule'
  BY <1>4 DEF SearchFailed, Searching, TypeOK, CountsOneRule
<1>5. ASSUME \/ \E rule \in Rules : Toggle(rule)
             \/ \E p \in Plans : ChangePlan(p)
             \/ NewMonth \/ UNCHANGED vars
      PROVE  CountsOneRule'
  BY <1>5 DEF Toggle, ChangePlan, NewMonth, vars, searches, CountsOneRule
<1>. QED BY <1>1, <1>2, <1>3, <1>4, <1>5 DEF Next, Proceed, Search

(* For any number of rules, and any threshold above the attempts of a      *)
(* rule, no sequence of failures and answers opens the breaker of a run    *)
(* (with_retry, CircuitBreaker), the failure of the last attempt included. *)
THEOREM BreakerStaysClosed == Spec => []BreakerNeverOpens
<1>1. Init => BreakerInv
  BY TypeInit, RetriesBelowThreshold DEF Init, BreakerInv, CountsOneRule
<1>2. BreakerInv => BreakerNeverOpens
  BY RetriesBelowThreshold DEF BreakerInv, TypeOK, CountsOneRule, BreakerNeverOpens
<1>. QED BY <1>1, <1>2, BreakerNext, PTL DEF Spec
=============================================================================
