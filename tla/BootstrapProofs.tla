--------------------------- MODULE BootstrapProofs ---------------------------
(***************************************************************************)
(* Machine-checked facts about Bootstrap: for any number of workers, stops *)
(* and deleted accounts, in whatever order containers and workers fail.    *)
(***************************************************************************)
EXTENDS Bootstrap, TLAPS

(* Every initial volume is well typed.                                     *)
LEMMA TypeInit == Init => TypeOK
<1>. SUFFICES ASSUME Init PROVE TypeOK
  OBVIOUS
<1>1. schema \in SUBSET Revisions /\ version \in {Absent, 0} \cup Revisions
  BY DEF Init, Revisions, Baseline
<1>2. pc \in [Workers -> {"down", "init", "tenant", "insert", "account", "commit", "up"}]
  BY DEF Init
<1>3. at \in [Workers -> Tenants]
  BY DEF Init, Tenants
<1>4. inserted \in [Workers -> SUBSET Tenants] /\ made \in [Workers -> SUBSET Tenants]
  BY DEF Init
<1>5. tenants \in SUBSET Tenants /\ accounts \in [Tenants -> Nat]
  BY DEF Init
<1>6. removals \in 0..MaxRemovals /\ stops \in 0..MaxStops
  BY Bounds DEF Init
<1>7. phase \in {"off", "reconcile", "upgrade", "serving"} /\ createAll \in BOOLEAN
  BY DEF Init
<1>. QED BY <1>1, <1>2, <1>3, <1>4, <1>5, <1>6, <1>7 DEF TypeOK

(* A worker's session ends in a well typed state.                          *)
LEMMA EndSessionType ==
  ASSUME TypeOK, NEW w \in Workers, NEW state \in {"down", "init", "up"},
         EndSession(w, state)
  PROVE  /\ pc' \in [Workers -> {"down", "init", "tenant", "insert", "account", "commit", "up"}]
         /\ at' \in [Workers -> Tenants]
         /\ inserted' \in [Workers -> SUBSET Tenants]
         /\ made' \in [Workers -> SUBSET Tenants]
BY DEF EndSession, TypeOK, Tenants

(* The steps of a worker keep the types.                                   *)
LEMMA SeedType ==
  ASSUME TypeOK, NEW w \in Workers, Seed(w)
  PROVE  TypeOK'
<1>1. CASE StartWorker(w)
  BY <1>1 DEF StartWorker, volume, seeded, TypeOK
<1>2. CASE InitDb(w)
  BY <1>2 DEF InitDb, seeded, TypeOK, Completed
<1>3. CASE FindTenant(w)
  <2>1. CASE SeedNeeds \subseteq schema
    BY <1>3, <2>1 DEF FindTenant, volume, seeded, TypeOK
  <2>2. CASE ~(SeedNeeds \subseteq schema)
    BY <1>3, <2>2, EndSessionType DEF FindTenant, volume, seeded, TypeOK
  <2>. QED BY <2>1, <2>2
<1>4. CASE InsertTenant(w)
  <2>1. CASE at[w] \in tenants
    BY <1>4, <2>1, EndSessionType DEF InsertTenant, volume, seeded, TypeOK
  <2>2. CASE at[w] \notin tenants
    BY <1>4, <2>2 DEF InsertTenant, volume, seeded, TypeOK
  <2>. QED BY <2>1, <2>2
<1>5. CASE MakeAccount(w)
  <2>1. CASE accounts[at[w]] > 1
    BY <1>5, <2>1, EndSessionType DEF MakeAccount, volume, seeded, TypeOK
  <2>2. CASE ~(accounts[at[w]] > 1)
    BY <1>5, <2>2 DEF MakeAccount, NextTenant, volume, seeded, TypeOK, Tenants
  <2>. QED BY <2>1, <2>2
<1>6. CASE Commit(w)
  BY <1>6, EndSessionType DEF Commit, volume, TypeOK
<1>. QED BY <1>1, <1>2, <1>3, <1>4, <1>5, <1>6 DEF Seed

(* Every step keeps the types.                                             *)
LEMMA TypeNext == TypeOK /\ [Next]_vars => TypeOK'
<1>. SUFFICES ASSUME TypeOK, [Next]_vars PROVE TypeOK'
  OBVIOUS
<1>1. CASE StartContainer
  BY <1>1 DEF StartContainer, volume, seeding, seeded, TypeOK
<1>2. CASE Reconcile
  BY <1>2 DEF Reconcile, Reconciled, Stamped, seeding, seeded, TypeOK, Revisions, Baseline
<1>3. CASE Upgrade
  <2>1. Pending \subseteq Revisions
    BY DEF Pending, Stamped, Revisions, Head
  <2>2. schema' \in SUBSET Revisions /\ version' \in {Absent, 0} \cup Revisions
    <3>1. CASE Upgradable
      <4>1. schema' = schema \cup Pending /\ version' = Head
        BY <1>3, <3>1 DEF Upgrade
      <4>2. Head \in Revisions
        BY DEF Head, Revisions
      <4>. QED BY <2>1, <4>1, <4>2 DEF TypeOK
    <3>2. CASE ~Upgradable
      BY <1>3, <3>2 DEF Upgrade, volume, TypeOK
    <3>. QED BY <3>1, <3>2
  <2>. QED BY <1>3, <2>2 DEF Upgrade, seeding, seeded, TypeOK
<1>4. CASE StepFails
  BY <1>4, Bounds DEF StepFails, volume, seeding, seeded, TypeOK
<1>5. CASE StopContainer
  BY <1>5, Bounds DEF StopContainer, volume, seeded, TypeOK, Tenants
<1>6. CASE RemoveAccount
  <2>1. accounts["default"] - 1 \in Nat
    BY <1>6 DEF RemoveAccount, TypeOK, Tenants
  <2>. QED BY <1>6, <2>1, Bounds DEF RemoveAccount, volume, seeding, TypeOK, Tenants
<1>7. ASSUME NEW w \in Workers, Seed(w) PROVE TypeOK'
  BY <1>7, SeedType
<1>8. ASSUME NEW w \in Workers, StopWorker(w) PROVE TypeOK'
  BY <1>8, EndSessionType, Bounds DEF StopWorker, volume, seeded, TypeOK
<1>9. CASE UNCHANGED vars
  BY <1>9 DEF vars, TypeOK
<1>. QED BY <1>1, <1>2, <1>3, <1>4, <1>5, <1>6, <1>7, <1>8, <1>9
         DEF Next, Boot, AllUp

(* Volume, container, workers and seed are well typed in every behavior.   *)
THEOREM TypeCorrect == Spec => []TypeOK
BY TypeInit, TypeNext, PTL DEF Spec

-----------------------------------------------------------------------------
(* The schema and its recorded version.                                    *)

(* What create_all and the migrations do only adds to the schema.          *)
LEMMA SchemaGrows == TypeOK /\ [Next]_vars => schema \subseteq schema'
<1>. SUFFICES ASSUME TypeOK, [Next]_vars PROVE schema \subseteq schema'
  OBVIOUS
<1>1. CASE Upgrade
  BY <1>1 DEF Upgrade, volume
<1>2. ASSUME NEW w \in Workers, Seed(w) PROVE schema \subseteq schema'
  <2>1. CASE InitDb(w)
    <3>1. schema \subseteq Completed
      BY DEF Completed, TypeOK
    <3>. QED BY <2>1, <3>1 DEF InitDb
  <2>2. CASE ~InitDb(w)
    BY <1>2, <2>2 DEF Seed, StartWorker, FindTenant, InsertTenant, MakeAccount, Commit, volume
  <2>. QED BY <2>1, <2>2
<1>3. CASE StartContainer \/ Reconcile \/ StepFails \/ StopContainer \/ RemoveAccount
  BY <1>3 DEF StartContainer, Reconcile, StepFails, StopContainer, RemoveAccount, volume
<1>4. ASSUME NEW w \in Workers, StopWorker(w) PROVE schema \subseteq schema'
  BY <1>4 DEF StopWorker, volume
<1>5. CASE UNCHANGED vars
  BY <1>5 DEF vars
<1>. QED BY <1>1, <1>2, <1>3, <1>4, <1>5 DEF Next, Boot, AllUp

(* Only the entrypoint changes the recorded version.                       *)
LEMMA VersionChanges == [Next]_vars => Reconcile \/ Upgrade \/ version' = version
<1>. SUFFICES ASSUME [Next]_vars PROVE Reconcile \/ Upgrade \/ version' = version
  OBVIOUS
<1>1. ASSUME NEW w \in Workers, Seed(w) PROVE version' = version
  BY <1>1 DEF Seed, StartWorker, InitDb, FindTenant, InsertTenant, MakeAccount, Commit, volume
<1>2. ASSUME NEW w \in Workers, StopWorker(w) PROVE version' = version
  BY <1>2 DEF StopWorker, volume
<1>3. CASE StartContainer \/ StepFails \/ StopContainer \/ RemoveAccount
  BY <1>3 DEF StartContainer, StepFails, StopContainer, RemoveAccount, volume
<1>4. CASE UNCHANGED vars
  BY <1>4 DEF vars
<1>. QED BY <1>1, <1>2, <1>3, <1>4 DEF Next, Boot, AllUp

(* Every step keeps the recorded version backed by the schema.             *)
LEMMA VersionNext == TypeOK /\ VersionBacked /\ [Next]_vars => VersionBacked'
<1>. SUFFICES ASSUME TypeOK, VersionBacked, [Next]_vars PROVE VersionBacked'
  OBVIOUS
<1>1. schema \subseteq schema'
  BY SchemaGrows
<1>2. CASE version' = version
  BY <1>1, <1>2 DEF VersionBacked, Stamped
<1>3. CASE Reconcile
  <2>1. CASE version' = version
    BY <1>2, <2>1
  <2>2. CASE version' # version
    <3>1. version' = Baseline /\ Baseline \in schema
      BY <1>3, <2>2 DEF Reconcile, Reconciled
    <3>2. \A n \in 1..Baseline : n = Baseline
      BY DEF Baseline
    <3>. QED BY <1>1, <3>1, <3>2 DEF VersionBacked
  <2>. QED BY <2>1, <2>2
<1>4. CASE Upgrade
  <2>1. CASE Upgradable
    <3>1. schema' = schema \cup Pending /\ version' = Head
      BY <1>4, <2>1 DEF Upgrade
    <3>2. 1..Head \subseteq schema \cup Pending
      BY DEF VersionBacked, Pending, Stamped, Revisions, Head
    <3>. QED BY <3>1, <3>2 DEF VersionBacked
  <2>2. CASE ~Upgradable
    BY <1>2, <1>4, <2>2 DEF Upgrade, volume
  <2>. QED BY <2>1, <2>2
<1>. QED BY <1>2, <1>3, <1>4, VersionChanges

(* The version alembic reads is never ahead of the schema, so it skips no  *)
(* migration the database lacks, wherever containers stopped before.       *)
THEOREM VersionsAreBacked == Spec => []VersionBacked
<1>1. Init => VersionBacked
  BY AbsentIsNoVersion DEF Init, VersionBacked, Stamped, Revisions, Baseline
<1>. QED BY <1>1, VersionNext, TypeCorrect, PTL DEF Spec

-----------------------------------------------------------------------------
(* The seed.  A transaction holds the names it has inserted alone, knows   *)
(* that the tenants before the one it works on exist, and makes an account *)
(* where there is none.                                                    *)

Exists(n, w) == n \in tenants \cup inserted[w]

OwnNames ==
  \A w \in Workers :
    /\ inserted[w] \cap tenants = {}
    /\ \A v \in Workers \ {w} : inserted[w] \cap inserted[v] = {}

TenantsSoFar ==
  \A w \in Workers :
    /\ pc[w] = "account" => Exists(at[w], w)
    /\ at[w] = "__platform__" => Exists("default", w)
    /\ pc[w] = "commit" => Exists("__platform__", w) /\ at[w] = "__platform__"

AccountsSoFar ==
  \A w \in Workers :
    /\ \A n \in made[w] : Exists(n, w)
    /\ at[w] = "__platform__" /\ "default" \in inserted[w] => "default" \in made[w]
    /\ pc[w] = "commit" /\ "__platform__" \in inserted[w] => "__platform__" \in made[w]

MadeOnce ==
  \A w \in Workers : \A n \in made[w] :
    removals = 0 \/ n = "__platform__" => n \in inserted[w]

AccountsKept ==
  \A n \in tenants : removals = 0 \/ n = "__platform__" => accounts[n] > 0

SeedInv ==
  /\ OwnNames /\ TenantsSoFar /\ AccountsSoFar /\ MadeOnce /\ AccountsKept
  /\ SeededWhole /\ SeededOnce

(* No transaction is open and nothing is seeded at first.                  *)
LEMMA SeedInit == Init => SeedInv
<1>. SUFFICES ASSUME Init PROVE SeedInv
  OBVIOUS
<1>1. \A w \in Workers : /\ pc[w] = "down" /\ at[w] = "default"
                         /\ inserted[w] = {} /\ made[w] = {}
  BY DEF Init
<1>2. tenants = {} /\ \A n \in Tenants : accounts[n] = 0
  BY DEF Init
<1>3. OwnNames /\ TenantsSoFar /\ AccountsSoFar /\ MadeOnce
  BY <1>1 DEF OwnNames, TenantsSoFar, AccountsSoFar, MadeOnce
<1>4. AccountsKept /\ SeededWhole /\ SeededOnce
  BY <1>2 DEF AccountsKept, SeededWhole, SeededOnce, Tenants
<1>. QED BY <1>3, <1>4 DEF SeedInv

(* A session that ends without a commit leaves the invariant.              *)
LEMMA SeedRolledBack ==
  ASSUME TypeOK, SeedInv, NEW w \in Workers, EndSession(w, "down"), UNCHANGED seeded
  PROVE  SeedInv'
<1>. USE DEF EndSession, seeded, TypeOK
<1>1. OwnNames' BY DEF SeedInv, OwnNames
<1>2. TenantsSoFar' BY DEF SeedInv, TenantsSoFar, Exists
<1>3. AccountsSoFar' BY DEF SeedInv, AccountsSoFar, Exists
<1>4. MadeOnce' BY DEF SeedInv, MadeOnce
<1>5. (AccountsKept /\ SeededWhole /\ SeededOnce)'
  BY DEF SeedInv, AccountsKept, SeededWhole, SeededOnce
<1>. QED BY <1>1, <1>2, <1>3, <1>4, <1>5 DEF SeedInv

(* FindTenant finds the tenant or goes on to insert it.                    *)
LEMMA SeedFindTenant ==
  ASSUME TypeOK, SeedInv, NEW w \in Workers, FindTenant(w)
  PROVE  SeedInv'
<1>1. CASE SeedNeeds \subseteq schema
  <2>1. /\ pc' = [pc EXCEPT ![w] = IF at[w] \in tenants THEN "account" ELSE "insert"]
        /\ UNCHANGED <<at, inserted, made, tenants, accounts, removals>>
    BY <1>1 DEF FindTenant, seeded
  <2>2. TenantsSoFar' BY <2>1 DEF SeedInv, TenantsSoFar, Exists, TypeOK
  <2>3. AccountsSoFar' BY <2>1 DEF SeedInv, AccountsSoFar, Exists, TypeOK
  <2>4. (OwnNames /\ MadeOnce /\ AccountsKept /\ SeededWhole /\ SeededOnce)'
    BY <2>1 DEF SeedInv, OwnNames, MadeOnce, AccountsKept, SeededWhole, SeededOnce
  <2>. QED BY <2>2, <2>3, <2>4 DEF SeedInv
<1>2. CASE ~(SeedNeeds \subseteq schema)
  BY <1>2, SeedRolledBack DEF FindTenant
<1>. QED BY <1>1, <1>2

(* InsertTenant takes a name nobody has.                                   *)
LEMMA SeedInsertTenant ==
  ASSUME TypeOK, SeedInv, NEW w \in Workers, InsertTenant(w)
  PROVE  SeedInv'
<1>1. CASE at[w] \notin tenants
  <2>1. /\ pc' = [pc EXCEPT ![w] = "account"]
        /\ inserted' = [inserted EXCEPT ![w] = @ \cup {at[w]}]
        /\ UNCHANGED <<at, made, tenants, accounts, removals>>
        /\ \A v \in Workers \ {w} : at[w] \notin inserted[v]
    BY <1>1 DEF InsertTenant, seeded
  <2>2. OwnNames' BY <1>1, <2>1 DEF SeedInv, OwnNames, TypeOK
  <2>3. TenantsSoFar' BY <2>1 DEF SeedInv, TenantsSoFar, Exists, TypeOK
  <2>4. AccountsSoFar'
    <3>. SUFFICES ASSUME NEW v \in Workers
                  PROVE  (/\ \A n \in made[v] : Exists(n, v)
                          /\ at[v] = "__platform__" /\ "default" \in inserted[v] => "default" \in made[v]
                          /\ pc[v] = "commit" /\ "__platform__" \in inserted[v] => "__platform__" \in made[v])'
      BY DEF AccountsSoFar
    <3>1. CASE v # w
      BY <2>1, <3>1 DEF SeedInv, AccountsSoFar, Exists, TypeOK
    <3>2. CASE v = w
      <4>1. pc'[w] = "account" /\ inserted'[w] = inserted[w] \cup {at[w]}
        BY <2>1 DEF TypeOK
      <4>. QED BY <2>1, <3>2, <4>1 DEF SeedInv, AccountsSoFar, Exists, TypeOK
    <3>. QED BY <3>1, <3>2
  <2>5. MadeOnce' BY <2>1 DEF SeedInv, MadeOnce, TypeOK
  <2>6. (AccountsKept /\ SeededWhole /\ SeededOnce)'
    BY <2>1 DEF SeedInv, AccountsKept, SeededWhole, SeededOnce
  <2>. QED BY <2>2, <2>3, <2>4, <2>5, <2>6 DEF SeedInv
<1>2. CASE at[w] \in tenants
  BY <1>2, SeedRolledBack DEF InsertTenant
<1>. QED BY <1>1, <1>2

(* MakeAccount makes the account of a tenant it has inserted itself, unless *)
(* the account of a committed tenant was deleted.                          *)
LEMMA SeedMakeAccount ==
  ASSUME TypeOK, SeedInv, NEW w \in Workers, MakeAccount(w)
  PROVE  SeedInv'
<1>1. CASE ~(accounts[at[w]] > 1)
  <2>1. /\ pc[w] = "account"
        /\ made' = [made EXCEPT ![w] = IF accounts[at[w]] = 0 THEN @ \cup {at[w]} ELSE @]
        /\ at' = [at EXCEPT ![w] = "__platform__"]
        /\ pc' = [pc EXCEPT ![w] = IF at[w] = "default" THEN "tenant" ELSE "commit"]
        /\ UNCHANGED <<inserted, tenants, accounts, removals>>
    BY <1>1 DEF MakeAccount, NextTenant, seeded
  <2>2. Exists(at[w], w) /\ at[w] \in Tenants
    BY <2>1 DEF SeedInv, TenantsSoFar, TypeOK
  <2>3. \A n \in inserted[w] : accounts[n] = 0
    BY DEF SeedInv, OwnNames, SeededWhole, TypeOK
  <2>4. TenantsSoFar'
    <3>. SUFFICES ASSUME NEW v \in Workers
                  PROVE  (/\ pc[v] = "account" => Exists(at[v], v)
                          /\ at[v] = "__platform__" => Exists("default", v)
                          /\ pc[v] = "commit" => Exists("__platform__", v) /\ at[v] = "__platform__")'
      BY DEF TenantsSoFar
    <3>1. CASE v # w
      BY <2>1, <3>1 DEF SeedInv, TenantsSoFar, Exists, TypeOK
    <3>2. CASE v = w
      <4>1. at[w] = "default" \/ at[w] = "__platform__"
        BY <2>2 DEF Tenants
      <4>. QED BY <2>1, <2>2, <3>2, <4>1 DEF SeedInv, TenantsSoFar, Exists, TypeOK
    <3>. QED BY <3>1, <3>2
  <2>5. AccountsSoFar'
    <3>. SUFFICES ASSUME NEW v \in Workers
                  PROVE  (/\ \A n \in made[v] : Exists(n, v)
                          /\ at[v] = "__platform__" /\ "default" \in inserted[v] => "default" \in made[v]
                          /\ pc[v] = "commit" /\ "__platform__" \in inserted[v] => "__platform__" \in made[v])'
      BY DEF AccountsSoFar
    <3>1. CASE v # w
      BY <2>1, <3>1 DEF SeedInv, AccountsSoFar, Exists, TypeOK
    <3>2. CASE v = w
      <4>1. made[w] \subseteq made'[w] /\ made'[w] \subseteq made[w] \cup {at[w]}
        BY <2>1 DEF TypeOK
      <4>2. at[w] \in inserted[w] => at[w] \in made'[w]
        BY <2>1, <2>3 DEF TypeOK
      <4>3. \/ at[w] = "default" /\ pc'[w] = "tenant"
            \/ at[w] = "__platform__" /\ pc'[w] = "commit"
        <5>1. pc'[w] = IF at[w] = "default" THEN "tenant" ELSE "commit"
          BY <2>1 DEF TypeOK
        <5>. QED BY <2>2, <5>1 DEF Tenants
      <4>. QED BY <2>1, <2>2, <3>2, <4>1, <4>2, <4>3 DEF SeedInv, AccountsSoFar, Exists
    <3>. QED BY <3>1, <3>2
  <2>6. MadeOnce'
    <3>1. accounts[at[w]] = 0 /\ (removals = 0 \/ at[w] = "__platform__") => at[w] \in inserted[w]
      BY <2>2 DEF SeedInv, AccountsKept, Exists
    <3>. QED BY <2>1, <3>1 DEF SeedInv, MadeOnce, TypeOK
  <2>7. (OwnNames /\ AccountsKept /\ SeededWhole /\ SeededOnce)'
    BY <2>1 DEF SeedInv, OwnNames, AccountsKept, SeededWhole, SeededOnce
  <2>. QED BY <2>4, <2>5, <2>6, <2>7 DEF SeedInv
<1>2. CASE accounts[at[w]] > 1
  BY <1>2, SeedRolledBack DEF MakeAccount
<1>. QED BY <1>1, <1>2

(* Commit adds both tenants, or none, and one account of each it adds.     *)
LEMMA SeedCommit ==
  ASSUME TypeOK, SeedInv, NEW w \in Workers, Commit(w)
  PROVE  SeedInv'
<1>1. /\ tenants' = tenants \cup inserted[w]
      /\ accounts' = [n \in Tenants |-> IF n \in made[w] THEN accounts[n] + 1 ELSE accounts[n]]
      /\ removals' = removals
      /\ pc' = [pc EXCEPT ![w] = "up"]
      /\ at' = [at EXCEPT ![w] = "default"]
      /\ inserted' = [inserted EXCEPT ![w] = {}]
      /\ made' = [made EXCEPT ![w] = {}]
  BY DEF Commit, EndSession
<1>2. /\ Exists("default", w) /\ Exists("__platform__", w)
      /\ inserted[w] \subseteq made[w]
      /\ inserted[w] \subseteq Tenants /\ made[w] \subseteq Tenants
  <2>1. pc[w] = "commit" /\ at[w] = "__platform__"
    BY DEF Commit, SeedInv, TenantsSoFar
  <2>. QED BY <2>1 DEF SeedInv, TenantsSoFar, AccountsSoFar, TypeOK, Tenants
<1>3. tenants' = Tenants
  BY <1>1, <1>2 DEF Exists, TypeOK, Tenants
<1>4. \A n \in inserted[w] : n \notin tenants /\ accounts[n] = 0
  BY <1>2 DEF SeedInv, OwnNames, SeededWhole, TypeOK
<1>5. \A n \in Tenants : /\ accounts[n] \in Nat /\ accounts'[n] \in Nat
                         /\ accounts'[n] >= accounts[n]
                         /\ (n \in inserted[w] => accounts'[n] = 1)
                         /\ (n \notin made[w] => accounts'[n] = accounts[n])
  BY <1>1, <1>2, <1>4 DEF TypeOK
<1>6. OwnNames'
  <2>. SUFFICES ASSUME NEW v \in Workers
                PROVE  (/\ inserted[v] \cap tenants = {}
                        /\ \A u \in Workers \ {v} : inserted[v] \cap inserted[u] = {})'
    BY DEF OwnNames
  <2>1. \A u \in Workers : inserted'[u] = IF u = w THEN {} ELSE inserted[u]
    BY <1>1 DEF TypeOK
  <2>2. CASE v = w
    BY <2>1, <2>2
  <2>3. CASE v # w
    BY <1>1, <2>1, <2>3 DEF SeedInv, OwnNames
  <2>. QED BY <2>2, <2>3
<1>7. TenantsSoFar'
  BY <1>1, <1>3 DEF SeedInv, TenantsSoFar, Exists, TypeOK, Tenants
<1>8. AccountsSoFar'
  BY <1>1 DEF SeedInv, AccountsSoFar, Exists, TypeOK
<1>9. MadeOnce'
  BY <1>1 DEF SeedInv, MadeOnce, TypeOK
<1>10. AccountsKept'
  <2>. SUFFICES ASSUME NEW n \in Tenants, removals = 0 \/ n = "__platform__" PROVE accounts'[n] > 0
    BY <1>1, <1>3 DEF AccountsKept
  <2>1. CASE n \in inserted[w]
    BY <1>5, <2>1
  <2>2. CASE n \notin inserted[w]
    <3>1. n \in tenants
      BY <1>1, <1>3, <2>2
    <3>2. accounts[n] > 0
      BY <3>1 DEF SeedInv, AccountsKept
    <3>. QED BY <1>5, <3>2
  <2>. QED BY <2>1, <2>2
<1>11. SeededWhole'
  <2>1. \A n \in Tenants : accounts'[n] = 0 => accounts[n] = 0 /\ n \notin inserted[w]
    BY <1>5
  <2>. QED BY <1>1, <1>3, <2>1 DEF SeedInv, SeededWhole
<1>12. SeededOnce'
  <2>. SUFFICES ASSUME NEW n \in Tenants, removals = 0 \/ n = "__platform__",
                       accounts[n] <= 1
                PROVE  accounts'[n] <= 1
    BY <1>1 DEF SeedInv, SeededOnce, Tenants
  <2>1. CASE n \in made[w]
    BY <1>5, <2>1 DEF SeedInv, MadeOnce
  <2>2. CASE n \notin made[w]
    BY <1>5, <2>2
  <2>. QED BY <2>1, <2>2
<1>. QED BY <1>6, <1>7, <1>8, <1>9, <1>10, <1>11, <1>12 DEF SeedInv

(* Every step keeps the invariant of the seed.                             *)
LEMMA SeedNext == TypeOK /\ SeedInv /\ [Next]_vars => SeedInv'
<1>. SUFFICES ASSUME TypeOK, SeedInv, [Next]_vars PROVE SeedInv'
  OBVIOUS
<1>1. CASE StartContainer \/ Reconcile \/ Upgrade \/ StepFails \/ UNCHANGED vars
  <2>1. UNCHANGED <<pc, at, inserted, made, tenants, accounts, removals>>
    BY <1>1 DEF StartContainer, Reconcile, Upgrade, StepFails, seeding, seeded, vars
  <2>. QED BY <2>1 DEF SeedInv, OwnNames, TenantsSoFar, AccountsSoFar, MadeOnce, AccountsKept,
                       SeededWhole, SeededOnce, Exists
<1>2. CASE StopContainer
  <2>1. /\ UNCHANGED <<tenants, accounts, removals>>
        /\ \A w \in Workers : /\ pc'[w] = "down" /\ at'[w] = "default"
                               /\ inserted'[w] = {} /\ made'[w] = {}
    BY <1>2 DEF StopContainer, seeded
  <2>2. (OwnNames /\ TenantsSoFar /\ AccountsSoFar /\ MadeOnce)'
    BY <2>1 DEF OwnNames, TenantsSoFar, AccountsSoFar, MadeOnce
  <2>3. (AccountsKept /\ SeededWhole /\ SeededOnce)'
    BY <2>1 DEF SeedInv, AccountsKept, SeededWhole, SeededOnce
  <2>. QED BY <2>2, <2>3 DEF SeedInv
<1>3. CASE RemoveAccount
  <2>1. /\ UNCHANGED <<pc, at, inserted, made, tenants>>
        /\ accounts' = [accounts EXCEPT !["default"] = @ - 1]
        /\ removals' = removals + 1 /\ removals' > 0 /\ accounts["default"] > 0
    BY <1>3 DEF RemoveAccount, seeding, TypeOK
  <2>2. accounts'["__platform__"] = accounts["__platform__"]
        /\ accounts'["default"] = accounts["default"] - 1
    BY <2>1 DEF TypeOK, Tenants
  <2>3. (OwnNames /\ TenantsSoFar /\ AccountsSoFar)'
    BY <2>1 DEF SeedInv, OwnNames, TenantsSoFar, AccountsSoFar, Exists
  <2>4. MadeOnce'
    BY <2>1 DEF SeedInv, MadeOnce
  <2>5. (AccountsKept /\ SeededWhole /\ SeededOnce)'
    BY <2>1, <2>2 DEF SeedInv, AccountsKept, SeededWhole, SeededOnce, Tenants, TypeOK
  <2>. QED BY <2>3, <2>4, <2>5 DEF SeedInv
<1>4. ASSUME NEW w \in Workers, StartWorker(w) \/ InitDb(w) PROVE SeedInv'
  <2>1. /\ pc' = [pc EXCEPT ![w] = "init"] \/ pc' = [pc EXCEPT ![w] = "tenant"]
        /\ UNCHANGED <<at, inserted, made, tenants, accounts, removals>>
    BY <1>4 DEF StartWorker, InitDb, seeded
  <2>2. TenantsSoFar' BY <2>1 DEF SeedInv, TenantsSoFar, Exists, TypeOK
  <2>3. AccountsSoFar' BY <2>1 DEF SeedInv, AccountsSoFar, Exists, TypeOK
  <2>4. (OwnNames /\ MadeOnce /\ AccountsKept /\ SeededWhole /\ SeededOnce)'
    BY <2>1 DEF SeedInv, OwnNames, MadeOnce, AccountsKept, SeededWhole, SeededOnce
  <2>. QED BY <2>2, <2>3, <2>4 DEF SeedInv
<1>5. ASSUME NEW w \in Workers, StopWorker(w) PROVE SeedInv'
  BY <1>5, SeedRolledBack DEF StopWorker
<1>. QED BY <1>1, <1>2, <1>3, <1>4, <1>5, SeedFindTenant, SeedInsertTenant,
            SeedMakeAccount, SeedCommit DEF Next, Boot, Seed, AllUp

(* Both tenants appear together, each with its account, wherever workers   *)
(* and containers stop.                                                    *)
THEOREM SeedIsWhole == Spec => []SeededWhole
<1>1. SeedInv => SeededWhole
  BY DEF SeedInv
<1>. QED BY <1>1, SeedInit, SeedNext, TypeCorrect, PTL DEF Spec

(* However many workers seed at once, a name gets a second account only    *)
(* after the first was deleted.                                            *)
THEOREM SeedIsOnce == Spec => []SeededOnce
<1>1. SeedInv => SeededOnce
  BY DEF SeedInv
<1>. QED BY <1>1, SeedInit, SeedNext, TypeCorrect, PTL DEF Spec
-----------------------------------------------------------------------------
(* No deadlock.  Workers seed the tenants in one order: whoever has        *)
(* inserted a tenant has inserted the first one, or found it.              *)

FirstNameFirst == \A w \in Workers : inserted[w] # {} => Exists("default", w)

(* Every step keeps the order.                                             *)
LEMMA FirstNameNext ==
  TypeOK /\ SeedInv /\ FirstNameFirst /\ [Next]_vars => FirstNameFirst'
<1>. SUFFICES ASSUME TypeOK, SeedInv, FirstNameFirst, [Next]_vars,
                     NEW v \in Workers, inserted'[v] # {}
              PROVE  "default" \in tenants' \cup inserted'[v]
  BY DEF FirstNameFirst, Exists
<1>1. \A w \in Workers : EndSession(w, "up") \/ EndSession(w, "down") =>
        v # w /\ inserted'[v] = inserted[v]
  BY DEF EndSession, TypeOK
<1>2. CASE inserted'[v] = inserted[v] /\ tenants \subseteq tenants'
  BY <1>2 DEF FirstNameFirst, Exists
<1>3. ASSUME NEW w \in Workers, InsertTenant(w) PROVE "default" \in tenants' \cup inserted'[v]
  <2>1. CASE v = w /\ at[w] \notin tenants
    <3>1. inserted'[w] = inserted[w] \cup {at[w]} /\ tenants' = tenants
      BY <1>3, <2>1 DEF InsertTenant, seeded, TypeOK
    <3>2. at[w] = "default" \/ Exists("default", w)
      BY DEF SeedInv, TenantsSoFar, TypeOK, Tenants
    <3>. QED BY <2>1, <3>1, <3>2 DEF Exists
  <2>2. CASE ~(v = w /\ at[w] \notin tenants)
    BY <1>1, <1>2, <1>3, <2>2 DEF InsertTenant, seeded, TypeOK
  <2>. QED BY <2>1, <2>2
<1>4. ASSUME NEW w \in Workers, Seed(w) \/ StopWorker(w), ~InsertTenant(w)
      PROVE  inserted'[v] = inserted[v] /\ tenants \subseteq tenants'
  BY <1>1, <1>4 DEF Seed, StartWorker, InitDb, FindTenant, MakeAccount, Commit, StopWorker, seeded
<1>5. ~StopContainer
  BY DEF StopContainer
<1>6. CASE StartContainer \/ Boot \/ StepFails \/ RemoveAccount \/ AllUp \/ UNCHANGED vars
  BY <1>2, <1>6 DEF StartContainer, Boot, Reconcile, Upgrade, StepFails, RemoveAccount, AllUp,
                    seeding, seeded, vars
<1>. QED BY <1>2, <1>3, <1>4, <1>5, <1>6 DEF Next

(* At most one worker holds tenants it has not committed: it has inserted  *)
(* the first tenant itself, since tenants are only committed together.     *)
THEOREM OneSeedsAtATime == Spec => []OneSeeder
<1>1. Init => FirstNameFirst
  BY DEF Init, FirstNameFirst
<1>2. TypeOK /\ SeedInv /\ FirstNameFirst => OneSeeder
  <2>. SUFFICES ASSUME TypeOK, SeedInv, FirstNameFirst,
                       NEW v \in Workers, NEW w \in Workers,
                       inserted[v] # {}, inserted[w] # {}, v # w
                PROVE  FALSE
    BY DEF OneSeeder
  <2>1. tenants = {}
    BY DEF SeedInv, OwnNames, SeededWhole, TypeOK
  <2>2. "default" \in inserted[v] /\ "default" \in inserted[w]
    BY <2>1 DEF FirstNameFirst, Exists
  <2>. QED BY <2>2 DEF SeedInv, OwnNames
<1>. QED BY <1>1, <1>2, FirstNameNext, SeedInit, SeedNext, TypeCorrect, PTL DEF Spec

WaitsFor(w, v) == v # w /\ pc[w] = "insert" /\ at[w] \in inserted[v]

(* So the INSERTs of the seed cannot deadlock: the worker that another one *)
(* waits for waits for nobody, however many start on the volume at once.   *)
THEOREM NoSeederWaitsForAWaiter ==
  Spec => [](\A u, v, w \in Workers : WaitsFor(w, v) => ~WaitsFor(v, u))
<1>1. OneSeeder => \A u, v, w \in Workers : WaitsFor(w, v) => ~WaitsFor(v, u)
  BY DEF OneSeeder, WaitsFor
<1>. QED BY <1>1, OneSeedsAtATime, PTL

=============================================================================
