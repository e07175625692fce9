----------------------------- MODULE Bootstrap ------------------------------
(***************************************************************************)
(* How a backend container comes up on the PostgreSQL volume it is given:  *)
(* entrypoint.sh reconciles Alembic's version table, upgrades the schema   *)
(* and starts the uvicorn workers, each of which creates missing tables    *)
(* (SENTINEL_DB_CREATE_ALL) or none and seeds the first tenants and        *)
(* accounts in one transaction.  Containers and workers stop at any point  *)
(* and start again on the same volume.                                     *)
(*                                                                         *)
(* A revision stands for the tables or columns it creates.                 *)
(***************************************************************************)
EXTENDS Naturals, FiniteSets

CONSTANTS
  Workers,        \* WEB_CONCURRENCY
  Absent,         \* there is no alembic_version table
  MaxStops,       \* bound: failures, crashes and restarts
  MaxRemovals     \* bound: seeded accounts an admin deletes

ASSUME AbsentIsNoVersion == Absent \notin Nat
ASSUME Bounds == MaxStops \in Nat /\ MaxRemovals \in Nat

\* alembic/versions: the initial schema, the new columns of tenants, the
\* credentials and the usage events.
Revisions == 1..4
Head == 4
Baseline == 1
AddsColumns == {2}

\* What TenantRow and UserRow select and insert.
SeedNeeds == {1, 2}

\* seed_default: the first tenants in its order, each with one account.
Tenants == {"default", "__platform__"}

VARIABLES
  schema,         \* revisions of which the database has tables and columns
  version,        \* the row of alembic_version, 0 if there is none
  phase,          \* of the container
  createAll,      \* SENTINEL_DB_CREATE_ALL of the container
  pc,             \* of a worker
  at,             \* the tenant a worker is seeding
  inserted,       \* tenants a worker's transaction has inserted
  made,           \* tenants in which it has inserted the account
  tenants,        \* committed tenants
  accounts,       \* number of committed accounts of that name
  removals,       \* history: how many have been deleted
  stops

vars == <<schema, version, phase, createAll, pc, at, inserted, made, tenants,
          accounts, removals, stops>>
volume == <<schema, version>>
seeding == <<pc, at, inserted, made>>
seeded == <<tenants, accounts, removals>>

-----------------------------------------------------------------------------
Stamped == version \in Revisions

\* Base.metadata.create_all: tables that are missing, never columns.
Completed == IF Baseline \in schema THEN schema \cup (Revisions \ AddsColumns)
                                    ELSE Revisions

\* Mutant: the newest revision is stamped.
ReconciledAtHead ==
  IF version = 0 /\ Baseline \in schema THEN Head ELSE version

\* The two probes of the entrypoint share a transaction, and PostgreSQL answers
\* nothing in a transaction in which a statement has failed: without a version
\* table the tables are not found either, and nothing is stamped.
Reconciled ==
  LET has_tenants == version # Absent /\ Baseline \in schema
  IN IF ~Stamped /\ has_tenants THEN Baseline ELSE version

Pending == IF Stamped THEN (version + 1)..Head ELSE Revisions

\* A table or column that is there already makes its migration fail.
Upgradable == Pending \cap schema = {}

-----------------------------------------------------------------------------
\* A new volume, one an early build made with create_all, and one whose version
\* table an operator has emptied.
Init ==
  /\ \/ schema = {} /\ version = Absent
     \/ schema = {Baseline} /\ version \in {Absent, 0}
  /\ phase = "off"
  /\ createAll = FALSE
  /\ pc = [w \in Workers |-> "down"]
  /\ at = [w \in Workers |-> "default"]
  /\ inserted = [w \in Workers |-> {}]
  /\ made = [w \in Workers |-> {}]
  /\ tenants = {}
  /\ accounts = [n \in Tenants |-> 0]
  /\ removals = 0
  /\ stops = 0

StartContainer ==
  /\ phase = "off"
  /\ createAll' \in BOOLEAN
  /\ phase' = IF createAll' THEN "serving" ELSE "reconcile"
  /\ UNCHANGED <<volume, seeding, seeded, stops>>

Reconcile ==
  /\ phase = "reconcile"
  /\ version' = Reconciled
  /\ phase' = "upgrade"
  /\ UNCHANGED <<schema, createAll, seeding, seeded, stops>>

\* alembic upgrade head: the pending migrations and the version are one
\* transaction.  The container serves even if it fails.
Upgrade ==
  /\ phase = "upgrade"
  /\ IF Upgradable
     THEN schema' = schema \cup Pending /\ version' = Head
     ELSE UNCHANGED volume
  /\ phase' = "serving"
  /\ UNCHANGED <<createAll, seeding, seeded, stops>>

\* The reconciliation or the upgrade raises and has changed nothing.
StepFails ==
  /\ phase \in {"reconcile", "upgrade"}
  /\ stops < MaxStops
  /\ stops' = stops + 1
  /\ phase' = IF phase = "reconcile" THEN "upgrade" ELSE "serving"
  /\ UNCHANGED <<volume, createAll, seeding, seeded>>

-----------------------------------------------------------------------------
(* The lifespan of a worker.                                               *)

EndSession(w, state) ==
  /\ pc' = [pc EXCEPT ![w] = state]
  /\ at' = [at EXCEPT ![w] = "default"]
  /\ inserted' = [inserted EXCEPT ![w] = {}]
  /\ made' = [made EXCEPT ![w] = {}]

\* The supervisor starts a worker, again if it has died.
StartWorker(w) ==
  /\ phase = "serving" /\ pc[w] = "down"
  /\ pc' = [pc EXCEPT ![w] = "init"]
  /\ UNCHANGED <<volume, phase, createAll, at, inserted, made, seeded, stops>>

InitDb(w) ==
  /\ pc[w] = "init"
  /\ schema' = IF createAll THEN Completed ELSE schema
  /\ pc' = [pc EXCEPT ![w] = "tenant"]
  /\ UNCHANGED <<version, phase, createAll, at, inserted, made, seeded, stops>>

\* TenantRepository.ensure, its SELECT.  A missing column ends the worker.
FindTenant(w) ==
  /\ pc[w] = "tenant"
  /\ IF SeedNeeds \subseteq schema
     THEN /\ pc' = [pc EXCEPT ![w] = IF at[w] \in tenants THEN "account" ELSE "insert"]
          /\ UNCHANGED <<at, inserted, made>>
     ELSE EndSession(w, "down")
  /\ UNCHANGED <<volume, phase, createAll, seeded, stops>>

\* Mutant: the name of a tenant is not unique.
InsertTenantUnconstrained(w) ==
  /\ pc[w] = "insert"
  /\ inserted' = [inserted EXCEPT ![w] = @ \cup {at[w]}]
  /\ pc' = [pc EXCEPT ![w] = "account"]
  /\ UNCHANGED <<at, made, volume, phase, createAll, seeded, stops>>

\* Its INSERT: the unique name makes it wait for another transaction that has
\* inserted it, and fail, with the worker, if that one has committed.
InsertTenant(w) ==
  /\ pc[w] = "insert"
  /\ \A v \in Workers \ {w} : at[w] \notin inserted[v]
  /\ IF at[w] \in tenants
     THEN EndSession(w, "down")
     ELSE /\ inserted' = [inserted EXCEPT ![w] = @ \cup {at[w]}]
          /\ pc' = [pc EXCEPT ![w] = "account"]
          /\ UNCHANGED <<at, made>>
  /\ UNCHANGED <<volume, phase, createAll, seeded, stops>>

\* The next tenant, or the commit.
NextTenant(w) ==
  /\ at' = [at EXCEPT ![w] = "__platform__"]
  /\ pc' = [pc EXCEPT ![w] = IF at[w] = "default" THEN "tenant" ELSE "commit"]

\* Mutant: an account of the name is not looked for.
MakeAccountAlways(w) ==
  /\ pc[w] = "account"
  /\ made' = [made EXCEPT ![w] = @ \cup {at[w]}]
  /\ NextTenant(w)
  /\ UNCHANGED <<inserted, volume, phase, createAll, seeded, stops>>

\* Mutant: an account that exists is an error.
MakeAccountAnew(w) ==
  /\ pc[w] = "account"
  /\ IF accounts[at[w]] > 0
     THEN EndSession(w, "down")
     ELSE made' = [made EXCEPT ![w] = @ \cup {at[w]}] /\ NextTenant(w) /\ UNCHANGED inserted
  /\ UNCHANGED <<volume, phase, createAll, seeded, stops>>

\* get_by_username and create.  Two rows of the name raise and end the worker;
\* no constraint keeps a second row out.
MakeAccount(w) ==
  /\ pc[w] = "account"
  /\ IF accounts[at[w]] > 1
     THEN EndSession(w, "down")
     ELSE /\ made' = [made EXCEPT ![w] = IF accounts[at[w]] = 0 THEN @ \cup {at[w]} ELSE @]
          /\ NextTenant(w)
          /\ UNCHANGED inserted
  /\ UNCHANGED <<volume, phase, createAll, seeded, stops>>

\* Mutant: the transaction of the first tenant is committed on its own.
CommitEach(w) ==
  /\ \/ pc[w] = "commit" /\ EndSession(w, "up")
     \/ pc[w] = "tenant" /\ inserted[w] # {} /\ EndSession(w, "init")
  /\ tenants' = tenants \cup inserted[w]
  /\ accounts' = [n \in Tenants |-> IF n \in made[w] THEN accounts[n] + 1 ELSE accounts[n]]
  /\ UNCHANGED <<volume, phase, createAll, removals, stops>>

Commit(w) ==
  /\ pc[w] = "commit"
  /\ tenants' = tenants \cup inserted[w]
  /\ accounts' = [n \in Tenants |-> IF n \in made[w] THEN accounts[n] + 1 ELSE accounts[n]]
  /\ EndSession(w, "up")
  /\ UNCHANGED <<volume, phase, createAll, removals, stops>>

\* A worker loses the database or dies.
StopWorker(w) ==
  /\ pc[w] # "down"
  /\ stops < MaxStops
  /\ stops' = stops + 1
  /\ EndSession(w, "down")
  /\ UNCHANGED <<volume, phase, createAll, seeded>>

StopContainer ==
  /\ phase # "off"
  /\ stops < MaxStops
  /\ stops' = stops + 1
  /\ phase' = "off"
  /\ pc' = [w \in Workers |-> "down"]
  /\ at' = [w \in Workers |-> "default"]
  /\ inserted' = [w \in Workers |-> {}]
  /\ made' = [w \in Workers |-> {}]
  /\ UNCHANGED <<volume, createAll, seeded>>

\* DELETE /admin/users/{user_id} by another admin of the tenant.
RemoveAccount ==
  /\ \E w \in Workers : pc[w] = "up"
  /\ removals < MaxRemovals
  /\ accounts["default"] > 0
  /\ accounts' = [accounts EXCEPT !["default"] = @ - 1]
  /\ removals' = removals + 1
  /\ UNCHANGED <<volume, phase, createAll, seeding, tenants, stops>>

AllUp == (\A w \in Workers : pc[w] = "up") /\ UNCHANGED vars

Boot == Reconcile \/ Upgrade

Seed(w) == \/ StartWorker(w) \/ InitDb(w) \/ FindTenant(w) \/ InsertTenant(w)
           \/ MakeAccount(w) \/ Commit(w)

Next ==
  \/ StartContainer \/ Boot \/ StepFails \/ StopContainer \/ RemoveAccount \/ AllUp
  \/ \E w \in Workers : Seed(w) \/ StopWorker(w)

\* The entrypoint goes on, the supervisor restarts dead workers, and a database
\* grants a free name; nobody has to start a container.
Spec == Init /\ [][Next]_vars /\ WF_vars(Boot) /\ \A w \in Workers : WF_vars(Seed(w))

-----------------------------------------------------------------------------
TypeOK ==
  /\ schema \in SUBSET Revisions
  /\ version \in {Absent, 0} \cup Revisions
  /\ phase \in {"off", "reconcile", "upgrade", "serving"}
  /\ createAll \in BOOLEAN
  /\ pc \in [Workers -> {"down", "init", "tenant", "insert", "account", "commit", "up"}]
  /\ at \in [Workers -> Tenants]
  /\ inserted \in [Workers -> SUBSET Tenants]
  /\ made \in [Workers -> SUBSET Tenants]
  /\ tenants \in SUBSET Tenants
  /\ accounts \in [Tenants -> Nat]
  /\ removals \in 0..MaxRemovals
  /\ stops \in 0..MaxStops

\* A recorded version is never ahead of the schema: whatever stops in between,
\* alembic skips no migration the database lacks.
VersionBacked == Stamped => 1..version \subseteq schema

\* Both tenants appear together, each with its account, whichever worker seeds
\* them and wherever the others stop.
SeededWhole ==
  /\ tenants \in {{}, Tenants}
  /\ \A n \in Tenants : n \in tenants /\ accounts[n] = 0 => removals > 0
  /\ \A n \in Tenants : accounts[n] > 0 => n \in tenants

\* The workers make the accounts once.  Only after an account was deleted can
\* workers that start together make one of a name each.
SeededOnce ==
  /\ accounts["__platform__"] <= 1
  /\ removals = 0 => accounts["default"] <= 1

\* The workers never wait for each other in a circle: at most one transaction
\* holds names it has inserted, so whoever is waited for does not wait.
OneSeeder ==
  \A v, w \in Workers : inserted[v] # {} /\ inserted[w] # {} => v = w

Unusable == ~(SeedNeeds \subseteq schema) \/ \E n \in Tenants : accounts[n] > 1

\* Whatever workers lose the race to seed, all come up in the end, unless the
\* schema lacks what they select or an account has two rows.
WorkersComeUp ==
  <>[](phase = "serving" => Unusable \/ \A w \in Workers : pc[w] = "up")

-----------------------------------------------------------------------------
(* A promise of the entrypoint that its probes do not keep.                *)

\* entrypoint.sh: however the volume was first created, a bootstrap in which
\* nothing fails reconciles its version and brings it to the newest revision.
RedeploysHealed ==
  [][phase = "upgrade" /\ phase' = "serving" /\ stops = 0 /\ stops' = 0 =>
       version' = Head /\ schema' = Revisions]_vars
=============================================================================
