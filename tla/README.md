# SentinelAI: models and proofs

SentinelAI is a multi-tenant security console in front of Splunk. A FastAPI
backend (`src/backend/app`) runs detection rules as Splunk searches, triages the
hits with a model, stores investigations, correlates them into incidents, plans
response actions that an analyst approves and executes, and keeps a hash-chained
audit log. A React console (`src/frontend/src`) drives it. Several worker
processes serve requests; each request owns one database session that commits
when the handler returns and rolls back when it raises (`db/session.py`). There
are no locks in the code: what concurrent requests may do to each other is
decided by the database (READ COMMITTED, row locks on UPDATE and DELETE).

This directory holds TLA+ models of the parts where that matters, TLC runs that
check them on small instances, and TLAPS proofs for every instance.

## 1. Inventory

Paths are below `src/backend/app` unless they start with `src/`.

| Component | State | Operations | Talks to | What is hard | What makes it correct |
|---|---|---|---|---|---|
| Audit trail (`services/audit.py`) | `audit_log` rows: id, tenant, content, prev_hash, entry_hash | `record` (read last hash, insert), `verify_chain`, list | called by every handler that changes something, in that handler's transaction | two recorders of one tenant read the same last hash; a recorder rolls back after others read | links resolve; the chain verifies unless recorders overlapped; edits are noticed |
| Investigation cases (`db/repositories.py`, `services/workflow.py`, `services/executor.py`) | one row per case: status, assignee, two SLA stamps, JSON payload | approve, execute, transition, assign, note, SLA report | connector, notifier, audit, metering | load-modify-write without lock or version; a real-world effect inside a transaction that may roll back | only approved gated actions run; what is shown ran; the status follows the workflow |
| Quotas and metering (`services/quotas.py`, `services/metering.py`) | usage events, the tenant's plan | `check_or_raise`, `record`, cost rollup | the run route; plan changes by the provider | check at the start, usage counted at the commit, plan and month change in between | overage is bounded; model calls follow the searches they triage, but for what is metered across the turn of a month |
| Incident correlation (`services/correlation.py`) | none | `correlate` | the run route | first match wins: order matters | incidents hang together; founders are new |
| Incident refresh (`db/repositories.py` `IncidentRepository`, `api/routes.py`) | `incidents` rows | save cases, list, correlate, `replace_all`, alert | correlation, notifier | two runs replace the same rows, one DELETE after the other; lists older than the rows they replace; a page of 50 | shown members are committed and connected; a lone run repairs; an alert of what is shown was sent; deletions never wait in a circle |
| Splunk clients, retry, breaker (`core/resilience.py`, `splunk/`, `agents/detection_agent.py`) | breaker counter and opening time, per orchestrator | `with_retry`, `search`, `health` | HTTP to Splunk | what is retried, when the breaker opens, lifetime of the breaker | a run ends however often searches fail; the breaker of a run never opens |
| Sessions, roles, tokens (`core/security.py`, `core/principal.py`, `core/rbac.py`, `api/deps.py`) | users, tenants, revoked token ids; tokens live with clients | login, logout, `get_principal`, impersonate | every route | a token outlives the role, the user and the session that issued it; checks precede the handler's work | no handler works for a request that was let in with a revoked token or for a suspended tenant; a lost role is good for a token's lifetime at most |
| Administration (`api/admin_routes.py`, `api/tenant_routes.py`, `api/provider_routes.py`) | users, tenants, rule states, settings | create, change role, delete, link, toggle, suspend, set plan | audit | check-then-insert without a unique constraint; merge of settings | at most one row per key |
| Bootstrap and migrations (`db/bootstrap.py`, `src/backend/entrypoint.sh`, `src/backend/alembic`) | schema version, first tenant and admin | reconcile, upgrade, create_all, seed | the database | several workers seed at once; a probe that fails inside a transaction; stops between the steps | no migration is skipped; the first tenants and accounts appear together and once; all workers come up |
| Rate limiter and middleware (`core/middleware.py`, `core/metrics.py`) | one window of hit times per client and process | dispatch | every request | the boundary of the window; one window per process | at most `limit` admissions per window and process |
| Notifications (`services/notifications.py`) | captured messages of one process | `maybe_alert_high_risk`, `notify` | webhook | sent before the commit they report; a failed delivery is not noticed | alerts precede what is shown |
| Credentials and encryption (`services/credentials.py`, `core/crypto.py`) | one row per tenant | upsert, resolve clients | agents | – | – |
| AI models (`services/ai_model.py`, `services/hosted_models.py`) | none | complete, catalogue | hosted model | – | – |
| Detection pipeline (`agents/`) | none | detect, enrich, triage, plan, summarise | Splunk, model | – | data; its outcomes are choices of the models above |
| Web console (`src/frontend/src`) | page state, stored token | fetch, filter, run, approve, execute | the API | answers out of order, after a change of filter, after leaving the page, after another login | a settled page shows what was asked for, with a token held since it was opened; its spinner ends |

The hazards, with the line where each bites and the property that would notice
it, are listed in `PROJECT.json`.

## 2. Modules

Each component's module holds its state, one action per step between two awaits
that other requests can see, and its properties. `MC*` modules only give values
to constants. `*Proofs` modules extend the component's module. A definition whose
comment starts with "Mutant" is a plausible wrong version of the definition that
follows it; it is used by no specification and exists so that each property can
be shown to fail when the code is wrong.

### AuditTrail, AuditChain
`AuditTrail` is the promise: per tenant a history that only grows at its end,
unless recorders of that tenant contended. `AuditChain` is the table.
`ReadLastHash` and `InsertEntry` are the two halves of `AuditService.record`: one
SELECT, one INSERT, no lock. `Commit` and `Rollback` are the session dependency.
`Visible(r)` is what READ COMMITTED shows to request `r`: committed rows and its
own. A hash is the sequence of what was hashed into it, so SHA-256 is taken as
free of collisions; prev_hash `""` is the empty sequence. The refinement maps the
history of a tenant to its last committed hash.

### CaseLifecycle, CaseStore
`CaseLifecycle` is the promise about one case: the status follows the workflow,
an approval, a recorded execution or a stamped clock is never undone. `CaseStore` has the row, the row
lock and, per request, the loaded row (`view`), the changed object (`new`) and a
program counter: `Load` (SELECT, checks, change of the object), `RunConnector`
(execute only), `Flush` (UPDATE of the changed columns; waits for the row lock),
`Notify` (execute only), `Commit`, `Abort`. Only changed columns are written, as
SQLAlchemy does: this is where stale payloads come from. Timestamps are
abstracted to the request that stamped them, a payload to status, assignee and
the planned actions' two flags. The history variable `stale` holds the requests
that wrote over a newer row than they had loaded: the lifecycle lets exactly these
steps do anything, and `ColumnsMatchPayload` and `AuditMatchesCase` hold until the
first of them.

### RunQuota
One tenant's plan, disabled rules and committed usage of the month, and the runs
under way: `Begin` (rule states and plan are read), `Check` (`check_or_raise`),
`SearchAnswered` and `SearchFailed` for one attempt of one rule in `with_retry`,
`GiveUp` when its last attempt has failed, `MeterSearches` and `MeterCalls` for the
two awaited records, each with a creation time of its own, `Commit`, `Abort`;
`Toggle`, `ChangePlan` and `NewMonth` happen at any time, between the two records
too. The breaker belongs to the detection agent of the request (`api/deps.py` builds
one per request), so its count of failures is a variable of the run; it counts
every failed attempt, the last one of a rule included. A `SplunkQueryError` is not
retried: it is `Abort`.

### Correlation
`correlate` as operators without state: `Place` is one turn of its loop, `Grouped` the
groups after each turn, as a recursive function of the number of turns, and
`Correlate` those after the last. `Linked` (two cases share a key) is what the
properties are about.

### IncidentRefresh
Runs that `Save`, `List`, `ReadIncidents`, `Delete` row by row, `Replace`, `Alert` and
`Commit`. It uses `Correlate` of `Correlation` on the page it listed. `Delete` is one
DELETE statement: it waits for a transaction that has deleted the same row, and its
run keeps the locks of the rows before. The statements of one flush follow the
primary keys (the unit of work sorts them), which are random and stand in
`RowId`. `Alert` delivers some of the alerts and loses the others; nobody looks at the
result. The order of the list (risk, then creation time) is the order of the cases'
ids. `crowded` remembers the runs that were under way together with another.

### UniqueRows
The tables whose rows have a natural key. `Select` is the lookup every call
starts with (`get_by_username`, `set_enabled`, `revoke`, `upsert`, `get`) with the
409, 404 and 401 that follow from it; `Flush` is the INSERT, UPDATE or DELETE,
which waits for row locks and, in `Constrained` tables, for an uncommitted insert
of the same key; `Commit` and `Abort` end the session. Users and rule states have
no unique constraint: two racing calls leave two rows, and every later call that
looks that key up raises (`scalar_one_or_none`). `raced` is a history variable
that remembers the keys of such races. What a row says (role, status, secret) is
abstracted to whether an UPDATE changes it.

### Bootstrap
One database volume, the container's `phase` and its workers. `Reconcile` is the
Python block of `entrypoint.sh`: its two probes share a transaction, so after the
first has failed the second answers nothing. `Upgrade` applies the pending
migrations (a revision stands for what it creates) or fails as a whole, and the
entrypoint serves all the same. `InitDb`, `FindTenant`, `InsertTenant`,
`MakeAccount` and `Commit` are the lifespan of a worker: the unique tenant name
makes an insert wait for, and fail after, another one. `StepFails`, `StopWorker`
and `StopContainer` stop anything anywhere.

### RequestGate
The way of a request to its handler: `LetIn` (the limiter of the process it
reaches, one uninterrupted step as the code has no await there), `CheckToken` and
`CheckTenant` (the two halves of `get_principal`, and `require`), `LoginTenant` and
`LoginUser`, `Commit`. A token is named by the login that obtained it and carries
the role of that moment. `SetStatus` and `Demote` are the administrators, `Tick` is
time. The history `shut` pairs a request with each reason that has held since it
was let in.

### ConsolePage
`useAuth.tsx`, `LoginPage.tsx` and `DashboardPage.tsx` in front of `RequestGate`, which it
extends: `Login`, `Logout`, `Load` (the effect of `load`), `Refresh` (its button),
`ChangeFilter`, `RunPipeline`, `Reopen`, and `Receive` for an answer. The Enter key
submits a login while another is outstanding, so `Login` has no guard, and the
browser's Back leads from the console to it. A login answered while a dashboard is
open replaces the token and leaves the dashboard as it is (`ReceiveLogin`): nothing
is loaded again. Every request goes through the gate, where another worker, a
suspension, a demotion or the clock may refuse it. `waits` names the requests whose
promises the mounted component still holds; nothing cancels one, so answers come
in any order and an answer for an unmounted dashboard is dropped. `held` remembers
the logins whose tokens the client has held while the dashboard was open.
`ok = FALSE` for an answered request is an answer lost on its way.

## 3. Runs

| Run | Question | Bounds and why they are enough |
|---|---|---|
| audit_concurrent | how can a chain break, what does it promise otherwise | 2 tenants, 3 requests, 2 contents, 4 row ids: a fork needs two recorders, a stale read after a rollback a third entry, independence of tenants a second tenant |
| audit_forks (violated) | does the chain only break by tampering | 2 requests are enough |
| case_concurrent | what holds for any three concurrent calls, failures included; what does a write over a newer row break; is every call answered; does the store implement the lifecycle | 3 calls of any kind on a gated supported and an ungated unsupported action: approve, execute and a stale third writer fit, and so do three calls in a row |
| case_execution_unrecorded (violated) | is every execution recorded | approve, execute, abort |
| quota_concurrent | how far can usage exceed the limit; what do the two records of a run charge when the month turns between them; do failing searches open the breaker or hold a run | 2 runs, 2 rules, limits 2 and 3, so that one run or two fill a plan; usage of the unlimited plan is capped by MaxUsed = 4; 2 attempts and a threshold of 3 |
| incidents_concurrent | what do overlapping runs leave, do the members of what is shown belong together, what is an incident opened for, does a lone run repair it, is every run answered although it takes one row lock after another | 3 runs, 3 cases of which one bridges the others, pages of 2 so that a case falls off; keys that follow neither runs nor members |
| incidents_duplicated (violated) | does replace_all replace all | 2 runs |
| incidents_uncorrelated (violated) | are all investigations correlated | 1 run at a time, pages of 2, 3 cases |
| unique_rows | when does a key get two rows, what fails then, is every call answered | 3 calls (two that race and a third that meets the result), one key in each of the five tables, so that each kind of call runs, the upsert of credentials included; at the start every key has a row or none has (`Seeds`): keys do not affect each other |
| bootstrap_restarts | is a migration skipped, a tenant seeded by halves or twice, can workers wait in a circle, does every worker come up | 3 workers (a winner, a loser, one that stops), 3 stops, 1 deleted account, new volumes and both kinds of legacy ones |
| bootstrap_legacy (violated) | is a legacy volume stamped and upgraded | as bootstrap_restarts |
| console_page | who passes the gate, what does a settled page show, does its spinner end | 3 requests (two logins and a list, a login and two that overtake each other, a logout and a second login), 1 worker with a limit of 2, 2 filters, clock 0..2 with window and expiry of 1, so that each is met and exceeded, one suspension or demotion (`MaxChanges`) |

Two bounds differ from the program's values on purpose. The code's three attempts
and threshold of five become two and three, the tightest choice the assumption
`RetriesBelowThreshold` admits; the proof covers all of them. The limiter's 120 hits
in 60 seconds become 2 in 1, in one worker process, whose window no other process
reads; the proof covers every limit, every window and any number of processes.
`console_page` sets `CHECK_DEADLOCK FALSE` because a client that has used up its
requests stops. A user's rights are taken away once: `Demote` has no way back, which
only lengthens the time since they were held. `MaxChanges` bounds suspensions and
demotions together; that a suspension is lifted again is in the proofs only.

The violated runs document where the code and its documentation disagree; each
is a finding in `PROJECT.json` with the quoted line. One finding is attached to a run
that passes: `BreakerNeverOpens` holds of the code, and `docs/OPERATIONS.md:25` tells
operators the opposite.

The type invariants of `RunQuota`, `Bootstrap`, `UniqueRows`, `IncidentRefresh` and
`ConsolePage` are in no run: each is a theorem.

Symmetry is used for requests, contents and tenants where no liveness is checked.

### Fairness
Weak fairness of each request's `Proceed` (of `Serve` and `Receive` in
`ConsolePage`): the event loop resumes a handler whose await has completed, every
outgoing HTTP call has a timeout, and the database grants a free row lock to a
waiting UPDATE, DELETE or INSERT. `Bootstrap` asks it of the entrypoint's steps and
of each worker, which its supervisor restarts. Nothing forces a client to send a
request, a container to start, a failure to happen or not to happen, a month to
end or a plan to change.

## 4. Proofs

Checked by TLAPS without further assumptions than the named ones on constants,
which TLC evaluates in the runs as well:

* finite inputs and natural limits: `FiniteInputs`, `LimitTypes`, `Bounds`,
  `GateBounds`, and the bounds on row ids and list lengths (`MaxEntriesIsNat`);
* values that stand for NULL, for "nobody" or for "no version" are none of the
  real ones: `NoneIsNew`, `NoneIsNoName`, `NoWorkerIsNone`, `AbsentIsNoVersion`;
* `FiniteCases`, `CaseIds`, `ListLimitIsNat` and `RowIds`: detections can become finitely
  many cases, a case is known by its id, a number, the page size is a number, and
  rows have distinct numbers as keys;
* `ActionSets` (gated and supported actions are actions), `TablesDisjoint` (tables
  have keys of their own), `SeedsAreKeys` (rows that are there at the start have keys
  of the tables), `InitialFilter` (the dashboard's first filter is one);
* `RetriesBelowThreshold`: the attempts of `with_retry` stay below the breaker's
  threshold, as 3 and 5 in the code do.

Few properties here are inductive as they stand (`VersionBacked` needs only type
correctness). What each invariant adds, and why:

* **AuditChainProofs** – `TypeCorrect`, `LinksAlwaysResolve`,
  `SerialChainAlwaysValid`, `TableImplementsTrail`, `ChainsBreakByForksOnly`,
  `EditsAreDetected`. For links and serial chains: a transaction holds only rows of
  tenants it has touched (`OwnRows`); ids grow (`IdsBelow`) and every table a
  request can see has a newest row (`LastExists`); a pending entry links into
  what its request sees (`PendingLinks`); and for a tenant without overlap the
  rows its one recorder sees form an intact chain whose last hash is the one the
  recorder has read (`Alone`). For the refinement: what a request sees of such a
  tenant extends what is committed (`GrowInv`), so that a commit extends the
  history and a rollback leaves it. For forks and edits: ids are unique among
  all rows, pending ones included, and each row is hashed as `record` computes it
  (`RowInv`). With resolved links this makes a recorded table (`Recorded`), and the
  rest is about tables alone: the bad row with the least id shares its
  predecessor with an older row, hence the fork. That least row exists because
  inclusion is well-founded on initial segments of the numbers, which the library
  states without an operator parameter.
* **CaseStoreProofs** – `TypeCorrect`, `OnlyApprovedActionsRun`, `ColumnsAgree`,
  `AuditsShow`, `ShownWorkRan`, `StoreImplementsLifecycle`, `LockIsNeverLost`. `ApprovalInv` says that a
  gated action that is cleared, in the row or in any loaded or changed object, has
  an audited approval, except the one an approval under way clears in its own
  object; it survives stale overwrites because a stale payload can only withdraw
  an approval or restore one that was committed. `Carried` says that a request
  under way carries what its handler made of the row it loaded, so a commit of a
  request that is not stale is one step of the lifecycle (`Follows`), and a stale
  one is allowed anything. `AuditInv` adds, until the first stale write, that the
  row is later than everything loaded from it. `RanInv` traces each success in
  the row or in a loaded object to an audited request whose connector ran.
  `LockInv`: the row lock is free or with a call that has written and goes on.
* **RunQuotaProofs** – `TypeCorrect`, `OverageAlwaysBounded`,
  `CallsAlwaysFollowSearches`, `BreakerStaysClosed`. `Reserved` counts searches that
  are admitted and not yet charged: what is used plus the searches of the runs
  under way is at most the largest limit plus one run for each other request.
  For the calls: a run is `Late` when the turn of the month fell between its two
  records, so that its calls count and its searches do not. Each request is late
  at most once a month, and the calls exceed the searches by at most the rules
  of the requests that have used up that share (`SharesLeft`). `CountsOneRule`: the breaker's count is
  that of the rule being searched, at most its attempts, because a success resets
  it and a last failure ends the run.
* **UniqueRowsProofs** – `TypeCorrect`, `OneRowPerKey`, `ErrorsAlwaysHaveCause`,
  `CreatedAlwaysStays`. The invariant says of every insert under way that its key
  is free or raced (`InsertsFree`), that a constrained key which was sent is free
  and has one sender, that a row bears the name of the call that is done with it
  (`RowsNamed`), and that a row somebody still updates or deletes is there or was
  removed by an answered call (`HeldTraced`).
* **BootstrapProofs** – `TypeCorrect`, `VersionsAreBacked`, `SeedIsWhole`,
  `SeedIsOnce`, `OneSeedsAtATime`, `NoSeederWaitsForAWaiter`. An open transaction holds names nobody else holds or
  has committed (`OwnNames`), knows the tenants before the one it works on
  (`TenantsSoFar`) and has made the accounts of what it inserted
  (`AccountsSoFar`); it makes an account for an older tenant only where one was
  deleted (`MadeOnce`, `AccountsKept`). So a commit publishes tenants with their
  accounts, and no second account unless one was removed. Whoever has inserted a
  tenant has inserted the first one or found it (`FirstNameFirst`); tenants are
  committed together, so two workers with uncommitted tenants would both have
  inserted the first, which the unique name forbids. Hence the worker that
  another one waits for waits for nobody.
* **ConsolePageProofs** – first the gate: `GateTypeCorrect`, `GateStaysShut`,
  `WindowsAreKept`, `LostRolesExpire`, all theorems of `GateSpec`. `ShutInv`: a request
  with a reason to be refused since it was let in still has the check of that
  reason before it. `WindowInv`: a worker's deque holds all its hits of the last
  window, at most `Limit`, and the interval that starts at any time saw at most
  `Limit`; only intervals that contain the present can grow, and these are inside
  the deque. `RoleInv`: a token expires at most `Expiry` after its user last held the
  role it claims. Then the console: `ConsoleKeepsToGate`, `ConsoleTypeCorrect`,
  `ScreensAreOwn`, `ScreensMatchFilter`. It only takes steps the gate allows, so
  `ConsoleSpec => GateSpec` carries the gate's theorems over. `Held`: every promise
  the dashboard waits for, and what it shows, was sent with a token the client has
  held since the dashboard was opened, and the session's is one of these.
  `Screen`: until two answers are outstanding, a spinner turns for the one that is.
* **IncidentRefreshProofs** – `TypeCorrect`, `MembersAreCommitted`, `UnalertedAreLost`,
  `ShownAreConnected`, `FoundersStayNew`, `LoneRunsRepair`, `WaitsNeverCircle`, for any
  number of runs and cases, any page size and any order of the keys. One step of
  `Replace` runs the whole loop of `correlate`, so what `Correlate` computes has to be
  known for lists of any length:
  - `AllTurns` is the induction over the turns of a loop, without an operator
    parameter: a *set* of numbers that holds 0 and, with a turn, the next one holds
    all of them, because a nonempty set of numbers has a least one (`LeastNumber`).
    With it `GroupedUnfolds` shows that the recursive function exists and can be
    followed turn by turn, `CorrelateDivides` that a list of distinct cases is
    divided among the groups, each case in exactly one, `CorrelateHangs` that
    every group is connected, and `CorrelateFounds` that it has a founder.
  - `PageHolds`: the page holds, each once, the cases of rank at most `ListLimit`. The
    rank of a case counts the cases up to it; ranks differ (`RanksDiffer`) and leave
    no gap (`RanksFill`), which is what makes the page's `CHOOSE` defined.
  - `CoverInv`: what a run lists consists of committed cases and its own, so its
    fresh incidents do, and its commit publishes them together with those cases.
    `AlertInv`: a run past its alerts has delivered or lost that of each of its fresh
    incidents. `ConnectedInv`: the incidents that are shown or about to be inserted
    are connected; their cases are committed by the time they are shown.
  - `AloneOnTable`: of a run that was never under way with another, the rows it read
    are all there are and the page it listed is that of the committed cases and
    its own. Its commit then deletes every old row and inserts a division of the
    page, which is `LoneRunRepairs`.
  - `KeysGoUp`: the rows a run has deleted have smaller keys than those it has still to
    delete. A run that waits does so for a deleted row, whose deleter can only wait
    for a row with a greater key: hence no circle.

Model-checked only: liveness, which is out of the prover's reach
(`EveryRequestAnswered`, `AdmittedRunsEnd`, `EveryRunAnswered`, `EveryCallAnswered`,
`WorkersComeUp`, `SpinnerEnds`). Of their safety half, that whoever is waited for
can go on, `LockIsNeverLost`, `NoSeederWaitsForAWaiter` and `WaitsNeverCircle` are proved; in
`UniqueRows` the guard itself only waits for calls that have written and wait for
nothing.

## 5. What is left out

* Data that no property tells apart: SHA-256 and JWT signatures (no forgery),
  bcrypt, ciphers, the text of titles, prompts, summaries and timelines, SLA
  arithmetic, prices and the cost rollup, Prometheus counters, request logs, the
  HTTP of clients and webhooks. A search is an answer or an error; a
  `SplunkQueryError`, which is not retried, is an `Abort`.
* AI models: they keep no state, and their answers are choices of `RunQuota` and
  `CaseStore`.
* Impersonation, which issues one more token; the merge of tenant settings;
  `POST /detections/run`, which searches outside the metered run (section 6); the captured
  notifications, which live in one process for development. The console's other
  pages disable their buttons while a call is outstanding, so answers do not overtake
  one another there; they share the session modelled here.
* Downgrades of the schema, which nothing calls. Two workers that race in
  `create_all` are covered by `StopWorker`: the one that fails stops and is started
  again.

What the code does not promise is not claimed. Neither code nor documentation
promises that an action runs at most once. The usage of an unlimited plan is
bounded by `MaxUsed` in the model only.

## 6. Disagreements no run shows

The runs that are violated, and `BreakerNeverOpens`, document where code and
documentation disagree about behaviour over several steps. These disagreements
were met as well; each can be read off one place of the code:

* `docs/SECURITY.md:27` ("Editing or deleting any historical row breaks the chain") and
  `services/audit.py:4` promise more than `verify_chain` gives: the removal of a
  tenant's last entries leaves a chain that verifies. `EditsDetected` claims removal
  only for entries with a successor.
* `services/quotas.py:3` says that every metered operation is checked before it runs.
  `run_investigations` checks the searches and not the model calls, which
  `api/routes.py:209` records whatever `model_calls_per_month` is.
  `CallsFollowSearches` is the only bound there is on them.
* `api/routes.py:204` and `services/metering.py:12` call metering best-effort, never
  failing the run. `record` flushes in the session of the run and catches nothing,
  so its error ends the run: `Abort` of `RunQuota`.
* `services/correlation.py:30` calls the grouping "Union-find style". A case that links
  two groups joins the first, and the two are not merged. The incidents are
  connected (`ShownIncidentsConnected`), but two of them may share a key.
* `docs/API.md:23` says that `POST /detections/run` "respects disabled rules".
  `api/routes.py:165` passes none, so every rule is searched, and unmetered.
* `docs/API.md:24` says that a run "fires high-risk alerts". `WebhookChannel.send` answers
  a failure with `False` (`services/notifications.py:56-61`), which nobody reads: the
  run commits, and the incident is shown unalerted. `UnalertedWereLost` says that
  this is the only way it happens.

And one observation about the console that no text contradicts: a login that is
answered while a dashboard is open replaces the token and loads nothing, so the
dashboard goes on showing what the earlier token fetched, and `PageMatchesFilter`
does not speak of it. `OwnSession` bounds it to tokens held since it was opened.

## 7. Plan

The modules planned at the start exist: audit chain, case store, quota with the
retry loop, incident refresh with its correlation, keyed rows, bootstrap, the request gate
with sessions and limiter, and the dashboard. Each component that keeps state is
modelled, with the operations listed in section 5 left out. What could follow, in
this order:

1. The merge of tenant settings: two updates that read the same old settings.
2. Impersonation in `RequestGate`: a second token with its own identifier and the
   tenant it acts for.
3. The case page of the console, whose approve and execute calls drive `CaseStore`.
