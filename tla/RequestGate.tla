---------------------------- MODULE RequestGate -----------------------------
(***************************************************************************)
(* What every API request passes before its handler works and commits: the *)
(* rate limiter of the worker process it reaches, and get_principal, which *)
(* reads the token, whether it was revoked and whether the tenant is       *)
(* suspended.  The limiter keeps one sliding window per process; token,    *)
(* tenant and work are reads and a commit at different moments.            *)
(*                                                                         *)
(* The requests are those of one user from one address; time is counted in *)
(* steps of the clock.  A token is named by the login that obtained it.    *)
(***************************************************************************)
EXTENDS Integers, FiniteSets

CONSTANTS
  Workers,        \* worker processes, each with a limiter of its own
  NoWorker,
  MaxRequests,    \* bound
  MaxTime,        \* bound
  MaxChanges,     \* bound: what administrators do to the tenant and the user
  Limit,          \* rate_limit_per_minute
  Window,         \* its 60 seconds
  Expiry          \* jwt_expire_minutes

ASSUME GateBounds == /\ MaxRequests \in Nat /\ MaxTime \in Nat /\ MaxChanges \in Nat
                     /\ Limit \in Nat \ {0} /\ Window \in Nat /\ Expiry \in Nat
ASSUME NoWorkerIsNone == NoWorker \notin Workers

Requests == 1..MaxRequests
Times == 0..MaxTime
NoToken == 0

VARIABLES
  now,
  window,         \* window[w]: the requests in the deque of process w
  hitAt,          \* when a request was let in, the time in the deque
  worker,         \* where it was let in, NoWorker before
  pc,
  kind,           \* what a request asks for
  token,          \* the token in its header
  answer,         \* "ok", or "refused" by the gate or an error
  claim,          \* the role in the token a login issued
  expires,        \* and its exp
  revoked,        \* committed rows of revoked_tokens
  suspended,      \* committed status of the tenant
  role,           \* committed role of the user, "none" if deleted
  analystTill,    \* history: when the user was last an analyst
  changes,        \* counts to MaxChanges
  shut            \* history: requests and the reason for which the gate has
                  \* been shut all the time since they were let in

gate == <<window, hitAt, worker>>
requests == <<pc, kind, token, answer>>
tokens == <<claim, expires, revoked>>
tenancy == <<suspended, role, analystTill, changes>>
gateVars == <<now, gate, requests, tokens, tenancy, shut>>

-----------------------------------------------------------------------------
Kinds == {"login", "logout", "list", "run"}
Roles == {"none", "viewer", "analyst"}
InServer == {"tenant_of_login", "credentials", "token", "tenant", "handler"}

\* rbac.py: a viewer reads investigations, an analyst also runs them; logout
\* needs a token only.
Permits(r, k) == k = "run" => r = "analyst"

\* Mutant: a hit at the far end of the window is dropped.
KeptTooFew(w) == {q \in window[w] : now - hitAt[q] < Window}

\* The deque without the hits that are more than a window old.
Kept(w) == {q \in window[w] : now - hitAt[q] <= Window}

GateInit ==
  /\ now = 0
  /\ window = [w \in Workers |-> {}]
  /\ hitAt = [r \in Requests |-> 0]
  /\ worker = [r \in Requests |-> NoWorker]
  /\ pc = [r \in Requests |-> "new"]
  /\ kind = [r \in Requests |-> "list"]
  /\ token = [r \in Requests |-> NoToken]
  /\ answer = [r \in Requests |-> "none"]
  /\ claim = [r \in Requests |-> "none"]
  /\ expires = [r \in Requests |-> 0]
  /\ revoked = {}
  /\ suspended = FALSE
  /\ role = "analyst"
  /\ analystTill = 0
  /\ changes = 0
  /\ shut = {}

Tick ==
  /\ now < MaxTime
  /\ now' = now + 1
  /\ UNCHANGED <<gate, requests, tokens, tenancy, shut>>

Send(r, k, t) ==
  /\ pc[r] = "new"
  /\ \A q \in Requests : q < r => pc[q] # "new"
  /\ pc' = [pc EXCEPT ![r] = "sent"]
  /\ kind' = [kind EXCEPT ![r] = k]
  /\ token' = [token EXCEPT ![r] = t]
  /\ UNCHANGED <<now, gate, answer, tokens, tenancy, shut>>

Answer(r, how) ==
  /\ pc' = [pc EXCEPT ![r] = "answered"]
  /\ answer' = [answer EXCEPT ![r] = how]
  /\ UNCHANGED <<kind, token>>

GoOn(r, step) ==
  /\ pc' = [pc EXCEPT ![r] = step]
  /\ UNCHANGED <<kind, token, answer>>

ReasonsAgainst(r) == (IF suspended THEN {"suspended"} ELSE {}) \cup
                     (IF token[r] \in revoked THEN {"revoked"} ELSE {})

\* RateLimitMiddleware.dispatch, without an await up to call_next.
LetIn(r, w) ==
  /\ pc[r] = "sent"
  /\ IF Cardinality(Kept(w)) >= Limit
     THEN /\ window' = [window EXCEPT ![w] = Kept(w)]
          /\ Answer(r, "refused")
          /\ UNCHANGED <<hitAt, worker, shut>>
     ELSE /\ window' = [window EXCEPT ![w] = Kept(w) \cup {r}]
          /\ hitAt' = [hitAt EXCEPT ![r] = now]
          /\ worker' = [worker EXCEPT ![r] = w]
          /\ shut' = shut \cup {<<r, x>> : x \in ReasonsAgainst(r)}
          /\ GoOn(r, IF kind[r] = "login" THEN "tenant_of_login" ELSE "token")
  /\ UNCHANGED <<now, tokens, tenancy>>

\* login: the tenant is read, then the user.
LoginTenant(r) ==
  /\ pc[r] = "tenant_of_login"
  /\ IF suspended THEN Answer(r, "refused") ELSE GoOn(r, "credentials")
  /\ UNCHANGED <<now, gate, tokens, tenancy, shut>>

\* Mutant: the token does not carry the user's role.
LoginUserAsAnalyst(r) ==
  /\ pc[r] = "credentials"
  /\ IF role = "none"
     THEN Answer(r, "refused") /\ UNCHANGED <<claim, expires>>
     ELSE /\ claim' = [claim EXCEPT ![r] = "analyst"]
          /\ expires' = [expires EXCEPT ![r] = now + Expiry]
          /\ GoOn(r, "handler")
  /\ UNCHANGED <<now, gate, revoked, tenancy, shut>>

\* login: the password is verified, a token with the role is issued.
LoginUser(r) ==
  /\ pc[r] = "credentials"
  /\ IF role = "none"
     THEN Answer(r, "refused") /\ UNCHANGED <<claim, expires>>
     ELSE /\ claim' = [claim EXCEPT ![r] = role]
          /\ expires' = [expires EXCEPT ![r] = now + Expiry]
          /\ GoOn(r, "handler")
  /\ UNCHANGED <<now, gate, revoked, tenancy, shut>>

\* get_principal: decode_access_token and is_revoked.
CheckToken(r) ==
  /\ pc[r] = "token"
  /\ IF now > expires[token[r]] \/ token[r] \in revoked
     THEN Answer(r, "refused")
     ELSE GoOn(r, "tenant")
  /\ UNCHANGED <<now, gate, tokens, tenancy, shut>>

\* Mutant: only requests that change something are refused.
CheckTenantOfWrites(r) ==
  /\ pc[r] = "tenant"
  /\ IF (suspended /\ kind[r] # "list") \/ ~Permits(claim[token[r]], kind[r])
     THEN Answer(r, "refused")
     ELSE GoOn(r, "handler")
  /\ UNCHANGED <<now, gate, tokens, tenancy, shut>>

\* get_principal and require: the tenant's status, the role of the token.
CheckTenant(r) ==
  /\ pc[r] = "tenant"
  /\ IF suspended \/ ~Permits(claim[token[r]], kind[r])
     THEN Answer(r, "refused")
     ELSE GoOn(r, "handler")
  /\ UNCHANGED <<now, gate, tokens, tenancy, shut>>

\* The end of the handler and its commit; other requests go on meanwhile.
Commit(r) ==
  /\ pc[r] = "handler"
  /\ revoked' = IF kind[r] = "logout" THEN revoked \cup {token[r]} ELSE revoked
  /\ Answer(r, "ok")
  /\ UNCHANGED <<now, gate, claim, expires, tenancy, shut>>

\* The handler or the database raises, or the worker dies; all is rolled back.
Fail(r) ==
  /\ pc[r] \in InServer
  /\ Answer(r, "refused")
  /\ UNCHANGED <<now, gate, tokens, tenancy, shut>>

Serve(r) ==
  \/ \E w \in Workers : LetIn(r, w)
  \/ LoginTenant(r) \/ LoginUser(r) \/ CheckToken(r) \/ CheckTenant(r)
  \/ Commit(r)

Change == changes < MaxChanges /\ changes' = changes + 1

\* PUT /provider/tenants/{tenant_id}/status
SetStatus ==
  /\ Change
  /\ suspended' = ~suspended
  /\ shut' = {s \in shut : s[2] = "revoked"}
  /\ UNCHANGED <<now, gate, requests, tokens, role, analystTill>>

\* update_role and delete_user by an admin, once.
Demote ==
  /\ Change
  /\ role = "analyst"
  /\ role' \in {"viewer", "none"}
  /\ analystTill' = now
  /\ UNCHANGED <<now, gate, requests, tokens, suspended, shut>>

Elsewhere == Tick \/ SetStatus \/ Demote

\* The client has the answer.
Arrives(r) ==
  /\ pc[r] = "answered"
  /\ pc' = [pc EXCEPT ![r] = "received"]
  /\ UNCHANGED <<now, gate, kind, token, answer, tokens, tenancy, shut>>

\* A client may keep the token of a login that was answered.
Issued(t) == t \in Requests /\ kind[t] = "login" /\ answer[t] = "ok"

GateNext ==
  \/ Elsewhere
  \/ \E r \in Requests :
       \/ Serve(r) \/ Fail(r) \/ Arrives(r)
       \/ \E k \in Kinds, t \in Requests \cup {NoToken} :
            /\ IF k = "login" THEN t = NoToken ELSE Issued(t)
            /\ Send(r, k, t)

GateSpec == GateInit /\ [][GateNext]_gateVars

-----------------------------------------------------------------------------
GateTypeOK ==
  /\ now \in Times
  /\ window \in [Workers -> SUBSET Requests]
  /\ hitAt \in [Requests -> Times]
  /\ worker \in [Requests -> Workers \cup {NoWorker}]
  /\ pc \in [Requests -> {"new", "sent", "answered", "received"} \cup InServer]
  /\ kind \in [Requests -> Kinds]
  /\ token \in [Requests -> Requests \cup {NoToken}]
  /\ answer \in [Requests -> {"none", "ok", "refused"}]
  /\ claim \in [Requests -> Roles]
  /\ expires \in [Requests -> Nat]
  /\ revoked \in SUBSET Requests
  /\ suspended \in BOOLEAN
  /\ role \in Roles
  /\ analystTill \in Times
  /\ changes \in 0..MaxChanges
  /\ shut \in SUBSET (Requests \X {"suspended", "revoked"})

\* However requests spread over time, a process lets in at most Limit of one
\* address in any window, the moments at both of its ends included.
WindowKept ==
  \A w \in Workers, s \in Times :
    Cardinality({r \in Requests : worker[r] = w /\ hitAt[r] \in s..(s + Window)}) <= Limit

\* No handler works for a request if its tenant has been suspended, or its
\* token revoked, all the time since it was let in, whatever reads and commits
\* of other requests fall between its own.
ShutOut == \A s \in shut : pc[s[1]] # "handler"

LastHeld(x) == IF x = role THEN now ELSE analystTill

\* A role a user has lost is good for the lifetime of a token and no longer:
\* the gate lets nobody act in a role they did not have an Expiry ago or later.
RoleLost ==
  [][\A r \in Requests : pc[r] = "tenant" /\ pc'[r] = "handler" =>
       LastHeld(claim[token[r]]) + Expiry >= hitAt[r]]_gateVars
=============================================================================
