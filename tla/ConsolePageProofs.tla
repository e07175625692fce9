-------------------------- MODULE ConsolePageProofs --------------------------
(***************************************************************************)
(* Machine-checked facts about RequestGate and ConsolePage.  First the     *)
(* gate: for any number of requests and workers, any limit, window and     *)
(* token lifetime, whatever order the steps of the requests, of            *)
(* administrators and of the clock fall in.  Then the console in front of  *)
(* it, for any filters and any order of answers: it uses the gate as the   *)
(* gate's specification allows, so what holds of every client holds of it. *)
(***************************************************************************)
EXTENDS ConsolePage, FiniteSetTheorems, TLAPS

\* What a request carries: a login no token, any other the token of a login.
TokensCarried ==
  \A r \in Requests : pc[r] # "new" =>
    IF kind[r] = "login" THEN token[r] = NoToken ELSE token[r] \in Requests

TypeInv == GateTypeOK /\ TokensCarried

(* Every initial state is well typed.                                      *)
LEMMA GateTypeInit == GateInit => TypeInv
<1>. SUFFICES ASSUME GateInit PROVE TypeInv
  OBVIOUS
<1>1. 0 \in Times /\ 0 \in Nat /\ 0 \in 0..MaxChanges
  BY GateBounds DEF Times
<1>2. /\ window \in [Workers -> SUBSET Requests]
      /\ hitAt \in [Requests -> Times]
      /\ worker \in [Requests -> Workers \cup {NoWorker}]
      /\ token \in [Requests -> Requests \cup {NoToken}]
      /\ expires \in [Requests -> Nat]
  BY <1>1 DEF GateInit
<1>3. /\ pc \in [Requests -> {"new", "sent", "answered", "received"} \cup InServer]
      /\ kind \in [Requests -> Kinds]
      /\ answer \in [Requests -> {"none", "ok", "refused"}]
      /\ claim \in [Requests -> Roles]
      /\ role \in Roles
  BY DEF GateInit, Kinds, Roles
<1>4. TokensCarried
  BY DEF GateInit, TokensCarried
<1>. QED BY <1>1, <1>2, <1>3, <1>4 DEF GateInit, TypeInv, GateTypeOK

(* A request is answered or goes on to a step of the server.               *)
LEMMA AnswerType ==
  ASSUME TypeInv, NEW r \in Requests, pc[r] # "new",
         \/ Answer(r, "ok") \/ Answer(r, "refused")
         \/ \E step \in InServer : GoOn(r, step)
  PROVE  /\ pc' \in [Requests -> {"new", "sent", "answered", "received"} \cup InServer]
         /\ kind' = kind /\ token' = token
         /\ answer' \in [Requests -> {"none", "ok", "refused"}]
         /\ TokensCarried'
<1>1. /\ \E step \in {"answered"} \cup InServer : pc' = [pc EXCEPT ![r] = step]
      /\ kind' = kind /\ token' = token
      /\ answer' \in [Requests -> {"none", "ok", "refused"}]
  BY DEF Answer, GoOn, TypeInv, GateTypeOK
<1>2. PICK step \in {"answered"} \cup InServer : pc' = [pc EXCEPT ![r] = step]
  BY <1>1
<1>3. \A q \in Requests : pc'[q] # "new" => pc[q] # "new"
  BY <1>2 DEF TypeInv, GateTypeOK
<1>4. TokensCarried'
  BY <1>1, <1>3 DEF TypeInv, TokensCarried
<1>. QED BY <1>1, <1>2, <1>4 DEF TypeInv, GateTypeOK

(* The steps of the server keep the types.                                 *)
LEMMA ServeType ==
  ASSUME TypeInv, NEW r \in Requests, Serve(r) \/ Fail(r)
  PROVE  TypeInv'
<1>. USE DEF InServer
<1>1. ASSUME NEW w \in Workers, LetIn(r, w) PROVE TypeInv'
  <2>1. Kept(w) \subseteq Requests /\ ReasonsAgainst(r) \subseteq {"suspended", "revoked"}
    BY <1>1 DEF Kept, ReasonsAgainst, TypeInv, GateTypeOK
  <2>2. CASE Cardinality(Kept(w)) >= Limit
    BY <1>1, <2>1, <2>2, AnswerType DEF LetIn, tokens, tenancy, TypeInv, GateTypeOK
  <2>3. CASE ~(Cardinality(Kept(w)) >= Limit)
    <3>1. /\ window' = [window EXCEPT ![w] = Kept(w) \cup {r}]
          /\ hitAt' = [hitAt EXCEPT ![r] = now]
          /\ worker' = [worker EXCEPT ![r] = w]
          /\ shut' = shut \cup {<<r, x>> : x \in ReasonsAgainst(r)}
          /\ UNCHANGED <<now, claim, expires, revoked, suspended, role, analystTill, changes>>
          /\ pc[r] # "new"
          /\ \E step \in InServer : GoOn(r, step)
      BY <1>1, <2>3 DEF LetIn, tokens, tenancy
    <3>2. shut' \in SUBSET (Requests \X {"suspended", "revoked"})
      BY <2>1, <3>1 DEF TypeInv, GateTypeOK
    <3>. QED BY <2>1, <3>1, <3>2, AnswerType DEF TypeInv, GateTypeOK
  <2>. QED BY <2>2, <2>3
<1>2. CASE LoginTenant(r)
  BY <1>2, AnswerType DEF LoginTenant, gate, tokens, tenancy, TypeInv, GateTypeOK
<1>3. CASE LoginUser(r)
  <2>1. now + Expiry \in Nat
    BY GateBounds DEF TypeInv, GateTypeOK, Times
  <2>. QED BY <1>3, <2>1, AnswerType DEF LoginUser, gate, tenancy, TypeInv, GateTypeOK
<1>4. CASE CheckToken(r)
  BY <1>4, AnswerType DEF CheckToken, gate, tokens, tenancy, TypeInv, GateTypeOK
<1>5. CASE CheckTenant(r)
  BY <1>5, AnswerType DEF CheckTenant, gate, tokens, tenancy, TypeInv, GateTypeOK
<1>6. CASE Commit(r)
  <2>1. kind[r] = "logout" => token[r] \in Requests
    BY <1>6 DEF Commit, TypeInv, TokensCarried
  <2>. QED BY <1>6, <2>1, AnswerType DEF Commit, gate, tenancy, TypeInv, GateTypeOK
<1>7. CASE Fail(r)
  BY <1>7, AnswerType DEF Fail, gate, tokens, tenancy, TypeInv, GateTypeOK
<1>. QED BY <1>1, <1>2, <1>3, <1>4, <1>5, <1>6, <1>7 DEF Serve

(* Every step keeps the types.                                             *)
LEMMA GateTypeNext == TypeInv /\ [GateNext]_gateVars => TypeInv'
<1>. SUFFICES ASSUME TypeInv, [GateNext]_gateVars PROVE TypeInv'
  OBVIOUS
<1>1. CASE Tick
  <2>1. now + 1 \in Times
    BY <1>1, GateBounds DEF Tick, TypeInv, GateTypeOK, Times
  <2>. QED BY <1>1, <2>1 DEF Tick, gate, requests, tokens, tenancy, TypeInv, GateTypeOK,
                             TokensCarried
<1>2. CASE SetStatus
  BY <1>2, GateBounds DEF SetStatus, Change, gate, requests, tokens, TypeInv, GateTypeOK,
                      TokensCarried
<1>3. CASE Demote
  BY <1>3, GateBounds DEF Demote, Change, gate, requests, tokens, TypeInv, GateTypeOK,
                      TokensCarried, Roles
<1>4. ASSUME NEW r \in Requests, Serve(r) \/ Fail(r) PROVE TypeInv'
  BY <1>4, ServeType
<1>5. ASSUME NEW r \in Requests, Arrives(r) PROVE TypeInv'
  <2>1. GateTypeOK'
    BY <1>5 DEF Arrives, gate, tokens, tenancy, TypeInv, GateTypeOK
  <2>2. TokensCarried'
    BY <1>5 DEF Arrives, TypeInv, GateTypeOK, TokensCarried
  <2>. QED BY <2>1, <2>2 DEF TypeInv
<1>6. ASSUME NEW r \in Requests, NEW k \in Kinds, NEW t \in Requests \cup {NoToken},
             IF k = "login" THEN t = NoToken ELSE Issued(t), Send(r, k, t)
      PROVE  TypeInv'
  <2>1. GateTypeOK'
    BY <1>6 DEF Send, gate, tokens, tenancy, TypeInv, GateTypeOK
  <2>2. TokensCarried'
    <3>. SUFFICES ASSUME NEW q \in Requests, pc'[q] # "new"
                  PROVE  IF kind'[q] = "login" THEN token'[q] = NoToken ELSE token'[q] \in Requests
      BY DEF TokensCarried
    <3>1. CASE q = r
      BY <1>6, <3>1 DEF Send, Issued, TypeInv, GateTypeOK
    <3>2. CASE q # r
      BY <1>6, <3>2 DEF Send, TypeInv, GateTypeOK, TokensCarried
    <3>. QED BY <3>1, <3>2
  <2>. QED BY <2>1, <2>2 DEF TypeInv
<1>7. CASE UNCHANGED gateVars
  BY <1>7 DEF gateVars, gate, requests, tokens, tenancy, TypeInv, GateTypeOK, TokensCarried
<1>. QED BY <1>1, <1>2, <1>3, <1>4, <1>5, <1>6, <1>7 DEF GateNext, Elsewhere

(* Gate, limiter, tokens and requests are well typed in every behavior.    *)
THEOREM GateTypeCorrect == GateSpec => []GateTypeOK
<1>1. TypeInv => GateTypeOK
  BY DEF TypeInv
<1>. QED BY <1>1, GateTypeInit, GateTypeNext, PTL DEF GateSpec

-----------------------------------------------------------------------------
(* A shut gate.  While the reason lasts, the request is at most where the  *)
(* gate has still to look at that reason.                                  *)

BeforeTenant == {"tenant_of_login", "token", "tenant", "answered", "received"}
BeforeToken == {"token", "answered", "received"}

ShutInv ==
  \A r \in Requests :
    /\ <<r, "suspended">> \in shut => suspended /\ pc[r] \in BeforeTenant
    /\ <<r, "revoked">> \in shut => token[r] \in revoked /\ pc[r] \in BeforeToken

(* Steps that leave the reasons alone keep every request before its check. *)
LEMMA ShutFrame ==
  ASSUME TypeInv, ShutInv, NEW r \in Requests, NEW step,
         pc' = [pc EXCEPT ![r] = step],
         pc[r] \in BeforeTenant => step \in BeforeTenant,
         pc[r] \in BeforeToken => step \in BeforeToken,
         shut' = shut, suspended' = suspended, token' = token, revoked \subseteq revoked'
  PROVE  ShutInv'
<1>1. \A q \in Requests : pc'[q] = IF q = r THEN step ELSE pc[q]
  BY DEF TypeInv, GateTypeOK
<1>. QED BY <1>1 DEF ShutInv

(* Every step of the server keeps the shut gate shut.                      *)
LEMMA ShutServe ==
  ASSUME TypeInv, ShutInv, NEW r \in Requests, Serve(r) \/ Fail(r)
  PROVE  ShutInv'
<1>. USE DEF BeforeTenant, BeforeToken, Answer, GoOn
<1>1. ASSUME NEW w \in Workers, LetIn(r, w) PROVE ShutInv'
  <2>1. CASE Cardinality(Kept(w)) >= Limit
    BY <1>1, <2>1, ShutFrame DEF LetIn, tokens, tenancy
  <2>2. CASE ~(Cardinality(Kept(w)) >= Limit)
    <3>1. /\ pc[r] = "sent"
          /\ shut' = shut \cup {<<r, x>> : x \in ReasonsAgainst(r)}
          /\ pc' = [pc EXCEPT ![r] = IF kind[r] = "login" THEN "tenant_of_login" ELSE "token"]
          /\ UNCHANGED <<token, revoked, suspended>>
      BY <1>1, <2>2 DEF LetIn, tokens, tenancy
    <3>2. "revoked" \in ReasonsAgainst(r) => token[r] \in revoked /\ kind[r] # "login"
      BY <3>1 DEF ReasonsAgainst, TypeInv, GateTypeOK, TokensCarried, Requests, NoToken
    <3>3. "suspended" \in ReasonsAgainst(r) => suspended
      BY DEF ReasonsAgainst
    <3>4. <<r, "suspended">> \notin shut /\ <<r, "revoked">> \notin shut
      BY <3>1 DEF ShutInv
    <3>. SUFFICES ASSUME NEW q \in Requests
                  PROVE (/\ <<q, "suspended">> \in shut => suspended /\ pc[q] \in BeforeTenant
                         /\ <<q, "revoked">> \in shut => token[q] \in revoked /\ pc[q] \in BeforeToken)'
      BY DEF ShutInv
    <3>5. CASE q = r
      <4>1. pc'[r] = IF kind[r] = "login" THEN "tenant_of_login" ELSE "token"
        BY <3>1 DEF TypeInv, GateTypeOK
      <4>2. /\ <<r, "suspended">> \in shut' => "suspended" \in ReasonsAgainst(r)
            /\ <<r, "revoked">> \in shut' => "revoked" \in ReasonsAgainst(r)
        BY <3>1, <3>4
      <4>. QED BY <3>1, <3>2, <3>3, <3>5, <4>1, <4>2
    <3>6. CASE q # r
      <4>1. pc'[q] = pc[q]
        BY <3>1, <3>6 DEF TypeInv, GateTypeOK
      <4>2. \A x : <<q, x>> \in shut' => <<q, x>> \in shut
        BY <3>1, <3>6
      <4>. QED BY <3>1, <4>1, <4>2 DEF ShutInv
    <3>. QED BY <3>5, <3>6
  <2>. QED BY <2>1, <2>2
<1>2. CASE LoginTenant(r)
  <2>1. CASE suspended
    BY <1>2, <2>1, ShutFrame DEF LoginTenant, tokens, tenancy
  <2>2. CASE ~suspended
    <3>1. <<r, "suspended">> \notin shut /\ <<r, "revoked">> \notin shut
      BY <1>2, <2>2 DEF LoginTenant, ShutInv
    <3>2. \A q \in Requests : q # r => pc'[q] = pc[q]
      BY <1>2, <2>2 DEF LoginTenant, TypeInv, GateTypeOK
    <3>. QED BY <1>2, <2>2, <3>1, <3>2 DEF LoginTenant, tokens, tenancy, ShutInv
  <2>. QED BY <2>1, <2>2
<1>3. CASE LoginUser(r)
  <2>1. UNCHANGED <<shut, suspended, token, revoked>>
        /\ \E step \in {"answered", "handler"} : pc' = [pc EXCEPT ![r] = step]
        /\ pc[r] = "credentials"
    BY <1>3 DEF LoginUser, tenancy
  <2>. QED BY <2>1, ShutFrame
<1>4. CASE CheckToken(r)
  <2>1. CASE now > expires[token[r]] \/ token[r] \in revoked
    BY <1>4, <2>1, ShutFrame DEF CheckToken, tokens, tenancy
  <2>2. CASE token[r] \notin revoked /\ ~(now > expires[token[r]])
    <3>1. <<r, "revoked">> \notin shut
      BY <2>2 DEF ShutInv
    <3>2. \A q \in Requests : pc'[q] = IF q = r THEN "tenant" ELSE pc[q]
      BY <1>4, <2>2 DEF CheckToken, TypeInv, GateTypeOK
    <3>3. pc[r] = "token" /\ UNCHANGED <<shut, suspended, token, revoked>>
      BY <1>4, <2>2 DEF CheckToken, tokens, tenancy
    <3>. QED BY <3>1, <3>2, <3>3 DEF ShutInv
  <2>. QED BY <2>1, <2>2
<1>5. CASE CheckTenant(r)
  <2>1. CASE suspended \/ ~Permits(claim[token[r]], kind[r])
    BY <1>5, <2>1, ShutFrame DEF CheckTenant, tokens, tenancy
  <2>2. CASE ~(suspended \/ ~Permits(claim[token[r]], kind[r]))
    <3>1. pc[r] = "tenant" /\ UNCHANGED <<shut, suspended, token, revoked>>
      BY <1>5, <2>2 DEF CheckTenant, tokens, tenancy
    <3>2. <<r, "suspended">> \notin shut /\ <<r, "revoked">> \notin shut
      BY <2>2, <3>1 DEF ShutInv
    <3>3. \A q \in Requests : q # r => pc'[q] = pc[q]
      BY <1>5, <2>2 DEF CheckTenant, TypeInv, GateTypeOK
    <3>. QED BY <3>1, <3>2, <3>3 DEF ShutInv
  <2>. QED BY <2>1, <2>2
<1>6. CASE Commit(r)
  BY <1>6, ShutFrame DEF Commit, tenancy
<1>7. CASE Fail(r)
  BY <1>7, ShutFrame DEF Fail, tokens, tenancy
<1>. QED BY <1>1, <1>2, <1>3, <1>4, <1>5, <1>6, <1>7 DEF Serve

(* Every step keeps the shut gate shut.                                    *)
LEMMA ShutNext == TypeInv /\ ShutInv /\ [GateNext]_gateVars => ShutInv'
<1>. SUFFICES ASSUME TypeInv, ShutInv, [GateNext]_gateVars PROVE ShutInv'
  OBVIOUS
<1>1. CASE Tick \/ Demote
  <2>1. UNCHANGED <<pc, token, revoked, suspended, shut>>
    BY <1>1 DEF Tick, Demote, requests, tokens, tenancy
  <2>. QED BY <2>1 DEF ShutInv
<1>2. CASE SetStatus
  <2>1. UNCHANGED <<pc, token, revoked>> /\ shut' \subseteq shut
        /\ \A q : <<q, "suspended">> \notin shut'
    BY <1>2 DEF SetStatus, requests, tokens
  <2>. QED BY <2>1 DEF ShutInv
<1>3. ASSUME NEW r \in Requests, Serve(r) \/ Fail(r) PROVE ShutInv'
  BY <1>3, ShutServe
<1>4. ASSUME NEW r \in Requests, Arrives(r) PROVE ShutInv'
  BY <1>4, ShutFrame DEF Arrives, tokens, tenancy, BeforeTenant, BeforeToken
<1>5. ASSUME NEW r \in Requests, NEW k, NEW t, Send(r, k, t) PROVE ShutInv'
  <2>1. <<r, "suspended">> \notin shut /\ <<r, "revoked">> \notin shut
    BY <1>5 DEF Send, ShutInv, BeforeTenant, BeforeToken
  <2>2. \A q \in Requests : q # r => pc'[q] = pc[q] /\ token'[q] = token[q]
    BY <1>5 DEF Send, TypeInv, GateTypeOK
  <2>3. UNCHANGED <<shut, suspended, revoked>>
    BY <1>5 DEF Send, tokens, tenancy
  <2>. QED BY <2>1, <2>2, <2>3 DEF ShutInv
<1>6. CASE UNCHANGED gateVars
  BY <1>6 DEF gateVars, requests, tokens, tenancy, ShutInv
<1>. QED BY <1>1, <1>2, <1>3, <1>4, <1>5, <1>6 DEF GateNext, Elsewhere

(* No handler works for a request while its tenant is suspended, or its    *)
(* token revoked, since before the request was let in.                     *)
THEOREM GateStaysShut == GateSpec => []ShutOut
<1>1. GateInit => ShutInv
  BY DEF GateInit, ShutInv
<1>2. TypeInv /\ ShutInv => ShutOut
  <2>. SUFFICES ASSUME TypeInv, ShutInv, NEW s \in shut PROVE pc[s[1]] # "handler"
    BY DEF ShutOut
  <2>1. PICK r \in Requests, x \in {"suspended", "revoked"} : s = <<r, x>>
    BY DEF TypeInv, GateTypeOK
  <2>. QED BY <2>1 DEF ShutInv, BeforeTenant, BeforeToken
<1>. QED BY <1>1, <1>2, GateTypeInit, GateTypeNext, ShutNext, PTL DEF GateSpec

-----------------------------------------------------------------------------
(* The window.  The deque of a process holds every request it let in that  *)
(* is no more than a window old, so that its length bounds the interval    *)
(* that ends now; the intervals before it get no new requests.             *)

LetInBy(w, s) == {r \in Requests : worker[r] = w /\ hitAt[r] \in s..(s + Window)}

WindowInv ==
  /\ \A r \in Requests : worker[r] # NoWorker => hitAt[r] <= now
  /\ \A w \in Workers :
       /\ Cardinality(window[w]) <= Limit
       /\ \A r \in window[w] : worker[r] = w
       /\ \A r \in Requests : worker[r] = w /\ now - hitAt[r] <= Window => r \in window[w]
       /\ \A s \in Times : Cardinality(LetInBy(w, s)) <= Limit

(* Sets of requests are finite, and a smaller set has no larger number.    *)
LEMMA RequestSets ==
  ASSUME NEW S \in SUBSET Requests, NEW T \in SUBSET S
  PROVE  /\ IsFiniteSet(S) /\ IsFiniteSet(T)
         /\ Cardinality(S) \in Nat /\ Cardinality(T) \in Nat
         /\ Cardinality(T) <= Cardinality(S)
<1>1. IsFiniteSet(Requests)
  BY GateBounds, FS_Interval DEF Requests
<1>2. IsFiniteSet(S) /\ IsFiniteSet(T)
  BY <1>1, FS_Subset
<1>. QED BY <1>2, FS_CardinalityType, FS_Subset

(* The clock only runs forward, which drops requests from no interval.     *)
LEMMA WindowTick == TypeInv /\ WindowInv /\ Tick => WindowInv'
<1>. SUFFICES ASSUME TypeInv, WindowInv, Tick PROVE WindowInv'
  OBVIOUS
<1>1. now' = now + 1 /\ UNCHANGED <<window, hitAt, worker>>
  BY DEF Tick, gate
<1>2. now \in Nat /\ \A r \in Requests : hitAt[r] \in Nat
  BY GateBounds DEF TypeInv, GateTypeOK, Times
<1>3. \A w \in Workers, s \in Times : LetInBy(w, s)' = LetInBy(w, s)
  BY <1>1 DEF LetInBy
<1>4. \A r \in Requests : /\ worker[r] # NoWorker => hitAt[r] <= now'
                          /\ now' - hitAt[r] <= Window => now - hitAt[r] <= Window
  BY <1>1, <1>2, GateBounds DEF WindowInv
<1>. QED BY <1>1, <1>3, <1>4 DEF WindowInv

(* A process that lets a request in stays within its limit.                *)
LEMMA WindowLetIn ==
  ASSUME TypeInv, WindowInv, NEW r \in Requests, NEW w \in Workers, LetIn(r, w),
         worker[r] = NoWorker
  PROVE  WindowInv'
<1>1. now \in Nat /\ now' = now /\ Window \in Nat /\ Limit \in Nat
      /\ \A q \in Requests : hitAt[q] \in Nat
  BY GateBounds DEF LetIn, TypeInv, GateTypeOK, Times
<1>2. Kept(w) \subseteq window[w] /\ window[w] \in SUBSET Requests
  BY DEF Kept, TypeInv, GateTypeOK
<1>3. \A q \in Requests : worker[q] = w /\ now - hitAt[q] <= Window => q \in Kept(w)
  BY DEF WindowInv, Kept
<1>4. CASE Cardinality(Kept(w)) >= Limit
  <2>1. window' = [window EXCEPT ![w] = Kept(w)] /\ UNCHANGED <<hitAt, worker>>
    BY <1>4 DEF LetIn
  <2>2. \A v \in Workers : window'[v] = IF v = w THEN Kept(w) ELSE window[v]
    BY <2>1 DEF TypeInv, GateTypeOK
  <2>3. Cardinality(Kept(w)) <= Limit
    BY <1>1, <1>2, RequestSets DEF WindowInv
  <2>4. \A v \in Workers, s \in Times : LetInBy(v, s)' = LetInBy(v, s)
    BY <2>1 DEF LetInBy
  <2>. QED BY <1>1, <1>2, <1>3, <2>1, <2>2, <2>3, <2>4 DEF WindowInv
<1>5. CASE ~(Cardinality(Kept(w)) >= Limit)
  <2>1. /\ window' = [window EXCEPT ![w] = Kept(w) \cup {r}]
        /\ hitAt' = [hitAt EXCEPT ![r] = now]
        /\ worker' = [worker EXCEPT ![r] = w]
    BY <1>5 DEF LetIn
  <2>2. \A v \in Workers : window'[v] = IF v = w THEN Kept(w) \cup {r} ELSE window[v]
    BY <2>1 DEF TypeInv, GateTypeOK
  <2>3. \A q \in Requests : /\ hitAt'[q] = IF q = r THEN now ELSE hitAt[q]
                            /\ worker'[q] = IF q = r THEN w ELSE worker[q]
    BY <2>1 DEF TypeInv, GateTypeOK
  <2>4. Cardinality(Kept(w) \cup {r}) <= Limit
    <3>1. IsFiniteSet(Kept(w)) /\ Cardinality(Kept(w)) \in Nat
      BY <1>2, RequestSets
    <3>2. Cardinality(Kept(w)) + 1 <= Limit
      BY <1>1, <1>5, <3>1
    <3>3. Cardinality(Kept(w) \cup {r}) = IF r \in Kept(w) THEN Cardinality(Kept(w))
                                          ELSE Cardinality(Kept(w)) + 1
      BY <3>1, FS_AddElement
    <3>. QED BY <1>1, <3>1, <3>2, <3>3
  <2>5. ASSUME NEW v \in Workers, NEW s \in Times PROVE Cardinality(LetInBy(v, s)') <= Limit
    <3>0. s \in Nat
      BY GateBounds DEF Times
    <3>1. CASE v = w /\ now \in s..(s + Window)
      <4>1. ASSUME NEW q \in LetInBy(v, s)' PROVE q \in Kept(w) \cup {r}
        <5>1. q \in Requests /\ worker'[q] = w /\ hitAt'[q] \in s..(s + Window)
          BY <3>1 DEF LetInBy
        <5>2. CASE q # r
          <6>1. worker[q] = w /\ hitAt[q] >= s
            BY <2>3, <3>0, <5>1, <5>2, <1>1
          <6>2. now - hitAt[q] <= Window
            BY <1>1, <3>0, <3>1, <5>1, <6>1
          <6>. QED BY <1>3, <5>1, <6>1, <6>2
        <5>. QED BY <5>2
      <4>2. LetInBy(v, s)' \in SUBSET (Kept(w) \cup {r}) /\ Kept(w) \cup {r} \in SUBSET Requests
        BY <1>2, <4>1
      <4>3. /\ Cardinality(LetInBy(v, s)') \in Nat /\ Cardinality(Kept(w) \cup {r}) \in Nat
            /\ Cardinality(LetInBy(v, s)') <= Cardinality(Kept(w) \cup {r})
        BY <4>2, RequestSets
      <4>. QED BY <1>1, <2>4, <4>3
    <3>2. CASE ~(v = w /\ now \in s..(s + Window))
      <4>1. ASSUME NEW q \in LetInBy(v, s)' PROVE q \in LetInBy(v, s)
        <5>1. q \in Requests /\ worker'[q] = v /\ hitAt'[q] \in s..(s + Window)
          BY DEF LetInBy
        <5>2. q # r
          BY <2>3, <3>2, <5>1
        <5>. QED BY <2>3, <5>1, <5>2 DEF LetInBy
      <4>2. LetInBy(v, s)' \in SUBSET LetInBy(v, s) /\ LetInBy(v, s) \in SUBSET Requests
        BY <4>1 DEF LetInBy
      <4>3. /\ Cardinality(LetInBy(v, s)') \in Nat /\ Cardinality(LetInBy(v, s)) \in Nat
            /\ Cardinality(LetInBy(v, s)') <= Cardinality(LetInBy(v, s))
        BY <4>2, RequestSets
      <4>. QED BY <1>1, <4>3 DEF WindowInv
    <3>. QED BY <3>1, <3>2
  <2>6. \A q \in Requests : worker'[q] # NoWorker => hitAt'[q] <= now'
    BY <1>1, <2>3 DEF WindowInv
  <2>7. ASSUME NEW v \in Workers
        PROVE  /\ Cardinality(window'[v]) <= Limit
               /\ \A q \in window'[v] : worker'[q] = v
               /\ \A q \in Requests : worker'[q] = v /\ now' - hitAt'[q] <= Window => q \in window'[v]
    <3>1. CASE v = w
      BY <1>1, <1>2, <1>3, <2>2, <2>3, <2>4, <3>1 DEF WindowInv
    <3>2. CASE v # w
      <4>1. \A q \in window[v] : q \in Requests /\ q # r
        BY NoWorkerIsNone DEF WindowInv, TypeInv, GateTypeOK
      <4>. QED BY <1>1, <2>2, <2>3, <3>2, <4>1 DEF WindowInv
    <3>. QED BY <3>1, <3>2
  <2>. QED BY <2>5, <2>6, <2>7 DEF WindowInv
<1>. QED BY <1>4, <1>5

(* A request that was not let in yet is in no deque.                       *)
NotLetIn == \A r \in Requests : pc[r] \in {"new", "sent"} => worker[r] = NoWorker

(* Only LetIn and the clock touch what the window is made of.              *)
LEMMA WindowFrame ==
  [GateNext]_gateVars =>
    \/ Tick
    \/ \E r \in Requests, w \in Workers : LetIn(r, w)
    \/ UNCHANGED <<now, window, hitAt, worker>>
<1>. SUFFICES ASSUME [GateNext]_gateVars, ~Tick,
                     ~\E r \in Requests, w \in Workers : LetIn(r, w)
              PROVE  UNCHANGED <<now, window, hitAt, worker>>
  OBVIOUS
<1>1. CASE SetStatus \/ Demote
  BY <1>1 DEF SetStatus, Demote, gate
<1>2. ASSUME NEW r \in Requests, Serve(r) \/ Fail(r) \/ Arrives(r)
      PROVE  UNCHANGED <<now, window, hitAt, worker>>
  BY <1>2 DEF Serve, LoginTenant, LoginUser, CheckToken, CheckTenant, Commit, Fail, Arrives, gate
<1>3. ASSUME NEW r \in Requests, NEW k, NEW t, Send(r, k, t)
      PROVE  UNCHANGED <<now, window, hitAt, worker>>
  BY <1>3 DEF Send, gate
<1>4. CASE UNCHANGED gateVars
  BY <1>4 DEF gateVars, gate
<1>. QED BY <1>1, <1>2, <1>3, <1>4 DEF GateNext, Elsewhere

(* A request is let in once.                                               *)
LEMMA LetInOnce == TypeInv /\ NotLetIn /\ [GateNext]_gateVars => NotLetIn'
<1>. SUFFICES ASSUME TypeInv, NotLetIn, [GateNext]_gateVars,
                     NEW r \in Requests, pc'[r] \in {"new", "sent"}
              PROVE  worker'[r] = NoWorker
  BY DEF NotLetIn
<1>. USE DEF TypeInv, GateTypeOK
<1>1. pc[r] \in {"new", "sent"}
  <2>1. CASE SetStatus \/ Demote \/ Tick
    BY <2>1 DEF SetStatus, Demote, Tick, requests
  <2>2. ASSUME NEW q \in Requests, NEW w \in Workers, LetIn(q, w)
        PROVE  pc[r] \in {"new", "sent"}
    BY <2>2 DEF LetIn, Answer, GoOn
  <2>3. ASSUME NEW q \in Requests,
               LoginTenant(q) \/ LoginUser(q) \/ CheckToken(q) \/ CheckTenant(q) \/ Commit(q)
        PROVE  pc[r] \in {"new", "sent"}
    BY <2>3 DEF LoginTenant, LoginUser, CheckToken, CheckTenant, Commit, Answer, GoOn
  <2>4. ASSUME NEW q \in Requests, Fail(q) \/ Arrives(q)
        PROVE  pc[r] \in {"new", "sent"}
    BY <2>4 DEF Fail, Arrives, Answer
  <2>5. ASSUME NEW q \in Requests, NEW k, NEW t, Send(q, k, t)
        PROVE  pc[r] \in {"new", "sent"}
    BY <2>5 DEF Send
  <2>6. CASE UNCHANGED gateVars
    BY <2>6 DEF gateVars, requests
  <2>. QED BY <2>1, <2>2, <2>3, <2>4, <2>5, <2>6 DEF GateNext, Elsewhere, Serve
<1>2. ASSUME NEW q \in Requests, NEW w \in Workers, LetIn(q, w) PROVE worker'[r] = worker[r]
  <2>1. CASE Cardinality(Kept(w)) >= Limit
    BY <1>2, <2>1 DEF LetIn
  <2>2. CASE ~(Cardinality(Kept(w)) >= Limit)
    <3>1. pc'[q] \in {"tenant_of_login", "token"} /\ worker' = [worker EXCEPT ![q] = w]
      BY <1>2, <2>2 DEF LetIn, GoOn
    <3>. QED BY <3>1
  <2>. QED BY <2>1, <2>2
<1>3. worker'[r] = worker[r]
  BY <1>2, WindowFrame DEF Tick, gate
<1>. QED BY <1>1, <1>3 DEF NotLetIn

(* However requests spread over time, a process lets in at most Limit of   *)
(* them in any window, both of its ends included.                          *)
THEOREM WindowsAreKept == GateSpec => []WindowKept
<1>1. GateInit => WindowInv /\ NotLetIn
  <2>. SUFFICES ASSUME GateInit PROVE WindowInv /\ NotLetIn
    OBVIOUS
  <2>1. \A r \in Requests : worker[r] = NoWorker
    BY DEF GateInit
  <2>2. \A w \in Workers : window[w] = {} /\ \A s \in Times : LetInBy(w, s) = {}
    BY <2>1, NoWorkerIsNone DEF GateInit, LetInBy
  <2>3. Cardinality({}) = 0 /\ 0 <= Limit
    BY FS_EmptySet, GateBounds
  <2>4. ASSUME NEW w \in Workers
        PROVE  /\ Cardinality(window[w]) <= Limit
               /\ \A s \in Times : Cardinality(LetInBy(w, s)) <= Limit
    BY <2>2, <2>3
  <2>5. \A w \in Workers : w # NoWorker
    BY NoWorkerIsNone
  <2>6. \A w \in Workers : \A r \in window[w] : worker[r] = w
    BY <2>2
  <2>. QED BY <2>1, <2>4, <2>5, <2>6 DEF WindowInv, NotLetIn
<1>2. TypeInv /\ NotLetIn /\ WindowInv /\ [GateNext]_gateVars => WindowInv'
  <2>. SUFFICES ASSUME TypeInv, NotLetIn, WindowInv, [GateNext]_gateVars PROVE WindowInv'
    OBVIOUS
  <2>1. ASSUME NEW r \in Requests, NEW w \in Workers, LetIn(r, w) PROVE WindowInv'
    BY <2>1, WindowLetIn DEF LetIn, NotLetIn
  <2>2. CASE UNCHANGED <<now, window, hitAt, worker>>
    BY <2>2 DEF WindowInv, LetInBy
  <2>. QED BY <2>1, <2>2, WindowTick, WindowFrame
<1>3. WindowInv => WindowKept
  BY DEF WindowInv, WindowKept, LetInBy
<1>. QED BY <1>1, <1>2, <1>3, LetInOnce, GateTypeInit, GateTypeNext, PTL DEF GateSpec

-----------------------------------------------------------------------------
(* A lost role.  A token expires no later than an Expiry after its user    *)
(* last had its role, and a request that passed the token check came       *)
(* before its token expired.                                               *)

RoleInv ==
  /\ analystTill <= now
  /\ \A r \in Requests : hitAt[r] <= now /\ expires[r] <= LastHeld(claim[r]) + Expiry
  /\ \A r \in Requests : pc[r] \in {"token", "tenant"} => token[r] \in Requests
  /\ \A r \in Requests : pc[r] = "tenant" => hitAt[r] <= expires[token[r]]

(* Times are numbers.                                                      *)
LEMMA RoleTimes ==
  ASSUME TypeInv
  PROVE  /\ now \in Nat /\ analystTill \in Nat /\ Expiry \in Nat
         /\ \A r \in Requests : hitAt[r] \in Nat /\ expires[r] \in Nat
         /\ \A x : LastHeld(x) \in Nat
BY GateBounds DEF TypeInv, GateTypeOK, Times, LastHeld

(* What changes neither roles nor tokens leaves the invariant, as long as  *)
(* no request comes to the checks of its token and tenant.                 *)
LEMMA RoleFrame ==
  ASSUME TypeInv, RoleInv, UNCHANGED <<now, role, analystTill, claim, expires, hitAt>>,
         \A r \in Requests : pc'[r] \in {"token", "tenant"} => pc'[r] = pc[r] /\ token'[r] = token[r]
  PROVE  RoleInv'
BY DEF RoleInv, LastHeld

(* The steps of the server keep the invariant.                             *)
LEMMA RoleServe ==
  ASSUME TypeInv, RoleInv, NEW r \in Requests, Serve(r) \/ Fail(r)
  PROVE  RoleInv'
<1>. USE DEF Answer, GoOn
<1>1. ASSUME NEW w \in Workers, LetIn(r, w) PROVE RoleInv'
  <2>1. CASE Cardinality(Kept(w)) >= Limit
    BY <1>1, <2>1, RoleFrame DEF LetIn, tokens, tenancy, TypeInv, GateTypeOK
  <2>2. CASE ~(Cardinality(Kept(w)) >= Limit)
    <3>1. /\ UNCHANGED <<now, role, analystTill, claim, expires, token>>
          /\ hitAt' = [hitAt EXCEPT ![r] = now]
          /\ pc[r] = "sent"
          /\ pc' = [pc EXCEPT ![r] = IF kind[r] = "login" THEN "tenant_of_login" ELSE "token"]
      BY <1>1, <2>2 DEF LetIn, tokens, tenancy
    <3>2. \A q \in Requests : /\ hitAt'[q] = IF q = r THEN now ELSE hitAt[q]
                              /\ pc'[q] = "tenant" => pc[q] = "tenant" /\ q # r
                              /\ pc'[q] = "token" => IF q = r THEN kind[q] # "login" ELSE pc[q] = "token"
      BY <3>1 DEF TypeInv, GateTypeOK
    <3>4. \A q \in Requests : pc'[q] \in {"token", "tenant"} => token[q] \in Requests
      BY <3>1, <3>2 DEF RoleInv, TypeInv, TokensCarried
    <3>3. LastHeld(claim[r]) \in Nat /\ \A q : LastHeld(q)' = LastHeld(q)
      BY <3>1, RoleTimes DEF LastHeld
    <3>. QED BY <3>1, <3>2, <3>3, <3>4, RoleTimes DEF RoleInv
  <2>. QED BY <2>1, <2>2
<1>2. CASE LoginTenant(r) \/ CheckTenant(r) \/ Commit(r) \/ Fail(r)
  <2>1. UNCHANGED <<now, role, analystTill, claim, expires, hitAt, token>>
    BY <1>2 DEF LoginTenant, CheckTenant, Commit, Fail, gate, tokens, tenancy
  <2>2. \E step \in {"answered", "credentials", "handler"} : pc' = [pc EXCEPT ![r] = step]
    BY <1>2 DEF LoginTenant, CheckTenant, Commit, Fail
  <2>3. \A q \in Requests : pc'[q] \in {"token", "tenant"} => pc'[q] = pc[q]
    BY <2>2 DEF TypeInv, GateTypeOK
  <2>. QED BY <2>1, <2>3, RoleFrame
<1>3. CASE LoginUser(r)
  <2>1. CASE role = "none"
    BY <1>3, <2>1, RoleFrame DEF LoginUser, gate, tenancy, TypeInv, GateTypeOK
  <2>2. CASE role # "none"
    <3>1. /\ UNCHANGED <<now, role, analystTill, token, hitAt>>
          /\ claim' = [claim EXCEPT ![r] = role]
          /\ expires' = [expires EXCEPT ![r] = now + Expiry]
          /\ pc' = [pc EXCEPT ![r] = "handler"]
      BY <1>3, <2>2 DEF LoginUser, gate, tenancy
    <3>2. \A q \in Requests : /\ claim'[q] = IF q = r THEN role ELSE claim[q]
                              /\ expires'[q] = IF q = r THEN now + Expiry ELSE expires[q]
                              /\ pc'[q] \in {"token", "tenant"} => pc'[q] = pc[q] /\ q # r
      BY <3>1 DEF TypeInv, GateTypeOK
    <3>3. LastHeld(role)' = now /\ \A x : LastHeld(x)' = LastHeld(x)
      BY <3>1 DEF LastHeld
    <3>4. \A q \in Requests : hitAt[q] <= now + Expiry
      BY RoleTimes DEF RoleInv
    <3>5. \A q \in Requests : expires'[q] <= LastHeld(claim[q])' + Expiry
      BY <3>1, <3>2, <3>3, RoleTimes DEF RoleInv
    <3>6. \A q \in Requests : pc'[q] = "tenant" => hitAt[q] <= expires'[token[q]]
      BY <3>1, <3>2, <3>4 DEF RoleInv
    <3>. QED BY <3>1, <3>2, <3>5, <3>6 DEF RoleInv
  <2>. QED BY <2>1, <2>2
<1>4. CASE CheckToken(r)
  <2>1. CASE now > expires[token[r]] \/ token[r] \in revoked
    BY <1>4, <2>1, RoleFrame DEF CheckToken, gate, tokens, tenancy, TypeInv, GateTypeOK
  <2>2. CASE ~(now > expires[token[r]]) /\ token[r] \notin revoked
    <3>1. /\ pc[r] = "token" /\ pc' = [pc EXCEPT ![r] = "tenant"]
          /\ UNCHANGED <<now, role, analystTill, claim, expires, hitAt, token>>
      BY <1>4, <2>2 DEF CheckToken, gate, tokens, tenancy
    <3>2. \A q \in Requests : pc'[q] = IF q = r THEN "tenant" ELSE pc[q]
      BY <3>1 DEF TypeInv, GateTypeOK
    <3>3. token[r] \in Requests /\ hitAt[r] <= expires[token[r]]
      <4>1. token[r] \in Requests
        BY <3>1 DEF RoleInv
      <4>. QED BY <2>2, <4>1, RoleTimes DEF RoleInv
    <3>. QED BY <3>1, <3>2, <3>3 DEF RoleInv, LastHeld
  <2>. QED BY <2>1, <2>2
<1>. QED BY <1>1, <1>2, <1>3, <1>4 DEF Serve

(* Every step keeps the invariant of the roles.                            *)
LEMMA RoleNext == TypeInv /\ RoleInv /\ [GateNext]_gateVars => RoleInv'
<1>. SUFFICES ASSUME TypeInv, RoleInv, [GateNext]_gateVars PROVE RoleInv'
  OBVIOUS
<1>1. CASE Tick
  <2>1. now' = now + 1
        /\ UNCHANGED <<pc, token, role, analystTill, claim, expires, hitAt>>
    BY <1>1 DEF Tick, gate, requests, tokens, tenancy
  <2>2. \A x : LastHeld(x)' >= LastHeld(x) /\ LastHeld(x)' \in Nat
    BY <2>1, RoleTimes DEF LastHeld
  <2>. QED BY <2>1, <2>2, RoleTimes DEF RoleInv
<1>2. CASE SetStatus
  BY <1>2, RoleFrame DEF SetStatus, gate, requests, tokens
<1>3. CASE Demote
  <2>1. /\ role = "analyst" /\ role' # "analyst" /\ analystTill' = now
        /\ UNCHANGED <<now, pc, token, claim, expires, hitAt>>
    BY <1>3 DEF Demote, gate, requests, tokens
  <2>2. \A x : LastHeld(x)' = now /\ LastHeld(x) <= now
    BY <2>1, RoleTimes DEF LastHeld, RoleInv
  <2>3. \A r \in Requests : expires[r] <= LastHeld(claim[r])' + Expiry
    BY <2>2, RoleTimes DEF RoleInv
  <2>. QED BY <2>1, <2>3, RoleTimes DEF RoleInv
<1>4. ASSUME NEW r \in Requests, Serve(r) \/ Fail(r) PROVE RoleInv'
  BY <1>4, RoleServe
<1>5. ASSUME NEW r \in Requests, Arrives(r) PROVE RoleInv'
  <2>1. UNCHANGED <<now, role, analystTill, claim, expires, hitAt, token>>
        /\ pc' = [pc EXCEPT ![r] = "received"]
    BY <1>5 DEF Arrives, gate, tokens, tenancy
  <2>. QED BY <2>1, RoleFrame DEF TypeInv, GateTypeOK
<1>6. ASSUME NEW r \in Requests, NEW k, NEW t, Send(r, k, t) PROVE RoleInv'
  <2>1. UNCHANGED <<now, role, analystTill, claim, expires, hitAt>>
        /\ pc' = [pc EXCEPT ![r] = "sent"] /\ token' = [token EXCEPT ![r] = t]
    BY <1>6 DEF Send, gate, tokens, tenancy
  <2>2. \A q \in Requests : pc'[q] \in {"token", "tenant"} => pc'[q] = pc[q] /\ token'[q] = token[q]
    BY <2>1 DEF TypeInv, GateTypeOK
  <2>. QED BY <2>1, <2>2, RoleFrame
<1>7. CASE UNCHANGED gateVars
  BY <1>7, RoleFrame DEF gateVars, gate, requests, tokens, tenancy
<1>. QED BY <1>1, <1>2, <1>3, <1>4, <1>5, <1>6, <1>7 DEF GateNext, Elsewhere

(* Nobody gets past the gate in a role that was taken from them more than  *)
(* the lifetime of a token before.                                         *)
THEOREM LostRolesExpire == GateSpec => RoleLost
<1>1. GateInit => RoleInv
  BY GateBounds DEF GateInit, RoleInv, LastHeld
<1>2. TypeInv /\ RoleInv /\ [GateNext]_gateVars =>
        [\A r \in Requests : pc[r] = "tenant" /\ pc'[r] = "handler" =>
           LastHeld(claim[token[r]]) + Expiry >= hitAt[r]]_gateVars
  <2>. SUFFICES ASSUME TypeInv, RoleInv, NEW r \in Requests, pc[r] = "tenant"
                PROVE  LastHeld(claim[token[r]]) + Expiry >= hitAt[r]
    OBVIOUS
  <2>1. /\ token[r] \in Requests /\ hitAt[r] <= expires[token[r]]
        /\ expires[token[r]] <= LastHeld(claim[token[r]]) + Expiry
    BY DEF RoleInv
  <2>. QED BY <2>1, RoleTimes
<1>. QED BY <1>1, <1>2, GateTypeInit, GateTypeNext, RoleNext, PTL DEF GateSpec, RoleLost

-----------------------------------------------------------------------------

\* What the console holds: the token of a login that was answered, and on the
\* dashboard requests that were sent with it.
Held ==
  /\ session \in Requests \cup {NoToken}
  /\ session # NoToken => Issued(session) /\ pc[session] = "received"
  /\ due => session # NoToken
  /\ waits \in SUBSET Requests
  /\ \A q \in waits : /\ pc[q] # "new" /\ kind[q] \in {"list", "run"}
                      /\ token[q] \in held
  /\ shown \in Requests \cup {0}
  /\ shown # 0 => pc[shown] = "received" /\ token[shown] \in held
  /\ held \in SUBSET Requests
  /\ IF session = NoToken THEN waits = {} /\ shown = 0 ELSE session \in held
  /\ filter \in Filters
  /\ asked \in [Requests -> Filters]

\* As long as no two answers were outstanding, a spinner turns for the one that
\* is, and the page has an error, the right content or something to wait for.
Screen ==
  session # NoToken /\ ~overlapped =>
    /\ \A p, q \in waits : p = q
    /\ \A q \in waits : /\ kind[q] = "list" => loading /\ (due \/ asked[q] = filter)
                        /\ kind[q] = "run" => running
    /\ \/ due \/ failed \/ waits # {}
       \/ shown # 0 /\ (asked[shown] = filter \/ kind[shown] = "run")

ConsoleInv == TypeInv /\ Held

(* Nothing is held at first.                                               *)
LEMMA ConsoleHeldInit == ConsoleInit => ConsoleInv /\ Screen
<1>. SUFFICES ASSUME ConsoleInit PROVE ConsoleInv /\ Screen
  OBVIOUS
<1>1. asked \in [Requests -> Filters] /\ filter \in Filters
  BY InitialFilter DEF ConsoleInit
<1>. QED BY <1>1, GateTypeInit DEF ConsoleInit, ConsoleInv, Held, Screen

(* What a request carries stays, and so does an answer that was received.  *)
LEMMA RequestsKept ==
  ASSUME TypeInv, [GateNext]_gateVars, NEW q \in Requests
  PROVE  /\ pc[q] # "new" => pc'[q] # "new" /\ kind'[q] = kind[q] /\ token'[q] = token[q]
         /\ pc[q] = "received" => pc'[q] = "received" /\ answer'[q] = answer[q]
<1>. USE DEF TypeInv, GateTypeOK
<1>1. CASE Tick \/ SetStatus \/ Demote
  BY <1>1 DEF Tick, SetStatus, Demote, requests
<1>3. ASSUME NEW r \in Requests, Serve(r) \/ Fail(r) \/ Arrives(r)
      PROVE  /\ kind' = kind /\ token' = token
             /\ pc[q] # "new" => pc'[q] # "new"
             /\ pc[q] = "received" => pc'[q] = "received" /\ answer'[q] = answer[q]
  <2>1. CASE \E w \in Workers : LetIn(r, w)
    BY <2>1 DEF LetIn, Answer, GoOn
  <2>2. CASE LoginTenant(r) \/ LoginUser(r) \/ CheckToken(r)
    BY <2>2 DEF LoginTenant, LoginUser, CheckToken, Answer, GoOn
  <2>3. CASE CheckTenant(r) \/ Commit(r) \/ Fail(r) \/ Arrives(r)
    BY <2>3 DEF CheckTenant, Commit, Fail, Arrives, Answer, GoOn, InServer
  <2>. QED BY <1>3, <2>1, <2>2, <2>3 DEF Serve
<1>4. ASSUME NEW r \in Requests, NEW k, NEW t, Send(r, k, t)
      PROVE  /\ pc[q] # "new" => pc'[q] # "new" /\ kind'[q] = kind[q] /\ token'[q] = token[q]
             /\ pc[q] = "received" => pc'[q] = "received" /\ answer'[q] = answer[q]
  BY <1>4 DEF Send
<1>5. CASE UNCHANGED gateVars
  BY <1>5 DEF gateVars, requests
<1>. QED BY <1>1, <1>3, <1>4, <1>5 DEF GateNext, Elsewhere

(* Every step of the console is one the gate allows its clients.           *)
LEMMA ConsoleStep == ConsoleInv /\ [ConsoleNext]_consoleVars => [GateNext]_gateVars
<1>. SUFFICES ASSUME ConsoleInv, [ConsoleNext]_consoleVars PROVE [GateNext]_gateVars
  OBVIOUS
<1>1. ASSUME NEW r \in Requests, Login(r) PROVE GateNext
  <2>1. Send(r, "login", NoToken)
    BY <1>1 DEF Login
  <2>. QED BY <2>1 DEF GateNext, Kinds
<1>2. ASSUME NEW r \in Requests, NEW k \in {"logout", "list", "run"}, Send(r, k, session),
             session # NoToken
      PROVE  GateNext
  BY <1>2 DEF GateNext, Kinds, ConsoleInv, Held
<1>3. ASSUME NEW r \in Requests, Logout(r) \/ Load(r) \/ Refresh(r) \/ RunPipeline(r)
      PROVE  GateNext
  BY <1>2, <1>3 DEF Logout, Load, Refresh, SendList, RunPipeline, ConsoleInv, Held
<1>4. CASE Reopen \/ \E f \in Filters : ChangeFilter(f)
  BY <1>4 DEF Reopen, ChangeFilter
<1>5. ASSUME NEW r \in Requests, ServerStep(r) \/ Receive(r) PROVE GateNext
  BY <1>5 DEF ServerStep, Receive, GateNext
<1>6. CASE Elsewhere \/ \E r \in Requests : Fail(r)
  BY <1>6 DEF GateNext
<1>7. CASE UNCHANGED consoleVars
  BY <1>7 DEF consoleVars
<1>. QED BY <1>1, <1>3, <1>4, <1>5, <1>6, <1>7 DEF ConsoleNext, UserStep

(* A new page holds nothing, and a token only if it was just issued.       *)
LEMMA NewPageHeld ==
  ASSUME ConsoleInv, NEW effect \in BOOLEAN, NewPage(effect), asked' = asked,
         session' \in Requests \cup {NoToken},
         (session # NoToken => Issued(session) /\ pc[session] = "received")',
         effect <=> session' # NoToken
  PROVE  Held' /\ Screen'
<1>1. /\ waits' = {} /\ shown' = 0 /\ filter' = NoFilter /\ due' = effect
      /\ held' = {session'} \ {NoToken}
      /\ asked' \in [Requests -> Filters]
  BY DEF NewPage, ConsoleInv, Held
<1>2. Held'
  BY <1>1, InitialFilter DEF Held
<1>3. Screen'
  BY <1>1 DEF Screen
<1>. QED BY <1>2, <1>3

(* A step of the gate alone leaves what the console holds.                 *)
LEMMA PageFrame ==
  ASSUME ConsoleInv, Screen, [GateNext]_gateVars, UNCHANGED <<session, page, asked>>
  PROVE  Held' /\ Screen'
<1>1. UNCHANGED <<session, filter, due, shown, loading, running, failed, waits, overlapped, held, asked>>
  BY DEF page
<1>2. \A q \in waits : q \in Requests /\ pc'[q] # "new" /\ kind'[q] = kind[q] /\ token'[q] = token[q]
  BY RequestsKept DEF ConsoleInv, Held
<1>3. session # NoToken => Issued(session)' /\ pc'[session] = "received"
  BY <1>1, RequestsKept DEF ConsoleInv, Held, Issued
<1>4. shown # 0 => /\ pc'[shown] = "received" /\ token'[shown] = token[shown]
                   /\ kind'[shown] = kind[shown]
  BY RequestsKept DEF ConsoleInv, Held
<1>5. Held'
  BY <1>1, <1>2, <1>3, <1>4 DEF ConsoleInv, Held
<1>6. Screen'
  BY <1>1, <1>2, <1>4 DEF Screen
<1>. QED BY <1>5, <1>6

(* Login and logout.                                                       *)
LEMMA SessionHeld ==
  ASSUME ConsoleInv, Screen, [GateNext]_gateVars, NEW r \in Requests, Login(r) \/ Logout(r)
  PROVE  Held' /\ Screen'
<1>1. CASE Login(r)
  <2>1. CASE UNCHANGED page
    BY <1>1, <2>1, PageFrame DEF Login
  <2>2. CASE session # NoToken /\ NewPage(TRUE)
    <3>1. (session # NoToken => Issued(session) /\ pc[session] = "received")'
      BY <1>1, <2>2, RequestsKept DEF Login, ConsoleInv, Held, Issued
    <3>. QED BY <1>1, <2>2, <3>1, NewPageHeld DEF Login, ConsoleInv, Held
  <2>. QED BY <1>1, <2>1, <2>2 DEF Login
<1>2. CASE Logout(r)
  BY <1>2, NewPageHeld DEF Logout
<1>. QED BY <1>1, <1>2

(* The dashboard is left and opened again.                                 *)
LEMMA ReopenHeld ==
  ASSUME ConsoleInv, Reopen
  PROVE  Held' /\ Screen'
<1>1. UNCHANGED <<pc, kind, answer, session>>
  BY DEF Reopen, gateVars, requests
<1>2. (session # NoToken => Issued(session) /\ pc[session] = "received")'
  BY <1>1 DEF ConsoleInv, Held, Issued
<1>. QED BY <1>1, <1>2, NewPageHeld DEF Reopen, ConsoleInv, Held

(* Another filter is selected, and its effect is due.                      *)
LEMMA ChangeFilterHeld ==
  ASSUME ConsoleInv, Screen, [GateNext]_gateVars, NEW f \in Filters, ChangeFilter(f)
  PROVE  Held' /\ Screen'
<1>1. /\ session # NoToken /\ filter' = f /\ due' = TRUE
      /\ UNCHANGED <<pc, kind, token, answer, session, shown, loading, running, failed, waits,
                     overlapped, held, asked>>
  BY DEF ChangeFilter, gateVars, requests
<1>2. Held'
  BY <1>1 DEF ConsoleInv, Held, Issued
<1>3. Screen'
  BY <1>1 DEF Screen
<1>. QED BY <1>2, <1>3

(* The dashboard sends a request, and now waits for it as well.            *)
LEMMA SendHeld ==
  ASSUME ConsoleInv, Screen, [GateNext]_gateVars, NEW r \in Requests,
         Load(r) \/ Refresh(r) \/ RunPipeline(r)
  PROVE  Held' /\ Screen'
<1>. DEFINE Lists == Load(r) \/ Refresh(r)
<1>0. /\ Lists => SendList(r)
      /\ session # NoToken
  BY DEF Load, Refresh, RunPipeline, ConsoleInv, Held
<1>1. \/ Lists /\ Send(r, "list", session)
      \/ ~Lists /\ RunPipeline(r) /\ Send(r, "run", session)
  BY <1>0 DEF SendList, RunPipeline
<1>2. /\ pc[r] = "new" /\ pc'[r] = "sent" /\ token'[r] = session
      /\ kind'[r] = IF Lists THEN "list" ELSE "run"
  BY <1>1 DEF Send, ConsoleInv, TypeInv, GateTypeOK
<1>3. /\ waits' = waits \cup {r} /\ session \in held
      /\ UNCHANGED <<session, filter, shown, held>>
      /\ asked' \in [Requests -> Filters]
      /\ \A q \in Requests : q # r => asked'[q] = asked[q]
      /\ Lists => asked'[r] = filter
  BY <1>0 DEF SendList, RunPipeline, ConsoleInv, Held
<1>4. \A q \in waits : /\ q \in Requests /\ q # r /\ pc'[q] # "new"
                       /\ kind'[q] = kind[q] /\ token'[q] = token[q]
  BY <1>2, RequestsKept DEF ConsoleInv, Held
<1>5. Issued(session)' /\ pc'[session] = "received"
  BY <1>0, <1>3, RequestsKept DEF ConsoleInv, Held, Issued
<1>6. shown # 0 => /\ pc'[shown] = "received" /\ token'[shown] = token[shown]
                   /\ kind'[shown] = kind[shown] /\ shown # r
  BY <1>2, RequestsKept DEF ConsoleInv, Held
<1>7. Held'
  BY <1>0, <1>1, <1>2, <1>3, <1>4, <1>5, <1>6 DEF ConsoleInv, Held
<1>8. Screen'
  <2>. SUFFICES ASSUME ~overlapped' PROVE
                  /\ \A p, q \in waits' : p = q
                  /\ \A q \in waits' : /\ kind'[q] = "list" => loading' /\ (due' \/ asked'[q] = filter')
                                       /\ kind'[q] = "run" => running'
                  /\ waits' # {}
    BY DEF Screen
  <2>1. waits = {}
    BY <1>0 DEF SendList, RunPipeline
  <2>2. waits' = {r}
    BY <1>3, <2>1
  <2>3. CASE Lists
    BY <1>0, <1>2, <1>3, <2>2, <2>3 DEF SendList
  <2>4. CASE RunPipeline(r) /\ ~Lists
    BY <1>2, <1>3, <2>2, <2>4 DEF RunPipeline
  <2>. QED BY <2>3, <2>4
<1>. QED BY <1>7, <1>8

(* An answer arrives: at the dashboard that waits for it, or at none.      *)
LEMMA ReceiveHeld ==
  ASSUME ConsoleInv, Screen, [GateNext]_gateVars, NEW r \in Requests, Receive(r)
  PROVE  Held' /\ Screen'
<1>0. /\ pc[r] = "answered" /\ pc'[r] = "received" /\ answer' = answer /\ kind' = kind
      /\ token' = token /\ asked' = asked
  BY DEF Receive, Arrives, ConsoleInv, TypeInv, GateTypeOK
<1>1. ASSUME NEW ok \in {answer[r] = "ok", FALSE}, ReceiveLogin(r, ok) PROVE Held' /\ Screen'
  <2>1. CASE ok
    <3>1. answer[r] = "ok" /\ kind[r] = "login" /\ session' = r
      BY <1>1, <2>1 DEF ReceiveLogin
    <3>2. (session # NoToken => Issued(session) /\ pc[session] = "received")'
      BY <1>0, <3>1 DEF Issued
    <3>3. r # NoToken
      BY GateBounds DEF Requests, NoToken
    <3>4. CASE session = NoToken
      BY <1>0, <1>1, <2>1, <3>1, <3>2, <3>3, <3>4, NewPageHeld DEF ReceiveLogin
    <3>5. CASE session # NoToken
      <4>1. /\ held' = held \cup {r}
            /\ UNCHANGED <<filter, due, shown, loading, running, failed, waits, overlapped>>
        BY <1>1, <2>1, <3>5 DEF ReceiveLogin
      <4>2. \A q \in Requests : /\ pc[q] # "new" => pc'[q] # "new"
                                /\ pc[q] = "received" => pc'[q] = "received"
        BY RequestsKept DEF ConsoleInv
      <4>3. Held'
        BY <1>0, <3>1, <3>2, <3>3, <3>5, <4>1, <4>2 DEF ConsoleInv, Held
      <4>4. Screen'
        BY <1>0, <3>5, <4>1 DEF Screen
      <4>. QED BY <4>3, <4>4
    <3>. QED BY <3>4, <3>5
  <2>2. CASE ~ok
    BY <1>0, <1>1, <2>2, PageFrame DEF ReceiveLogin
  <2>. QED BY <2>1, <2>2
<1>2. ASSUME NEW ok \in {answer[r] = "ok", FALSE}, ReceiveData(r, ok) PROVE Held' /\ Screen'
  <2>1. /\ r \in waits /\ waits' = waits \ {r}
        /\ shown' = (IF ok THEN r ELSE shown)
        /\ UNCHANGED <<session, filter, due, overlapped, held>>
    BY <1>2 DEF ReceiveData
  <2>2. \A q \in Requests : pc[q] \in {"received"} => pc'[q] = "received"
    BY RequestsKept DEF ConsoleInv
  <2>3. \A q \in waits : q \in Requests /\ pc'[q] # "new"
    BY RequestsKept DEF ConsoleInv, Held
  <2>4. Held'
    <3>1. session # NoToken => Issued(session)' /\ pc'[session] = "received"
      BY <1>0, <2>1, <2>2 DEF ConsoleInv, Held, Issued
    <3>2. shown' # 0 => pc'[shown'] = "received" /\ token'[shown'] \in held
      BY <1>0, <2>1, <2>2 DEF ConsoleInv, Held
    <3>. QED BY <1>0, <2>1, <2>3, <3>1, <3>2 DEF ConsoleInv, Held
  <2>5. Screen'
    <3>. SUFFICES ASSUME session # NoToken, ~overlapped
                  PROVE  /\ waits' = {}
                         /\ \/ due' \/ failed'
                            \/ shown' # 0 /\ (asked'[shown'] = filter' \/ kind'[shown'] = "run")
      BY <2>1 DEF Screen
    <3>1. waits' = {}
      BY <2>1 DEF Screen
    <3>2. CASE ok
      <4>1. shown' = r /\ r # 0
        BY <2>1, <3>2 DEF Requests
      <4>2. kind[r] \in {"list", "run"}
        BY <2>1 DEF ConsoleInv, Held
      <4>3. due \/ asked[r] = filter \/ kind[r] = "run"
        BY <2>1, <4>2 DEF Screen
      <4>. QED BY <1>0, <2>1, <3>1, <4>1, <4>3
    <3>3. CASE ~ok
      BY <1>2, <3>1, <3>3 DEF ReceiveData
    <3>. QED BY <3>2, <3>3
  <2>. QED BY <2>4, <2>5
<1>3. CASE Disregard(r)
  BY <1>0, <1>3, PageFrame DEF Disregard
<1>. QED BY <1>1, <1>2, <1>3 DEF Receive

(* Every step keeps what the console holds and what it shows.              *)
LEMMA ConsoleHeldNext == ConsoleInv /\ Screen /\ [ConsoleNext]_consoleVars => (ConsoleInv /\ Screen)'
<1>. SUFFICES ASSUME ConsoleInv, Screen, [ConsoleNext]_consoleVars PROVE (ConsoleInv /\ Screen)'
  OBVIOUS
<1>1. [GateNext]_gateVars
  BY ConsoleStep
<1>2. TypeInv'
  BY <1>1, GateTypeNext DEF ConsoleInv
<1>3. Held' /\ Screen'
  <2>1. CASE UserStep
    BY <1>1, <2>1, SessionHeld, ReopenHeld, SendHeld, ChangeFilterHeld DEF UserStep
  <2>2. CASE UNCHANGED <<session, page, asked>>
    BY <1>1, <2>2, PageFrame
  <2>3. ASSUME NEW r \in Requests, Receive(r) PROVE Held' /\ Screen'
    BY <1>1, <2>3, ReceiveHeld
  <2>. QED BY <2>1, <2>2, <2>3 DEF ConsoleNext, ServerStep, consoleVars
<1>. QED BY <1>2, <1>3 DEF ConsoleInv

(* The console is a client the gate is specified for: its steps are those  *)
(* of the gate, and what is proved of GateSpec holds of the console too.   *)
THEOREM ConsoleKeepsToGate == ConsoleSpec => GateSpec
<1>1. ConsoleInit => GateInit
  BY DEF ConsoleInit
<1>. QED BY <1>1, ConsoleHeldInit, ConsoleHeldNext, ConsoleStep, PTL DEF ConsoleSpec, GateSpec

(* Flags stay flags.                                                       *)
LEMMA FlagsNext == Flags /\ [ConsoleNext]_consoleVars => Flags'
<1>. SUFFICES ASSUME Flags, [ConsoleNext]_consoleVars PROVE Flags'
  OBVIOUS
<1>1. ASSUME NEW effect \in BOOLEAN, NewPage(effect) PROVE Flags'
  BY <1>1 DEF NewPage, Flags
<1>2. CASE UNCHANGED page
  BY <1>2 DEF page, Flags
<1>3. ASSUME NEW r \in Requests, Login(r) \/ Logout(r) PROVE Flags'
  BY <1>1, <1>2, <1>3 DEF Login, Logout
<1>4. CASE Reopen
  BY <1>1, <1>4 DEF Reopen
<1>5. ASSUME NEW f \in Filters, ChangeFilter(f) PROVE Flags'
  BY <1>5 DEF ChangeFilter, Flags
<1>6. ASSUME NEW r \in Requests, Load(r) \/ Refresh(r) \/ RunPipeline(r) PROVE Flags'
  BY <1>6 DEF Load, Refresh, SendList, RunPipeline, Flags
<1>7. ASSUME NEW r \in Requests, Receive(r) PROVE Flags'
  <2>1. ASSUME NEW ok \in {answer[r] = "ok", FALSE}, ReceiveLogin(r, ok) PROVE Flags'
    BY <1>1, <1>2, <2>1 DEF ReceiveLogin, Flags
  <2>2. ASSUME NEW ok \in {answer[r] = "ok", FALSE}, ReceiveData(r, ok) PROVE Flags'
    BY <2>2 DEF ReceiveData, Flags
  <2>3. CASE Disregard(r)
    BY <1>2, <2>3 DEF Disregard
  <2>. QED BY <1>7, <2>1, <2>2, <2>3 DEF Receive
<1>. QED BY <1>2, <1>3, <1>4, <1>5, <1>6, <1>7 DEF ConsoleNext, UserStep, ServerStep, consoleVars

(* Gate and console are well typed in every behavior.                      *)
THEOREM ConsoleTypeCorrect == ConsoleSpec => []TypeOK
<1>1. ConsoleInit => Flags
  BY DEF ConsoleInit, Flags
<1>2. ConsoleInv /\ Flags => TypeOK
  BY DEF ConsoleInv, Held, TypeInv, TypeOK
<1>. QED BY <1>1, <1>2, FlagsNext, ConsoleHeldInit, ConsoleHeldNext, PTL DEF ConsoleSpec

(* Whatever a dashboard shows was fetched with a token the client has held *)
(* since the dashboard was opened, the present one if no other login was   *)
(* answered meanwhile: in whatever order the answers of several logins and *)
(* of earlier dashboards arrive.                                           *)
THEOREM ScreensAreOwn == ConsoleSpec => []OwnSession
<1>1. ConsoleInv => OwnSession
  BY DEF ConsoleInv, Held, OwnSession
<1>. QED BY <1>1, ConsoleHeldInit, ConsoleHeldNext, PTL DEF ConsoleSpec

(* A dashboard without overlapping requests settles on what its filter     *)
(* selects, for any number of requests, filters and logins.                *)
THEOREM ScreensMatchFilter == ConsoleSpec => []PageMatchesFilter
<1>1. ConsoleInv /\ Screen => PageMatchesFilter
  <2>. SUFFICES ASSUME ConsoleInv, Screen, session # NoToken, ~overlapped, ~due, ~loading,
                       ~running, ~failed
                PROVE  shown # 0 /\ (asked[shown] = filter \/ kind[shown] = "run")
    BY DEF PageMatchesFilter
  <2>1. waits = {}
    BY DEF Screen, ConsoleInv, Held
  <2>. QED BY <2>1 DEF Screen
<1>. QED BY <1>1, ConsoleHeldInit, ConsoleHeldNext, PTL DEF ConsoleSpec

=============================================================================
