-------------------------- MODULE AuditChainProofs --------------------------
(***************************************************************************)
(* Machine-checked facts about AuditChain, for every set of tenants,       *)
(* requests and contents and every bound on the row ids.                   *)
(*                                                                         *)
(* The inductive invariant adds three things to the properties: a          *)
(* transaction only holds rows of the tenants it has touched; every table  *)
(* a request can see has a newest row; and, for a tenant without overlap,  *)
(* the rows a request sees form an intact chain whose last hash is the     *)
(* one the request has read.                                               *)
(***************************************************************************)
EXTENDS AuditChain, FiniteSetTheorems, TLAPS

HasLast(rows) == rows = {} \/ \E e \in rows : \A f \in rows : f.id <= e.id

IdsBelow ==
  /\ \A e \in audit_log : e.id < next_id
  /\ \A r \in Requests : \A e \in pending[r] : e.id < next_id

LastExists ==
  /\ \A t \in Tenants : HasLast(Of(audit_log, t))
  /\ \A r \in Requests, t \in Tenants : HasLast(Of(pending[r], t))

OwnRows ==
  \A r \in Requests :
    /\ pc[r] = "idle" => pending[r] = {} /\ touched[r] = {}
    /\ pc[r] # "idle" => tenant[r] \in touched[r]
    /\ \A e \in pending[r] : e.tenant \in touched[r]

LinkIn(rows, e) ==
  e.prev_hash = <<>> \/ \E f \in Before(rows, e) : e.prev_hash = f.entry_hash

PendingLinks ==
  \A r \in Requests :
    /\ \A e \in pending[r] : LinkIn(Visible(r), e)
    /\ pc[r] = "hashed" =>
         \/ prev_hash[r] = <<>>
         \/ \E f \in Of(Visible(r), tenant[r]) : prev_hash[r] = f.entry_hash

LinkInv == LinksResolve /\ PendingLinks

Alone(t) ==
  /\ \A r, q \in Requests : t \in touched[r] /\ t \in touched[q] => r = q
  /\ \A r \in Requests :
       /\ \A e \in Of(pending[r], t), f \in Of(audit_log, t) : f.id < e.id
       /\ VerifyChain(Visible(r), t)
       /\ pc[r] = "hashed" /\ tenant[r] = t =>
            prev_hash[r] = LastHash(Of(Visible(r), t))

ChainInv == \A t \in Tenants \ overlapped : VerifyChain(audit_log, t) /\ Alone(t)
-----------------------------------------------------------------------------
(* The hash of the last row is the hash of some row.                       *)
LEMMA LastHashIsARowHash ==
  ASSUME NEW rows, HasLast(rows), rows # {}
  PROVE  \E e \in rows : LastHash(rows) = e.entry_hash
<1>1. \E e \in rows : \A f \in rows : f.id <= e.id
  BY DEF HasLast
<1>2. DEFINE last == CHOOSE e \in rows : \A f \in rows : f.id <= e.id
<1>3. last \in rows
  BY <1>1
<1>4. LastHash(rows) = last.entry_hash
  BY DEF LastHash
<1>. QED BY <1>3, <1>4

(* verify_chain of a tenant looks at the rows of that tenant only.         *)
LEMMA ChainDependsOnOwnRows ==
  ASSUME NEW A, NEW B, NEW t, Of(A, t) = Of(B, t), VerifyChain(A, t)
  PROVE  VerifyChain(B, t)
<1>1. \A e \in Of(B, t) : Before(A, e) = Before(B, e)
  BY DEF Of, Before
<1>. QED BY <1>1 DEF VerifyChain

(* A row that follows the last hash and has the highest id keeps the chain *)
(* intact.                                                                 *)
LEMMA ChainExtends ==
  ASSUME NEW rows \in SUBSET Rows, NEW t \in Tenants, NEW new \in Rows,
         VerifyChain(rows, t), new.tenant = t,
         \A f \in Of(rows, t) : f.id < new.id,
         new.prev_hash = LastHash(Of(rows, t)),
         new.entry_hash = ComputeHash(t, new.content, new.prev_hash)
  PROVE  VerifyChain(rows \cup {new}, t)
<1>1. Before(rows \cup {new}, new) = Of(rows, t)
  BY DEF Before, Of, Rows
<1>2. ASSUME NEW e \in Of(rows, t) PROVE Before(rows \cup {new}, e) = Before(rows, e)
  BY DEF Before, Of, Rows
<1>3. \A e \in Of(rows \cup {new}, t) : e = new \/ e \in Of(rows, t)
  BY DEF Of
<1>. QED BY <1>1, <1>2, <1>3 DEF VerifyChain

(* Hashes are sequences whose last element tells contents apart.           *)
LEMMA HashInjective ==
  ASSUME NEW prev \in Hash, NEW t \in Tenants, NEW c, NEW d, c # d
  PROVE  ComputeHash(t, c, prev) # ComputeHash(t, d, prev)
  BY DEF ComputeHash, Hash
-----------------------------------------------------------------------------
(* Type correctness.                                                       *)
LEMMA InitTypeOK == Init => TypeOK
  BY DEF Init, TypeOK, Hash

(* The last hash of well-typed rows is a hash.                             *)
LEMMA LastHashType ==
  ASSUME NEW rows \in SUBSET Rows, HasLast(rows) PROVE LastHash(rows) \in Hash
<1>1. CASE rows = {}
  BY <1>1 DEF LastHash, Hash
<1>2. CASE rows # {}
  BY <1>2, LastHashIsARowHash DEF Rows
<1>. QED BY <1>1, <1>2

(* The row that record inserts is a row of the table.                      *)
LEMMA NewRowType ==
  ASSUME TypeOK, NEW r \in Requests, NEW c \in Contents
  PROVE  NewRow(r, c) \in Rows
<1>1. ComputeHash(tenant[r], c, prev_hash[r]) \in Hash
  BY DEF TypeOK, ComputeHash, Hash
<1>. QED BY <1>1 DEF TypeOK, NewRow, Rows

(* The rows a request reads for a tenant: the union of two sets that each  *)
(* have a last row has one.                                                *)
LEMMA VisibleHasLast ==
  ASSUME TypeOK, LastExists, NEW r \in Requests, NEW t \in Tenants
  PROVE  HasLast(Of(Visible(r), t))
<1>1. Of(Visible(r), t) = Of(audit_log, t) \cup Of(pending[r], t)
  BY DEF Of, Visible
<1>2. HasLast(Of(audit_log, t)) /\ HasLast(Of(pending[r], t))
  BY DEF LastExists
<1>3. \A e \in Of(audit_log, t) \cup Of(pending[r], t) : e.id \in Nat
  BY DEF TypeOK, Of, Rows
<1>. QED BY <1>1, <1>2, <1>3 DEF HasLast

(* What a request reads are rows.                                          *)
LEMMA VisibleType ==
  ASSUME TypeOK, NEW r \in Requests, NEW t \in Tenants
  PROVE  Visible(r) \in SUBSET Rows /\ Of(Visible(r), t) \in SUBSET Rows
  BY DEF TypeOK, Visible, Of

(* Every step keeps the types, the row ids below the sequence and a last   *)
(* row in every table a request can see.                                   *)
Basics == TypeOK /\ IdsBelow /\ LastExists /\ OwnRows

(* An empty table has the basic facts; reading, inserting, committing and  *)
(* rolling back keep them.                                                 *)
LEMMA InitBasics == Init => Basics
  BY DEF Init, Basics, TypeOK, IdsBelow, LastExists, OwnRows, HasLast, Of, Hash

(* Reading the last hash changes no row.                                   *)
LEMMA ReadKeepsBasics ==
  ASSUME Basics, NEW r \in Requests, NEW t \in Tenants, ReadLastHash(r, t)
  PROVE  Basics'
<1>1. LastHash(Of(Visible(r), t)) \in Hash
  BY VisibleHasLast, VisibleType, LastHashType DEF Basics
<1>2. TypeOK'
  BY <1>1 DEF Basics, TypeOK, ReadLastHash
<1>3. IdsBelow' /\ LastExists'
  BY DEF Basics, IdsBelow, LastExists, ReadLastHash, Of, HasLast
<1>4. OwnRows'
  BY DEF Basics, TypeOK, OwnRows, ReadLastHash
<1>. QED BY <1>2, <1>3, <1>4 DEF Basics

(* The inserted row takes the next id and belongs to its transaction.      *)
LEMMA InsertKeepsBasics ==
  ASSUME Basics, NEW r \in Requests, NEW c \in Contents, InsertEntry(r, c)
  PROVE  Basics'
<1>. DEFINE new == NewRow(r, c)
<1>1. new \in Rows /\ new.id = next_id /\ new.tenant = tenant[r]
  BY NewRowType DEF Basics, NewRow
<1>. HIDE DEF new
<1>2. pending' = [pending EXCEPT ![r] = @ \cup {new}]
  BY DEF InsertEntry, new
<1>3. \A q \in Requests : pending'[q] = IF q = r THEN pending[q] \cup {new} ELSE pending[q]
  BY <1>2 DEF Basics, TypeOK
<1>4. TypeOK'
  BY <1>1, <1>2 DEF Basics, TypeOK, InsertEntry
<1>u. /\ next_id' = next_id + 1 /\ audit_log' = audit_log /\ tenant' = tenant
      /\ touched' = touched /\ pc' = [pc EXCEPT ![r] = "recorded"] /\ pc[r] = "hashed"
  BY DEF InsertEntry
<1>5. IdsBelow'
  <2>1. \A e \in audit_log : e.id \in Nat /\ e.id < next_id
    BY DEF Basics, TypeOK, IdsBelow, Rows
  <2>2. \A q \in Requests : \A e \in pending[q] : e.id \in Nat /\ e.id < next_id
    BY DEF Basics, TypeOK, IdsBelow, Rows
  <2>3. next_id \in Nat
    BY DEF Basics, TypeOK
  <2>4. ASSUME NEW q \in Requests, NEW e \in pending'[q] PROVE e.id < next_id'
    <3>1. e \in pending[q] \/ e = new
      BY <1>3
    <3>. QED BY <1>1, <1>u, <2>2, <2>3, <3>1
  <2>5. \A e \in audit_log' : e.id < next_id'
    BY <1>u, <2>1, <2>3
  <2>. QED BY <2>4, <2>5 DEF IdsBelow
<1>6. LastExists'
  <2>1. ASSUME NEW t \in Tenants PROVE HasLast(Of(pending[r] \cup {new}, t))
    <3>1. \A e \in pending[r] : e.id < next_id /\ e.id \in Nat
      BY DEF Basics, IdsBelow, TypeOK, Rows
    <3>2. CASE new.tenant = t
      <4>1. new \in Of(pending[r] \cup {new}, t)
        BY <3>2 DEF Of
      <4>2. \A e \in Of(pending[r] \cup {new}, t) : e.id <= new.id
        BY <1>1, <3>1 DEF Of, Basics, TypeOK
      <4>. QED BY <4>1, <4>2 DEF HasLast
    <3>3. CASE new.tenant # t
      <4>1. Of(pending[r] \cup {new}, t) = Of(pending[r], t)
        BY <3>3 DEF Of
      <4>. QED BY <4>1 DEF Basics, LastExists
    <3>. QED BY <3>2, <3>3
  <2>2. \A q \in Requests, t \in Tenants : HasLast(Of(pending'[q], t))
    BY <1>3, <2>1 DEF Basics, LastExists
  <2>3. \A t \in Tenants : HasLast(Of(audit_log', t))
    BY <1>u DEF Basics, LastExists
  <2>. QED BY <2>2, <2>3 DEF LastExists
<1>7. OwnRows'
  <2>1. \A q \in Requests : pc'[q] = IF q = r THEN "recorded" ELSE pc[q]
    BY <1>u DEF Basics, TypeOK
  <2>2. tenant[r] \in touched[r]
    BY <1>u DEF Basics, OwnRows
  <2>3. ASSUME NEW q \in Requests, NEW e \in pending'[q] PROVE e.tenant \in touched[q]
    <3>1. e \in pending[q] \/ (q = r /\ e = new)
      BY <1>3
    <3>. QED BY <1>1, <2>2, <3>1 DEF Basics, OwnRows
  <2>4. \A q \in Requests : pc'[q] = "idle" => pending'[q] = {} /\ touched[q] = {}
    BY <1>3, <2>1 DEF Basics, OwnRows
  <2>5. \A q \in Requests : pc'[q] # "idle" => tenant[q] \in touched[q]
    BY <2>1, <2>2 DEF Basics, OwnRows
  <2>. QED BY <1>u, <2>3, <2>4, <2>5 DEF OwnRows
<1>. QED BY <1>4, <1>5, <1>6, <1>7 DEF Basics

(* A commit publishes the pending rows, a rollback drops them.             *)
LEMMA EndKeepsBasics ==
  ASSUME Basics, NEW r \in Requests, Commit(r) \/ Rollback(r)
  PROVE  Basics'
<1>1. TypeOK'
  <2>1. <<>> \in Hash
    BY DEF Hash
  <2>2. audit_log' \in SUBSET Rows
    BY DEF Basics, TypeOK, Commit, Rollback
  <2>3. EndTransaction(r)
    BY DEF Commit, Rollback
  <2>. QED BY <2>1, <2>2, <2>3 DEF Basics, TypeOK, EndTransaction
<1>2. \A q \in Requests : pending'[q] = IF q = r THEN {} ELSE pending[q]
  BY DEF Basics, TypeOK, Commit, Rollback, EndTransaction
<1>3. audit_log' = audit_log \/ audit_log' = Visible(r)
  BY DEF Commit, Rollback, Visible
<1>4. IdsBelow'
  BY <1>2, <1>3 DEF Basics, IdsBelow, Commit, Rollback, EndTransaction, Visible
<1>5. LastExists'
  <2>1. \A t \in Tenants : HasLast(Of(audit_log', t))
    BY <1>3, VisibleHasLast DEF Basics, LastExists
  <2>2. \A q \in Requests, t \in Tenants : HasLast(Of(pending'[q], t))
    BY <1>2 DEF Basics, LastExists, HasLast, Of
  <2>. QED BY <2>1, <2>2 DEF LastExists, Of, HasLast
<1>6. OwnRows'
  BY <1>2 DEF Basics, TypeOK, OwnRows, Commit, Rollback, EndTransaction
<1>. QED BY <1>1, <1>4, <1>5, <1>6 DEF Basics

(* Nothing changes in a stuttering step.                                   *)
LEMMA StutterKeepsBasics == Basics /\ UNCHANGED vars => Basics'
  BY DEF Basics, vars, TypeOK, IdsBelow, LastExists, OwnRows, HasLast, Of

(* So every step keeps the basic facts.                                    *)
LEMMA NextKeepsBasics == Basics /\ [Next]_vars => Basics'
  BY ReadKeepsBasics, InsertKeepsBasics, EndKeepsBasics, StutterKeepsBasics DEF Next

(* The audit table, the requests' local variables and the uncommitted rows *)
(* always have the types AuditService gives them.                          *)
THEOREM TypeCorrect == Spec => []TypeOK
<1>1. Spec => []Basics
  BY InitBasics, NextKeepsBasics, PTL DEF Spec
<1>2. Basics => TypeOK
  BY DEF Basics
<1>. QED BY <1>1, <1>2, PTL
-----------------------------------------------------------------------------
(* Links, one lemma per kind of step.                                      *)
LEMMA LinkInLarger ==
  ASSUME NEW A, NEW B, A \subseteq B, NEW e, LinkIn(A, e)
  PROVE  LinkIn(B, e)
  BY DEF LinkIn, Before

(* The hash that is read is the hash of a row the request sees.            *)
LEMMA ReadKeepsLinks ==
  ASSUME Basics, LinkInv, NEW r \in Requests, NEW t \in Tenants, ReadLastHash(r, t)
  PROVE  LinkInv'
<1>. DEFINE seen == Of(Visible(r), t)
<1>1. LastHash(seen) = <<>> \/ \E f \in seen : LastHash(seen) = f.entry_hash
  <2>1. HasLast(seen)
    BY VisibleHasLast DEF Basics
  <2>. QED BY <2>1, LastHashIsARowHash DEF LastHash
<1>2. /\ audit_log' = audit_log /\ pending' = pending
      /\ \A q \in Requests : Visible(q)' = Visible(q)
  BY DEF ReadLastHash, Visible
<1>3. /\ prev_hash'[r] = LastHash(seen) /\ tenant'[r] = t
      /\ \A q \in Requests \ {r} : prev_hash'[q] = prev_hash[q] /\ tenant'[q] = tenant[q]
                                 /\ pc'[q] = pc[q]
  BY DEF ReadLastHash, Basics, TypeOK
<1>. HIDE DEF seen
<1>4. LinksResolve'
  BY <1>2 DEF LinkInv, LinksResolve, Before
<1>5. ASSUME NEW q \in Requests, NEW e \in pending'[q] PROVE LinkIn(Visible(q), e)'
  BY <1>2 DEF LinkInv, PendingLinks, LinkIn, Before
<1>6. ASSUME NEW q \in Requests, pc'[q] = "hashed"
      PROVE  \/ prev_hash'[q] = <<>>
             \/ \E f \in Of(Visible(q)', tenant'[q]) : prev_hash'[q] = f.entry_hash
  <2>1. CASE q = r
    BY <2>1, <1>1, <1>2, <1>3 DEF seen
  <2>2. CASE q # r
    BY <2>2, <1>2, <1>3, <1>6 DEF LinkInv, PendingLinks
  <2>. QED BY <2>1, <2>2
<1>. QED BY <1>4, <1>5, <1>6 DEF LinkInv, PendingLinks

(* The new row links to the row whose hash was read.                       *)
LEMMA InsertKeepsLinks ==
  ASSUME Basics, LinkInv, NEW r \in Requests, NEW c \in Contents, InsertEntry(r, c)
  PROVE  LinkInv'
<1>. DEFINE new == NewRow(r, c)
<1>1. new.prev_hash = prev_hash[r] /\ new.id = next_id /\ new.tenant = tenant[r]
  BY DEF NewRow
<1>. HIDE DEF new
<1>2. /\ audit_log' = audit_log /\ tenant' = tenant /\ prev_hash' = prev_hash
      /\ \A q \in Requests : pending'[q] = IF q = r THEN pending[q] \cup {new} ELSE pending[q]
      /\ \A q \in Requests : pc'[q] = IF q = r THEN "recorded" ELSE pc[q]
      /\ pc[r] = "hashed"
  BY DEF InsertEntry, Basics, TypeOK, new
<1>3. \A q \in Requests : Visible(q) \subseteq Visible(q)'
  BY <1>2 DEF Visible
<1>4. LinkIn(Visible(r), new)
  <2>1. \A f \in Visible(r) : f.id < next_id
    BY DEF Basics, IdsBelow, Visible
  <2>2. \A f \in Of(Visible(r), tenant[r]) : f \in Before(Visible(r), new)
    BY <1>1, <2>1 DEF Of, Before
  <2>. QED BY <1>1, <1>2, <2>2 DEF LinkInv, PendingLinks, LinkIn
<1>5. LinksResolve'
  BY <1>2 DEF LinkInv, LinksResolve, Before
<1>6. ASSUME NEW q \in Requests, NEW e \in pending'[q] PROVE LinkIn(Visible(q), e)'
  <2>1. e \in pending[q] \/ (q = r /\ e = new)
    BY <1>2
  <2>2. LinkIn(Visible(q), e)
    BY <2>1, <1>4 DEF LinkInv, PendingLinks
  <2>3. LinkIn(Visible(q)', e)
    BY <1>3, <2>2, LinkInLarger
  <2>. QED BY <2>3
<1>7. ASSUME NEW q \in Requests, pc'[q] = "hashed"
      PROVE  \/ prev_hash'[q] = <<>>
             \/ \E f \in Of(Visible(q)', tenant'[q]) : prev_hash'[q] = f.entry_hash
  <2>1. pc[q] = "hashed"
    BY <1>2, <1>7
  <2>2. Of(Visible(q), tenant[q]) \subseteq Of(Visible(q)', tenant[q])
    BY <1>3 DEF Of
  <2>. QED BY <1>2, <2>1, <2>2 DEF LinkInv, PendingLinks
<1>. QED BY <1>5, <1>6, <1>7 DEF LinkInv, PendingLinks

(* Rows that a commit publishes link to committed rows.                    *)
LEMMA EndKeepsLinks ==
  ASSUME Basics, LinkInv, NEW r \in Requests, Commit(r) \/ Rollback(r)
  PROVE  LinkInv'
<1>1. /\ \A q \in Requests : pending'[q] = IF q = r THEN {} ELSE pending[q]
      /\ \A q \in Requests : pc'[q] = IF q = r THEN "idle" ELSE pc[q]
      /\ \A q \in Requests \ {r} : prev_hash'[q] = prev_hash[q]
      /\ tenant' = tenant
  BY DEF Commit, Rollback, EndTransaction, Basics, TypeOK
<1>2. audit_log' = audit_log \/ audit_log' = Visible(r)
  BY DEF Commit, Rollback, Visible
<1>3. audit_log \subseteq audit_log'
  BY <1>2 DEF Visible
<1>4. \A e \in audit_log' : LinkIn(audit_log', e)
  <2>1. \A e \in audit_log : LinkIn(audit_log, e)
    BY DEF LinkInv, LinksResolve, LinkIn
  <2>2. \A e \in audit_log : LinkIn(audit_log', e)
    BY <1>3, <2>1, LinkInLarger
  <2>3. \A e \in pending[r] : LinkIn(Visible(r), e)
    BY DEF LinkInv, PendingLinks
  <2>. QED BY <1>2, <2>2, <2>3 DEF Visible
<1>5. LinksResolve'
  BY <1>4 DEF LinksResolve, LinkIn, Before
<1>6. \A q \in Requests \ {r} : Visible(q) \subseteq Visible(q)'
  BY <1>1, <1>3 DEF Visible
<1>7. ASSUME NEW q \in Requests, NEW e \in pending'[q] PROVE LinkIn(Visible(q), e)'
  <2>1. q # r /\ e \in pending[q]
    BY <1>1
  <2>2. LinkIn(Visible(q), e)
    BY <2>1 DEF LinkInv, PendingLinks
  <2>3. LinkIn(Visible(q)', e)
    BY <1>6, <2>1, <2>2, LinkInLarger
  <2>. QED BY <2>3
<1>8. ASSUME NEW q \in Requests, pc'[q] = "hashed"
      PROVE  \/ prev_hash'[q] = <<>>
             \/ \E f \in Of(Visible(q)', tenant'[q]) : prev_hash'[q] = f.entry_hash
  <2>1. q # r /\ pc[q] = "hashed"
    BY <1>1, <1>8
  <2>2. Of(Visible(q), tenant[q]) \subseteq Of(Visible(q)', tenant[q])
    BY <1>6, <2>1 DEF Of
  <2>. QED BY <1>1, <2>1, <2>2 DEF LinkInv, PendingLinks
<1>. QED BY <1>5, <1>7, <1>8 DEF LinkInv, PendingLinks

(* Nothing changes in a stuttering step.                                   *)
LEMMA StutterKeepsLinks == LinkInv /\ UNCHANGED vars => LinkInv'
  BY DEF LinkInv, vars, LinksResolve, PendingLinks, LinkIn, Before, Of, Visible

(* Whatever requests overlap, crash or roll back, a committed entry        *)
(* follows the empty string or a committed entry with a smaller id.        *)
THEOREM LinksAlwaysResolve == Spec => []LinksResolve
<1>1. Init => LinkInv
  BY DEF Init, LinkInv, LinksResolve, PendingLinks
<1>2. Basics /\ LinkInv /\ [Next]_vars => LinkInv'
  BY ReadKeepsLinks, InsertKeepsLinks, EndKeepsLinks, StutterKeepsLinks DEF Next
<1>3. LinkInv => LinksResolve
  BY DEF LinkInv
<1>. QED BY <1>1, <1>2, <1>3, InitBasics, NextKeepsBasics, PTL DEF Spec
-----------------------------------------------------------------------------
(* The chain of a tenant whose transactions never overlapped.              *)
LEMMA ReadKeepsChain ==
  ASSUME Basics, ChainInv, NEW r \in Requests, NEW u \in Tenants, ReadLastHash(r, u)
  PROVE  ChainInv'
<1>1. SUFFICES ASSUME NEW t \in Tenants, t \notin overlapped'
               PROVE  VerifyChain(audit_log', t) /\ Alone(t)'
  BY DEF ChainInv
<1>2. t \notin overlapped /\ (u = t => ~Overlaps(r, t))
  BY <1>1 DEF ReadLastHash
<1>3. /\ audit_log' = audit_log /\ pending' = pending
      /\ \A q \in Requests : Visible(q)' = Visible(q)
  BY DEF ReadLastHash, Visible
<1>4. /\ prev_hash'[r] = LastHash(Of(Visible(r), u)) /\ tenant'[r] = u
      /\ \A q \in Requests \ {r} : prev_hash'[q] = prev_hash[q] /\ tenant'[q] = tenant[q]
                                 /\ pc'[q] = pc[q]
      /\ \A q \in Requests : touched'[q] = IF q = r THEN touched[q] \cup {u} ELSE touched[q]
  BY DEF ReadLastHash, Basics, TypeOK
<1>5. VerifyChain(audit_log, t) /\ Alone(t)
  BY <1>2 DEF ChainInv
<1>6. ASSUME NEW q \in Requests, NEW p \in Requests, t \in touched'[q], t \in touched'[p]
      PROVE  q = p
  <2>1. CASE t = u
    <3>1. \A s \in Requests \ {r} : t \notin touched'[s]
      BY <1>2, <1>4, <2>1 DEF Overlaps
    <3>. QED BY <1>6, <3>1
  <2>2. CASE t # u
    <3>1. t \in touched[q] /\ t \in touched[p]
      BY <1>4, <1>6, <2>2
    <3>. QED BY <1>5, <3>1 DEF Alone
  <2>. QED BY <2>1, <2>2
<1>7. ASSUME NEW q \in Requests, pc'[q] = "hashed", tenant'[q] = t
      PROVE  prev_hash'[q] = LastHash(Of(Visible(q)', t))
  <2>1. CASE q = r
    BY <2>1, <1>3, <1>4, <1>7
  <2>2. CASE q # r
    BY <2>2, <1>3, <1>4, <1>5, <1>7 DEF Alone
  <2>. QED BY <2>1, <2>2
<1>8. \A q \in Requests : \A e \in Of(pending'[q], t), f \in Of(audit_log', t) : f.id < e.id
  BY <1>3, <1>5 DEF Alone
<1>9. \A q \in Requests : VerifyChain(Visible(q)', t)
  BY <1>3, <1>5 DEF Alone
<1>. QED BY <1>3, <1>5, <1>6, <1>7, <1>8, <1>9 DEF Alone

(* The only recorder of a tenant extends its chain.                        *)
LEMMA InsertKeepsChain ==
  ASSUME Basics, ChainInv, NEW r \in Requests, NEW c \in Contents, InsertEntry(r, c)
  PROVE  ChainInv'
<1>. DEFINE new == NewRow(r, c)
<1>1. /\ new \in Rows /\ new.id = next_id /\ new.tenant = tenant[r]
      /\ new.prev_hash = prev_hash[r]
      /\ new.entry_hash = ComputeHash(tenant[r], new.content, prev_hash[r])
  BY NewRowType DEF NewRow, Basics
<1>. HIDE DEF new
<1>2. /\ audit_log' = audit_log /\ tenant' = tenant /\ prev_hash' = prev_hash
      /\ touched' = touched /\ overlapped' = overlapped
      /\ \A q \in Requests : pending'[q] = IF q = r THEN pending[q] \cup {new} ELSE pending[q]
      /\ \A q \in Requests : pc'[q] = IF q = r THEN "recorded" ELSE pc[q]
      /\ pc[r] = "hashed"
  BY DEF InsertEntry, Basics, TypeOK, new
<1>3. \A q \in Requests : Visible(q)' = IF q = r THEN Visible(q) \cup {new} ELSE Visible(q)
  BY <1>2 DEF Visible
<1>4. SUFFICES ASSUME NEW t \in Tenants, t \notin overlapped
               PROVE  VerifyChain(audit_log', t) /\ Alone(t)'
  BY <1>2 DEF ChainInv
<1>5. VerifyChain(audit_log, t) /\ Alone(t)
  BY <1>4 DEF ChainInv
<1>6. \A f \in Visible(r) : f.id < next_id
  BY DEF Basics, IdsBelow, Visible
<1>7. ASSUME NEW q \in Requests, NEW e \in Of(pending'[q], t), NEW f \in Of(audit_log', t)
      PROVE  f.id < e.id
  <2>1. e \in Of(pending[q], t) \/ e = new
    BY <1>2 DEF Of
  <2>2. f \in Of(audit_log, t) /\ f.id < next_id
    BY <1>2, <1>6 DEF Of, Visible
  <2>. QED BY <1>1, <1>5, <2>1, <2>2 DEF Alone
<1>8. ASSUME NEW q \in Requests PROVE VerifyChain(Visible(q)', t)
  <2>1. VerifyChain(Visible(q), t)
    BY <1>5 DEF Alone
  <2>2. CASE q = r /\ tenant[r] = t
    <3>1. prev_hash[r] = LastHash(Of(Visible(r), t))
      BY <1>2, <1>5, <2>2 DEF Alone
    <3>2. \A f \in Of(Visible(r), t) : f.id < new.id
      BY <1>1, <1>6 DEF Of
    <3>3. Visible(r) \in SUBSET Rows
      BY VisibleType DEF Basics
    <3>4. VerifyChain(Visible(r) \cup {new}, t)
      BY <1>1, <2>1, <2>2, <3>1, <3>2, <3>3, ChainExtends
    <3>. QED BY <1>3, <2>2, <3>4
  <2>3. CASE q # r \/ tenant[r] # t
    <3>1. Of(Visible(q)', t) = Of(Visible(q), t)
      BY <1>1, <1>3, <2>3 DEF Of
    <3>. QED BY <2>1, <3>1, ChainDependsOnOwnRows
  <2>. QED BY <2>2, <2>3
<1>9. \A q \in Requests : pc'[q] = "hashed" /\ tenant'[q] = t =>
        prev_hash'[q] = LastHash(Of(Visible(q)', t))
  BY <1>2, <1>3, <1>5 DEF Alone
<1>. QED BY <1>2, <1>5, <1>7, <1>8, <1>9 DEF Alone

(* Commit and rollback of the only recorder leave an intact chain.         *)
LEMMA EndKeepsChain ==
  ASSUME Basics, ChainInv, NEW r \in Requests, Commit(r) \/ Rollback(r)
  PROVE  ChainInv'
<1>1. /\ \A q \in Requests : pending'[q] = IF q = r THEN {} ELSE pending[q]
      /\ \A q \in Requests : touched'[q] = IF q = r THEN {} ELSE touched[q]
      /\ \A q \in Requests : pc'[q] = IF q = r THEN "idle" ELSE pc[q]
      /\ \A q \in Requests \ {r} : prev_hash'[q] = prev_hash[q]
      /\ tenant' = tenant /\ overlapped' = overlapped
  BY DEF Commit, Rollback, EndTransaction, Basics, TypeOK
<1>2. audit_log' = audit_log \/ audit_log' = Visible(r)
  BY DEF Commit, Rollback, Visible
<1>3. SUFFICES ASSUME NEW t \in Tenants, t \notin overlapped
               PROVE  VerifyChain(audit_log', t) /\ Alone(t)'
  BY <1>1 DEF ChainInv
<1>4. VerifyChain(audit_log, t) /\ Alone(t)
  BY <1>3 DEF ChainInv
<1>5. VerifyChain(audit_log', t)
  BY <1>2, <1>4 DEF Alone
<1>6. ASSUME NEW q \in Requests, NEW e \in Of(pending'[q], t)
      PROVE  q # r /\ Of(audit_log', t) = Of(audit_log, t)
  <2>1. q # r /\ e \in pending[q] /\ t \in touched[q]
    BY <1>1, <1>6 DEF Of, Basics, OwnRows
  <2>2. Of(pending[r], t) = {}
    BY <1>4, <2>1 DEF Of, Basics, OwnRows, Alone
  <2>. QED BY <1>2, <2>1, <2>2 DEF Of, Visible
<1>7. ASSUME NEW q \in Requests, NEW e \in Of(pending'[q], t), NEW f \in Of(audit_log', t)
      PROVE  f.id < e.id
  BY <1>1, <1>4, <1>6, <1>7 DEF Alone
<1>8. ASSUME NEW q \in Requests PROVE VerifyChain(Visible(q)', t)
  <2>1. CASE Of(pending'[q], t) = {}
    <3>1. Of(Visible(q)', t) = Of(audit_log', t)
      BY <2>1 DEF Of, Visible
    <3>. QED BY <1>5, <3>1, ChainDependsOnOwnRows
  <2>2. CASE Of(pending'[q], t) # {}
    <3>1. q # r /\ Of(audit_log', t) = Of(audit_log, t)
      BY <1>6, <2>2
    <3>2. Of(Visible(q)', t) = Of(Visible(q), t)
      BY <1>1, <3>1 DEF Of, Visible
    <3>. QED BY <1>4, <3>2, ChainDependsOnOwnRows DEF Alone
  <2>. QED BY <2>1, <2>2
<1>9. ASSUME NEW q \in Requests, pc'[q] = "hashed", tenant'[q] = t
      PROVE  prev_hash'[q] = LastHash(Of(Visible(q)', t))
  <2>1. q # r /\ pc[q] = "hashed" /\ tenant[q] = t /\ t \in touched[q]
    BY <1>1, <1>9 DEF Basics, OwnRows
  <2>2. Of(pending[r], t) = {}
    BY <1>4, <2>1 DEF Of, Basics, OwnRows, Alone
  <2>3. Of(Visible(q)', t) = Of(Visible(q), t)
    BY <1>1, <1>2, <2>1, <2>2 DEF Of, Visible
  <2>. QED BY <1>1, <1>4, <2>1, <2>3 DEF Alone
<1>10. \A q, p \in Requests : t \in touched'[q] /\ t \in touched'[p] => q = p
  BY <1>1, <1>4 DEF Alone
<1>. QED BY <1>5, <1>7, <1>8, <1>9, <1>10 DEF Alone

(* The chain of an empty table is intact.                                  *)
LEMMA InitChain == Init => ChainInv
  BY DEF Init, ChainInv, Alone, VerifyChain, Of, Visible

(* Nothing changes in a stuttering step.                                   *)
LEMMA StutterKeepsChain == ChainInv /\ UNCHANGED vars => ChainInv'
<1>. SUFFICES ASSUME ChainInv, UNCHANGED vars PROVE ChainInv'
  OBVIOUS
<1>1. \A q \in Requests : Visible(q)' = Visible(q)
  BY DEF vars, Visible
<1>. QED BY <1>1 DEF ChainInv, vars, Alone

(* verify_chain answers true for every tenant whose recording transactions *)
(* never overlapped, however many were rolled back.                        *)
THEOREM SerialChainAlwaysValid == Spec => []SerialChainValid
<1>1. Basics /\ ChainInv /\ [Next]_vars => ChainInv'
  BY ReadKeepsChain, InsertKeepsChain, EndKeepsChain, StutterKeepsChain DEF Next
<1>2. ChainInv => SerialChainValid
  BY DEF ChainInv, SerialChainValid
<1>. QED BY <1>1, <1>2, InitBasics, InitChain, NextKeepsBasics, PTL DEF Spec
-----------------------------------------------------------------------------
(* The table implements the append-only trail: what a request sees of a    *)
(* tenant without overlap extends what is committed of it.                 *)

GrowInv ==
  \A t \in Tenants \ overlapped, r \in Requests :
    Trail!Extends(LastHash(Of(Visible(r), t)), LastHash(Of(audit_log, t)))

(* A history extends itself, and appending to it extends it further.       *)
LEMMA ExtendsReflexive ==
  ASSUME NEW h \in Hash PROVE Trail!Extends(h, h)
BY DEF Trail!Extends, Hash

LEMMA ExtendsAppend ==
  ASSUME NEW h \in Hash, NEW g \in Hash, NEW t \in Tenants, NEW c \in Contents,
         Trail!Extends(g, h)
  PROVE  Trail!Extends(ComputeHash(t, c, g), h)
<1>1. Len(h) <= Len(g) /\ SubSeq(g, 1, Len(h)) = h
  BY DEF Trail!Extends
<1>2. ComputeHash(t, c, g) = Append(g, <<t, c>>)
  BY DEF ComputeHash
<1>. DEFINE longer == Append(g, <<t, c>>)
<1>3. Len(longer) = Len(g) + 1 /\ \A i \in 1..Len(g) : longer[i] = g[i]
  BY DEF Hash
<1>4. \A i \in 1..Len(h) : SubSeq(longer, 1, Len(h))[i] = SubSeq(g, 1, Len(h))[i]
  BY <1>1, <1>3 DEF Hash
<1>5. SubSeq(longer, 1, Len(h)) \in Hash /\ SubSeq(g, 1, Len(h)) \in Hash
  BY <1>1, <1>3 DEF Hash
<1>6. SubSeq(longer, 1, Len(h)) = h
  BY <1>1, <1>3, <1>4, <1>5 DEF Hash
<1>. QED BY <1>1, <1>2, <1>3, <1>6 DEF Trail!Extends, Hash

(* The last hash of a set to which the row with the highest id is added is *)
(* that row's.                                                             *)
LEMMA LastHashOfNewest ==
  ASSUME NEW rows \in SUBSET Rows, NEW new \in Rows, \A f \in rows : f.id < new.id
  PROVE  LastHash(rows \cup {new}) = new.entry_hash
<1>. DEFINE all == rows \cup {new}
            last == CHOOSE e \in all : \A f \in all : f.id <= e.id
<1>1. new \in all /\ \A f \in all : f.id <= new.id
  BY DEF Rows
<1>2. last \in all /\ \A f \in all : f.id <= last.id
  BY <1>1
<1>3. last = new
  BY <1>1, <1>2 DEF Rows
<1>. QED BY <1>1, <1>3 DEF LastHash

(* The hashes of what is committed and of what a request sees are hashes.  *)
LEMMA SeenHashes ==
  ASSUME Basics, NEW t \in Tenants, NEW r \in Requests
  PROVE  /\ LastHash(Of(audit_log, t)) \in Hash
         /\ LastHash(Of(Visible(r), t)) \in Hash
<1>1. HasLast(Of(audit_log, t)) /\ HasLast(Of(Visible(r), t))
  BY VisibleHasLast DEF Basics, LastExists
<1>2. Of(audit_log, t) \in SUBSET Rows /\ Of(Visible(r), t) \in SUBSET Rows
  BY VisibleType DEF Basics, TypeOK, Of
<1>. QED BY <1>1, <1>2, LastHashType

(* A recorder that is alone extends what it has read.                      *)
LEMMA InsertGrows ==
  ASSUME Basics, ChainInv, GrowInv, NEW r \in Requests, NEW c \in Contents,
         InsertEntry(r, c)
  PROVE  GrowInv'
<1>. DEFINE new == NewRow(r, c)
<1>1. /\ new \in Rows /\ new.id = next_id /\ new.tenant = tenant[r]
      /\ new.entry_hash = ComputeHash(tenant[r], c, prev_hash[r])
  BY NewRowType DEF NewRow, Basics
<1>. HIDE DEF new
<1>2. /\ audit_log' = audit_log /\ overlapped' = overlapped /\ pc[r] = "hashed"
      /\ \A q \in Requests : pending'[q] = IF q = r THEN pending[q] \cup {new} ELSE pending[q]
  BY DEF InsertEntry, Basics, TypeOK, new
<1>3. \A q \in Requests : Visible(q)' = IF q = r THEN Visible(q) \cup {new} ELSE Visible(q)
  BY <1>2 DEF Visible
<1>4. SUFFICES ASSUME NEW t \in Tenants, t \notin overlapped, NEW q \in Requests
               PROVE  Trail!Extends(LastHash(Of(Visible(q)', t)), LastHash(Of(audit_log, t)))
  BY <1>2 DEF GrowInv
<1>5. Trail!Extends(LastHash(Of(Visible(q), t)), LastHash(Of(audit_log, t)))
  BY <1>4 DEF GrowInv
<1>6. CASE q = r /\ tenant[r] = t
  <2>1. prev_hash[r] = LastHash(Of(Visible(r), t))
    BY <1>2, <1>4, <1>6 DEF ChainInv, Alone
  <2>2. Of(Visible(r)', t) = Of(Visible(r), t) \cup {new}
    BY <1>1, <1>3, <1>6 DEF Of
  <2>3. \A f \in Of(Visible(r), t) : f.id < new.id
    BY <1>1 DEF Basics, IdsBelow, Visible, Of
  <2>4. Of(Visible(r), t) \in SUBSET Rows
    BY VisibleType DEF Basics
  <2>5. LastHash(Of(Visible(r)', t)) = ComputeHash(t, c, LastHash(Of(Visible(r), t)))
    BY <1>1, <1>6, <2>1, <2>2, <2>3, <2>4, LastHashOfNewest
  <2>. QED BY <1>5, <1>6, <2>5, SeenHashes, ExtendsAppend
<1>7. CASE q # r \/ tenant[r] # t
  <2>1. Of(Visible(q)', t) = Of(Visible(q), t)
    BY <1>1, <1>3, <1>7 DEF Of
  <2>. QED BY <1>5, <2>1
<1>. QED BY <1>6, <1>7

(* The end of a transaction of a tenant's only recorder: others see of the *)
(* tenant what is committed.                                               *)
LEMMA EndGrows ==
  ASSUME Basics, ChainInv, GrowInv, NEW r \in Requests, Commit(r) \/ Rollback(r)
  PROVE  GrowInv'
<1>1. /\ \A q \in Requests : pending'[q] = IF q = r THEN {} ELSE pending[q]
      /\ overlapped' = overlapped
  BY DEF Commit, Rollback, EndTransaction, Basics, TypeOK
<1>2. audit_log' = audit_log \/ audit_log' = Visible(r)
  BY DEF Commit, Rollback, Visible
<1>3. SUFFICES ASSUME NEW t \in Tenants, t \notin overlapped, NEW q \in Requests
               PROVE  Trail!Extends(LastHash(Of(Visible(q)', t)), LastHash(Of(audit_log', t)))
  BY <1>1 DEF GrowInv
<1>4. CASE Of(pending'[q], t) = {}
  <2>1. Of(Visible(q)', t) = Of(audit_log', t)
    BY <1>4 DEF Of, Visible
  <2>2. LastHash(Of(audit_log', t)) \in Hash
    BY <1>2, SeenHashes
  <2>. QED BY <2>1, <2>2, ExtendsReflexive
<1>5. CASE Of(pending'[q], t) # {}
  <2>1. q # r /\ t \in touched[q] /\ pending'[q] = pending[q]
    BY <1>1, <1>5 DEF Of, Basics, OwnRows
  <2>2. Of(pending[r], t) = {}
    BY <1>3, <2>1 DEF Of, Basics, OwnRows, ChainInv, Alone
  <2>3. Of(audit_log', t) = Of(audit_log, t) /\ Of(Visible(q)', t) = Of(Visible(q), t)
    BY <1>2, <2>1, <2>2 DEF Of, Visible
  <2>. QED BY <1>3, <2>3 DEF GrowInv
<1>. QED BY <1>4, <1>5

(* Nothing is committed and nothing seen at first.                         *)
LEMMA InitGrow == Init => GrowInv
<1>. SUFFICES ASSUME Init, NEW t \in Tenants, NEW r \in Requests
              PROVE  Trail!Extends(LastHash(Of(Visible(r), t)), LastHash(Of(audit_log, t)))
  BY DEF GrowInv
<1>1. Of(Visible(r), t) = {} /\ Of(audit_log, t) = {}
  BY DEF Init, Visible, Of
<1>2. LastHash({}) = <<>> /\ <<>> \in Hash
  BY DEF LastHash, Hash
<1>. QED BY <1>1, <1>2, ExtendsReflexive

(* Every step keeps it; reading changes nothing that is seen.              *)
LEMMA NextGrows == Basics /\ ChainInv /\ GrowInv /\ [Next]_vars => GrowInv'
<1>1. ASSUME GrowInv, overlapped \subseteq overlapped', audit_log' = audit_log, pending' = pending
      PROVE  GrowInv'
  <2>1. \A q \in Requests : Visible(q)' = Visible(q)
    BY <1>1 DEF Visible
  <2>. QED BY <1>1, <2>1 DEF GrowInv
<1>2. ASSUME NEW r \in Requests, NEW t \in Tenants, GrowInv, ReadLastHash(r, t) PROVE GrowInv'
  BY <1>1, <1>2 DEF ReadLastHash
<1>3. ASSUME GrowInv, UNCHANGED vars PROVE GrowInv'
  BY <1>1, <1>3 DEF vars
<1>. QED BY <1>2, <1>3, InsertGrows, EndGrows DEF Next

(* A step of the table is a step of the trail: only a commit changes a     *)
(* history, and it extends it by what the transaction has recorded.        *)
LEMMA StepOfTrail ==
  ASSUME Basics, GrowInv, [Next]_vars
  PROVE  [Trail!Record]_(Trail!vars)
<1>1. overlapped \subseteq overlapped'
  BY DEF Next, ReadLastHash, InsertEntry, Commit, Rollback, EndTransaction, vars
<1>2. ASSUME NEW t \in Tenants, t \notin overlapped'
      PROVE  Trail!Extends(LastHash(Of(audit_log', t)), LastHash(Of(audit_log, t)))
  <2>1. audit_log' = audit_log \/ \E r \in Requests : audit_log' = Visible(r)
    BY DEF Next, ReadLastHash, InsertEntry, Commit, Rollback, vars, Visible
  <2>2. CASE audit_log' = audit_log
    <3>1. CASE Requests = {}
      <4>1. LastHash(Of(audit_log, t)) \in Hash
        BY LastHashType DEF Basics, LastExists, TypeOK, Of
      <4>. QED BY <2>2, <4>1, ExtendsReflexive
    <3>2. CASE Requests # {}
      BY <2>2, <3>2, SeenHashes, ExtendsReflexive
    <3>. QED BY <3>1, <3>2
  <2>3. CASE \E r \in Requests : audit_log' = Visible(r)
    BY <1>1, <1>2, <2>3 DEF GrowInv
  <2>. QED BY <2>1, <2>2, <2>3
<1>3. Trail!Record
  BY <1>1, <1>2 DEF Trail!Record
<1>. QED BY <1>3

(* The audit table is an append-only trail for every tenant whose          *)
(* recording transactions did not overlap, for any number of requests,     *)
(* entries and rollbacks (AuditService.record).                            *)
THEOREM TableImplementsTrail == Spec => ImplementsTrail
<1>1. Init => Trail!Init
  <2>1. ASSUME Init PROVE \A t \in Tenants : LastHash(Of(audit_log, t)) = <<>>
    BY <2>1 DEF Init, Of, LastHash
  <2>. QED BY <2>1 DEF Init, Trail!Init
<1>2. Basics /\ ChainInv /\ [Next]_vars => ChainInv'
  BY ReadKeepsChain, InsertKeepsChain, EndKeepsChain, StutterKeepsChain DEF Next
<1>. QED
  BY <1>1, <1>2, InitBasics, InitChain, InitGrow, NextKeepsBasics, NextGrows, StepOfTrail, PTL
  DEF Spec, ImplementsTrail, Trail!Spec
-----------------------------------------------------------------------------
(* What verify_chain notices.  The rows of a table have ids of their own,  *)
(* hash to what record computed, and follow earlier rows.                  *)

IdsUnique(rows) == \A e, f \in rows : e.id = f.id => e = f

Hashed(rows) == \A e \in rows : e.entry_hash = ComputeHash(e.tenant, e.content, e.prev_hash)

Recorded(rows) ==
  /\ rows \in SUBSET Rows
  /\ IdsUnique(rows)
  /\ Hashed(rows)
  /\ \A e \in rows : LinkIn(rows, e)

(* A nonempty set of numbers has a least one: the intervals below its      *)
(* members are well-founded by inclusion.                                  *)
LEMMA LeastNumber ==
  ASSUME NEW S \in SUBSET Nat, S # {}
  PROVE  \E n \in S : \A k \in S : n <= k
<1>. DEFINE T == {0..n : n \in S}
            R == StrictSubsetOrdering(Nat)
<1>1. IsWellFoundedOn(R, FiniteSubsetsOf(Nat))
  BY FS_StrictSubsetOrderingWellFounded
<1>2. T \subseteq FiniteSubsetsOf(Nat) /\ T # {}
  <2>1. ASSUME NEW n \in S PROVE 0..n \in FiniteSubsetsOf(Nat)
    <3>1. IsFiniteSet(0..n)
      BY FS_Interval
    <3>2. 0..n \in SUBSET Nat
      OBVIOUS
    <3>. QED BY <3>1, <3>2 DEF FiniteSubsetsOf
  <2>. QED BY <2>1
<1>3. \E x \in T : \A y \in T : ~(<<y, x>> \in R)
  <2>. HIDE DEF T, R
  <2>. QED BY <1>1, <1>2, WFMin
<1>4. PICK n \in S : \A k \in S : ~(<<0..k, 0..n>> \in StrictSubsetOrdering(Nat))
  BY <1>3
<1>5. ASSUME NEW k \in S, k < n PROVE FALSE
  <2>. DEFINE a == 0..k
              b == 0..n
  <2>1. n \in b /\ n \notin a
    BY <1>5
  <2>2. a \in SUBSET Nat /\ b \in SUBSET Nat /\ a \subseteq b /\ a # b
    BY <1>5, <2>1
  <2>. HIDE DEF a, b
  <2>3. <<a, b>> \in StrictSubsetOrdering(Nat)
    BY <2>2 DEF StrictSubsetOrdering
  <2>. QED BY <1>4, <2>3 DEF a, b
<1>. QED BY <1>4, <1>5

(* So rows have a first one, and a last one if their ids are bounded.      *)
LEMMA FirstRow ==
  ASSUME NEW rows \in SUBSET Rows, rows # {}
  PROVE  \E e \in rows : \A f \in rows : e.id <= f.id
<1>. DEFINE S == {e.id : e \in rows}
<1>1. S \in SUBSET Nat /\ S # {}
  BY DEF Rows
<1>. HIDE DEF S
<1>2. PICK n \in S : \A k \in S : n <= k
  BY <1>1, LeastNumber
<1>. QED BY <1>2 DEF S

LEMMA LastRow ==
  ASSUME NEW rows \in SUBSET Rows, NEW bound \in Nat, \A f \in rows : f.id < bound
  PROVE  HasLast(rows)
<1>1. CASE rows = {}
  BY <1>1 DEF HasLast
<1>2. CASE rows # {}
  <2>. DEFINE S == {bound - e.id : e \in rows}
  <2>1. S \in SUBSET Nat /\ S # {}
    BY <1>2 DEF Rows
  <2>. HIDE DEF S
  <2>2. PICK n \in S : \A k \in S : n <= k
    BY <2>1, LeastNumber
  <2>3. PICK e \in rows : n = bound - e.id
    BY <2>2 DEF S
  <2>4. ASSUME NEW f \in rows PROVE f.id <= e.id
    <3>1. n <= bound - f.id
      BY <2>2 DEF S
    <3>2. e.id \in Nat /\ f.id \in Nat
      BY DEF Rows
    <3>. QED BY <2>3, <3>1, <3>2
  <2>. QED BY <2>4 DEF HasLast
<1>. QED BY <1>1, <1>2

(* The last hash is that of the row with the highest id.                   *)
LEMMA LastHashIs ==
  ASSUME NEW rows \in SUBSET Rows, IdsUnique(rows), NEW e \in rows,
         \A f \in rows : f.id <= e.id
  PROVE  LastHash(rows) = e.entry_hash
<1>. DEFINE last == CHOOSE x \in rows : \A f \in rows : f.id <= x.id
<1>1. last \in rows /\ \A f \in rows : f.id <= last.id
  OBVIOUS
<1>2. last = e
  BY <1>1 DEF IdsUnique, Rows
<1>. QED BY <1>2 DEF LastHash

(* The rows before a row are rows with ids of their own, and have a last.  *)
LEMMA BeforeType ==
  ASSUME NEW rows, Recorded(rows), NEW e \in rows
  PROVE  /\ Before(rows, e) \in SUBSET Rows
         /\ IdsUnique(Before(rows, e))
         /\ HasLast(Before(rows, e))
<1>1. Before(rows, e) \in SUBSET Rows /\ IdsUnique(Before(rows, e)) /\ e.id \in Nat
  BY DEF Before, Recorded, IdsUnique, Rows
<1>. QED BY <1>1, LastRow DEF Before

(* A hash is longer than the one it was computed from.                     *)
LEMMA EntryHashLonger ==
  ASSUME NEW rows, Recorded(rows), NEW e \in rows
  PROVE  /\ e.prev_hash \in Hash /\ e.entry_hash # e.prev_hash
         /\ Len(e.prev_hash) \in Nat /\ Len(e.entry_hash) = Len(e.prev_hash) + 1
<1>1. e \in Rows /\ e.entry_hash = Append(e.prev_hash, <<e.tenant, e.content>>)
  BY DEF Recorded, Hashed, ComputeHash
<1>2. e.prev_hash \in Hash
  BY <1>1 DEF Rows
<1>3. Len(Append(e.prev_hash, <<e.tenant, e.content>>)) = Len(e.prev_hash) + 1
      /\ Len(e.prev_hash) \in Nat
  BY <1>2 DEF Hash
<1>. QED BY <1>1, <1>2, <1>3

(* Along an intact chain the hashes grow: of the first row that follows an *)
(* earlier one without a longer hash, the row before is such a row too.    *)
LEMMA ChainGrows ==
  ASSUME NEW rows, Recorded(rows), NEW t, VerifyChain(rows, t),
         NEW e \in Of(rows, t), NEW f \in Of(rows, t), e.id < f.id
  PROVE  Len(e.prev_hash) < Len(f.prev_hash)
<1>. DEFINE Bad == {g \in Of(rows, t) : \E d \in Of(rows, t) :
                      d.id < g.id /\ ~(Len(d.prev_hash) < Len(g.prev_hash))}
<1>. SUFFICES ASSUME Bad # {} PROVE FALSE
  OBVIOUS
<1>1. Of(rows, t) \subseteq rows /\ Of(rows, t) \in SUBSET Rows
  BY DEF Of, Recorded
<1>2. Bad \in SUBSET Rows
  BY <1>1
<1>. HIDE DEF Bad
<1>3. PICK g \in Bad : \A h \in Bad : g.id <= h.id
  BY <1>2, FirstRow
<1>4. PICK d \in Of(rows, t) : d.id < g.id /\ ~(Len(d.prev_hash) < Len(g.prev_hash))
  BY <1>3 DEF Bad
<1>5. g \in Of(rows, t) /\ g \in rows /\ d \in rows
  BY <1>1, <1>3 DEF Bad
<1>6. d \in Before(rows, g)
  BY <1>4, <1>5 DEF Before, Of
<1>7. PICK k \in Before(rows, g) : \A h \in Before(rows, g) : h.id <= k.id
  BY <1>5, <1>6, BeforeType DEF HasLast
<1>8. k \in Of(rows, t) /\ k \in rows /\ k.id < g.id
  BY <1>5, <1>7 DEF Before, Of
<1>9. g.prev_hash = k.entry_hash
  BY <1>5, <1>7, BeforeType, LastHashIs DEF VerifyChain
<1>10. Len(g.prev_hash) = Len(k.prev_hash) + 1 /\ Len(k.prev_hash) \in Nat /\ Len(d.prev_hash) \in Nat
  BY <1>5, <1>8, <1>9, EntryHashLonger
<1>11. d.id \in Nat /\ k.id \in Nat /\ g.id \in Nat
  BY <1>1, <1>5, <1>8 DEF Rows, Recorded
<1>12. CASE d.id = k.id
  <2>1. d = k
    BY <1>5, <1>8, <1>12 DEF Recorded, IdsUnique
  <2>. QED BY <1>4, <1>10, <2>1
<1>13. CASE d.id < k.id
  <2>1. k \notin Bad
    BY <1>3, <1>8, <1>11
  <2>2. Len(d.prev_hash) < Len(k.prev_hash)
    BY <1>8, <1>13, <2>1 DEF Bad
  <2>. QED BY <1>4, <1>10, <2>2
<1>. QED BY <1>6, <1>7, <1>11, <1>12, <1>13

(* An intact chain has no fork.                                            *)
LEMMA IntactUnforked ==
  ASSUME NEW rows, Recorded(rows), NEW t, VerifyChain(rows, t),
         NEW e \in Of(rows, t), NEW f \in Of(rows, t), e # f
  PROVE  e.prev_hash # f.prev_hash
<1>1. e \in rows /\ f \in rows /\ e.id \in Nat /\ f.id \in Nat
  BY DEF Of, Recorded, Rows
<1>2. e.id < f.id \/ f.id < e.id
  BY <1>1 DEF Recorded, IdsUnique
<1>3. Len(e.prev_hash) < Len(f.prev_hash) \/ Len(f.prev_hash) < Len(e.prev_hash)
  BY <1>2, ChainGrows
<1>4. Len(e.prev_hash) \in Nat /\ Len(f.prev_hash) \in Nat
  BY <1>1, EntryHashLonger
<1>. QED BY <1>3, <1>4

(* A chain without a fork is intact: the first row that does not follow    *)
(* the one before it follows what an earlier row follows already.          *)
LEMMA UnforkedIntact ==
  ASSUME NEW rows, Recorded(rows), NEW t,
         \A e, f \in Of(rows, t) : e # f => e.prev_hash # f.prev_hash
  PROVE  VerifyChain(rows, t)
<1>. DEFINE Bad == {e \in Of(rows, t) : e.prev_hash # LastHash(Before(rows, e))}
<1>1. Of(rows, t) \subseteq rows /\ Of(rows, t) \in SUBSET Rows
  BY DEF Of, Recorded
<1>2. SUFFICES Bad = {}
  BY <1>1 DEF VerifyChain, Recorded, Hashed, Of
<1>. SUFFICES ASSUME Bad # {} PROVE FALSE
  OBVIOUS
<1>3. Bad \in SUBSET Rows
  BY <1>1
<1>. HIDE DEF Bad
<1>4. PICK e \in Bad : \A g \in Bad : e.id <= g.id
  BY <1>3, FirstRow
<1>5. e \in Of(rows, t) /\ e \in rows /\ e.id \in Nat
  BY <1>1, <1>4 DEF Bad, Rows
<1>. DEFINE P == Before(rows, e)
<1>6. /\ P \in SUBSET Rows /\ IdsUnique(P) /\ HasLast(P) /\ P \subseteq Of(rows, t)
      /\ \A g \in P : g.id \in Nat /\ g.id < e.id /\ g # e
  BY <1>5, BeforeType DEF Before, Of, Rows
<1>7. \A g \in P : g.prev_hash = LastHash(Before(rows, g)) /\ g.prev_hash # e.prev_hash
  <2>1. ASSUME NEW g \in P PROVE g \notin Bad
    BY <1>4, <1>5, <1>6, <2>1
  <2>. QED BY <1>5, <1>6, <2>1 DEF Bad
<1>8. e.prev_hash # LastHash(P)
  BY <1>4 DEF Bad
<1>9. \A g \in P : \A h \in Before(rows, g) : h \in P /\ h.id < g.id
  BY <1>1, <1>5, <1>6 DEF Before, Of, Rows
<1>10. CASE e.prev_hash = <<>>
  <2>1. P # {}
    BY <1>8, <1>10 DEF LastHash
  <2>2. PICK g \in P : \A h \in P : g.id <= h.id
    BY <1>6, <2>1, FirstRow
  <2>3. Before(rows, g) = {}
    BY <1>6, <1>9, <2>2
  <2>. QED BY <1>7, <1>10, <2>3 DEF LastHash
<1>11. CASE \E f \in P : e.prev_hash = f.entry_hash
  <2>1. PICK f \in P : e.prev_hash = f.entry_hash
    BY <1>11
  <2>. DEFINE Later == {g \in P : f.id < g.id}
  <2>2. CASE Later = {}
    <3>1. \A g \in P : g.id <= f.id
      BY <1>6, <2>2
    <3>. QED BY <1>6, <1>8, <2>1, <3>1, LastHashIs
  <2>3. CASE Later # {}
    <3>1. Later \in SUBSET Rows
      BY <1>6
    <3>2. PICK g \in Later : \A h \in Later : g.id <= h.id
      BY <2>3, <3>1, FirstRow
    <3>3. g \in P /\ g \in rows /\ f \in Before(rows, g)
      BY <1>5, <1>6, <3>2 DEF Before, Of
    <3>4. \A h \in Before(rows, g) : h.id <= f.id
      BY <1>6, <1>9, <3>2, <3>3
    <3>5. LastHash(Before(rows, g)) = f.entry_hash
      BY <3>3, <3>4, BeforeType, LastHashIs
    <3>. QED BY <1>7, <2>1, <3>3, <3>5
  <2>. QED BY <2>2, <2>3
<1>12. e.prev_hash = <<>> \/ \E f \in P : e.prev_hash = f.entry_hash
  BY <1>5 DEF Recorded, LinkIn
<1>. QED BY <1>10, <1>11, <1>12

(* Every row, committed or not, has an id of its own and the hash that     *)
(* record computed for it.                                                 *)
Everything == audit_log \cup UNION {pending[r] : r \in Requests}

RowInv == IdsUnique(Everything) /\ Hashed(Everything)

LEMMA RowInvNext == Basics /\ RowInv /\ [Next]_vars => RowInv'
<1>. SUFFICES ASSUME Basics, RowInv, [Next]_vars PROVE RowInv'
  OBVIOUS
<1>1. ASSUME Everything' \subseteq Everything PROVE RowInv'
  BY <1>1 DEF RowInv, IdsUnique, Hashed
<1>2. ASSUME audit_log' = audit_log, pending' = pending PROVE RowInv'
  BY <1>1, <1>2 DEF Everything
<1>3. ASSUME NEW r \in Requests, NEW c \in Contents, InsertEntry(r, c) PROVE RowInv'
  <2>. DEFINE new == NewRow(r, c)
  <2>1. new.id = next_id /\ new.entry_hash = ComputeHash(new.tenant, new.content, new.prev_hash)
    BY DEF NewRow
  <2>. HIDE DEF new
  <2>2. audit_log' = audit_log /\ pending' = [pending EXCEPT ![r] = pending[r] \cup {new}]
    BY <1>3 DEF InsertEntry, new
  <2>3. \A q \in Requests : pending'[q] = IF q = r THEN pending[q] \cup {new} ELSE pending[q]
    BY <2>2 DEF Basics, TypeOK
  <2>4. Everything' \subseteq Everything \cup {new}
    BY <2>2, <2>3 DEF Everything
  <2>5. \A e \in Everything : e.id < next_id /\ e.id \in Nat /\ next_id \in Nat
    BY DEF Everything, Basics, TypeOK, IdsBelow, Rows
  <2>. QED BY <2>1, <2>4, <2>5 DEF RowInv, IdsUnique, Hashed
<1>4. ASSUME NEW r \in Requests, Commit(r) \/ Rollback(r) PROVE RowInv'
  <2>1. \A q \in Requests : pending'[q] \subseteq pending[q]
    BY <1>4 DEF Commit, Rollback, EndTransaction, Basics, TypeOK
  <2>2. audit_log' \subseteq audit_log \cup pending[r]
    BY <1>4 DEF Commit, Rollback
  <2>. QED BY <1>1, <2>1, <2>2 DEF Everything
<1>. QED BY <1>2, <1>3, <1>4 DEF Next, ReadLastHash, vars

(* The committed table is one that verify_chain can judge.                 *)
LEMMA TableRecorded == Spec => [](Basics /\ Recorded(audit_log))
<1>1. Init => RowInv
  BY DEF Init, RowInv, Everything, IdsUnique, Hashed
<1>2. Basics /\ RowInv /\ LinksResolve => Recorded(audit_log)
  <2>. SUFFICES ASSUME Basics, RowInv, LinksResolve PROVE Recorded(audit_log)
    OBVIOUS
  <2>1. audit_log \subseteq Everything
    BY DEF Everything
  <2>2. IdsUnique(audit_log) /\ Hashed(audit_log)
    BY <2>1 DEF RowInv, IdsUnique, Hashed
  <2>. QED BY <2>2 DEF Basics, TypeOK, LinksResolve, LinkIn, Recorded
<1>. QED BY <1>1, <1>2, InitBasics, NextKeepsBasics, RowInvNext, LinksAlwaysResolve, PTL DEF Spec

(* verify_chain fails exactly when two committed entries of the tenant     *)
(* follow the same predecessor, whatever was recorded and rolled back.     *)
THEOREM ChainsBreakByForksOnly == Spec => []BrokenOnlyByFork
<1>1. ASSUME Recorded(audit_log) PROVE BrokenOnlyByFork
  <2>1. ASSUME NEW t \in Tenants, VerifyChain(audit_log, t) PROVE ~Forked(t)
    BY <1>1, <2>1, IntactUnforked DEF Forked
  <2>2. ASSUME NEW t \in Tenants, ~Forked(t) PROVE VerifyChain(audit_log, t)
    BY <1>1, <2>2, UnforkedIntact DEF Forked
  <2>. QED BY <2>1, <2>2 DEF BrokenOnlyByFork
<1>. QED BY <1>1, TableRecorded, PTL

(* An altered entry no longer hashes to what it carries.                   *)
LEMMA AlterationShows ==
  ASSUME NEW rows, Recorded(rows), NEW t \in Tenants, VerifyChain(rows, t),
         NEW e \in Of(rows, t), NEW c \in Contents, c # e.content
  PROVE  ~VerifyChain((rows \ {e}) \cup {Altered(e, c)}, t)
<1>. DEFINE a == Altered(e, c)
            changed == (rows \ {e}) \cup {a}
<1>1. e \in rows /\ e \in Rows /\ e.tenant = t /\ e.prev_hash \in Hash
  BY DEF Of, Recorded, Rows
<1>2. a.id = e.id /\ a.tenant = t /\ a.content = c /\ a.entry_hash = e.entry_hash
  BY <1>1 DEF Altered, Rows
<1>. HIDE DEF a
<1>3. Before(changed, a) = Before(rows, e)
  BY <1>1, <1>2 DEF Before, Rows
<1>4. a \in Of(changed, t)
  BY <1>2 DEF Of
<1>5. e.prev_hash = LastHash(Before(rows, e)) /\ e.entry_hash = ComputeHash(t, e.content, e.prev_hash)
  BY <1>1 DEF VerifyChain
<1>. HIDE DEF changed
<1>6. ASSUME VerifyChain(changed, t) PROVE e.entry_hash = ComputeHash(t, c, e.prev_hash)
  BY <1>2, <1>3, <1>4, <1>5, <1>6 DEF VerifyChain
<1>7. VerifyChain(changed, t) => FALSE
  BY <1>1, <1>5, <1>6, HashInjective
<1>. QED BY <1>7 DEF changed, a

(* Without an entry the next one follows nothing that is there.            *)
LEMMA RemovalShows ==
  ASSUME NEW rows, Recorded(rows), NEW t, VerifyChain(rows, t),
         NEW e \in Of(rows, t), \E f \in Of(rows, t) : e.id < f.id
  PROVE  ~VerifyChain(rows \ {e}, t)
<1>. DEFINE S == {f \in Of(rows, t) : e.id < f.id}
<1>1. Of(rows, t) \subseteq rows /\ Of(rows, t) \in SUBSET Rows
  BY DEF Of, Recorded
<1>2. S \in SUBSET Rows /\ S # {}
  BY <1>1
<1>3. PICK f \in S : \A g \in S : f.id <= g.id
  BY <1>2, FirstRow
<1>4. /\ e \in rows /\ f \in rows /\ f \in Of(rows, t) /\ e.id < f.id
      /\ \A g \in rows : g.id \in Nat
  BY <1>1, <1>3 DEF Rows, Recorded
<1>5. \A g \in Before(rows, f) : g.id <= e.id /\ (g = e \/ g.id < e.id)
  <2>1. ASSUME NEW g \in Before(rows, f) PROVE g \in rows /\ g \notin S
    BY <1>3, <1>4, <2>1 DEF Before, Of
  <2>2. ASSUME NEW g \in Before(rows, f) PROVE g.id <= e.id
    BY <1>4, <2>1, <2>2 DEF Before, Of
  <2>. QED BY <1>4, <2>1, <2>2 DEF Recorded, IdsUnique
<1>6. e \in Before(rows, f)
  BY <1>4 DEF Before, Of
<1>7. LastHash(Before(rows, f)) = e.entry_hash
  BY <1>4, <1>5, <1>6, BeforeType, LastHashIs
<1>8. f.prev_hash = e.entry_hash /\ e.prev_hash = LastHash(Before(rows, e))
  BY <1>4, <1>7 DEF VerifyChain
<1>9. Before(rows \ {e}, f) = Before(rows, e)
  BY <1>4, <1>5, <1>6 DEF Before, Of
<1>10. f \in Of(rows \ {e}, t)
  BY <1>4 DEF Of
<1>11. VerifyChain(rows \ {e}, t) => f.prev_hash = e.prev_hash
  BY <1>8, <1>9, <1>10 DEF VerifyChain
<1>. QED BY <1>4, <1>8, <1>11, EntryHashLonger

(* On an intact chain verify_chain notices an altered entry, and the       *)
(* removal of any entry that has a successor.                              *)
THEOREM EditsAreDetected == Spec => []EditsDetected
<1>1. ASSUME Basics, Recorded(audit_log) PROVE EditsDetected
  <2>. SUFFICES ASSUME NEW t \in Tenants, VerifyChain(audit_log, t), NEW e \in Of(audit_log, t)
                PROVE  /\ \A c \in Contents \ {e.content} :
                            ~VerifyChain((audit_log \ {e}) \cup {Altered(e, c)}, t)
                       /\ (\E f \in Of(audit_log, t) : f.id > e.id) =>
                            ~VerifyChain(audit_log \ {e}, t)
    BY DEF EditsDetected
  <2>1. \A c \in Contents \ {e.content} :
          ~VerifyChain((audit_log \ {e}) \cup {Altered(e, c)}, t)
    BY <1>1, AlterationShows
  <2>2. ASSUME NEW f \in Of(audit_log, t), f.id > e.id PROVE e.id < f.id
    BY <1>1, <2>2 DEF Of, Recorded, Rows
  <2>. QED BY <1>1, <2>1, <2>2, RemovalShows
<1>. QED BY <1>1, TableRecorded, PTL
=============================================================================
