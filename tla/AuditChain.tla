----------------------------- MODULE AuditChain -----------------------------
(***************************************************************************)
(* The hash-chained audit table of backend/app/services/audit.py, written  *)
(* by concurrent requests.  Each request owns a database session; its      *)
(* inserts are visible to itself at once and to others when it commits     *)
(* (READ COMMITTED).  AuditService.record reads the tenant's last hash and *)
(* inserts the next entry in two database round trips, with no lock.       *)
(*                                                                         *)
(* SHA-256 is taken as collision free: the hash of an entry is the         *)
(* sequence of everything hashed into it, so the hash of an entry is the   *)
(* history it closes, and the empty string is the empty sequence.          *)
(***************************************************************************)
EXTENDS Naturals, Sequences, FiniteSets

CONSTANTS
  Tenants,
  Requests,     \* requests being handled, in whatever worker process
  Contents,     \* what an entry says: actor, action, target and detail
  MaxEntries    \* bound: row ids the sequence of audit_log hands out

ASSUME MaxEntriesIsNat == MaxEntries \in Nat

VARIABLES
  audit_log,    \* the committed rows
  next_id,      \* the sequence behind audit_log.id: never rolled back
  pc,           \* where each request is in AuditService.record
  tenant,       \* the tenant_id of the record call under way
  prev_hash,    \* its local prev_hash
  pending,      \* rows inserted by a request that has not committed yet
  touched,      \* tenants whose last hash a request read in its transaction
  overlapped    \* history: tenants with two such transactions at one time

vars == <<audit_log, next_id, pc, tenant, prev_hash, pending, touched, overlapped>>

-----------------------------------------------------------------------------
Hash == Seq(Tenants \X Contents)

Rows == [id : Nat, tenant : Tenants, content : Contents,
         prev_hash : Hash, entry_hash : Hash]

\* Mutant: the content is not hashed.
ComputeHashWithoutContent(t, content, prev) == Append(prev, <<t>>)

ComputeHash(t, content, prev) == Append(prev, <<t, content>>)

\* Mutant: the tenant filter is missing.
OfAnyTenant(rows, t) == rows

Of(rows, t) == {e \in rows : e.tenant = t}

\* Mutant: the rows come in ascending order.
FirstHash(rows) ==
  IF rows = {} THEN <<>>
  ELSE (CHOOSE e \in rows : \A f \in rows : e.id <= f.id).entry_hash

\* entry_hash of the row with the highest id, the empty string without rows.
LastHash(rows) ==
  IF rows = {} THEN <<>>
  ELSE (CHOOSE e \in rows : \A f \in rows : f.id <= e.id).entry_hash

Before(rows, e) == {f \in rows : f.tenant = e.tenant /\ f.id < e.id}

\* Mutant: only the links are compared.
VerifyLinks(rows, t) ==
  \A e \in Of(rows, t) : e.prev_hash = LastHash(Before(rows, e))

\* verify_chain: walking the rows by id, each must embed its predecessor's
\* hash and hash to what is recomputed from it.
VerifyChain(rows, t) ==
  \A e \in Of(rows, t) :
    LET prev == LastHash(Before(rows, e)) IN
    /\ e.prev_hash = prev
    /\ e.entry_hash = ComputeHash(e.tenant, e.content, prev)

Visible(r) == audit_log \cup pending[r]

-----------------------------------------------------------------------------
Init ==
  /\ audit_log = {}
  /\ next_id = 1
  /\ pc = [r \in Requests |-> "idle"]
  /\ tenant \in [Requests -> Tenants]
  /\ prev_hash = [r \in Requests |-> <<>>]
  /\ pending = [r \in Requests |-> {}]
  /\ touched = [r \in Requests |-> {}]
  /\ overlapped = {}

Overlaps(r, t) == \E q \in Requests \ {r} : t \in touched[q]

\* record, first half: the SELECT of _last_hash.
ReadLastHash(r, t) ==
  /\ pc[r] \in {"idle", "recorded"}
  /\ pc' = [pc EXCEPT ![r] = "hashed"]
  /\ tenant' = [tenant EXCEPT ![r] = t]
  /\ prev_hash' = [prev_hash EXCEPT ![r] = LastHash(Of(Visible(r), t))]
  /\ touched' = [touched EXCEPT ![r] = @ \cup {t}]
  /\ overlapped' = IF Overlaps(r, t) THEN overlapped \cup {t} ELSE overlapped
  /\ UNCHANGED <<audit_log, next_id, pending>>

\* Mutant: the hash does not cover the predecessor.
NewRowUnlinked(r, content) ==
  [id |-> next_id, tenant |-> tenant[r], content |-> content,
   prev_hash |-> prev_hash[r],
   entry_hash |-> ComputeHash(tenant[r], content, <<>>)]

NewRow(r, content) ==
  [id |-> next_id, tenant |-> tenant[r], content |-> content,
   prev_hash |-> prev_hash[r],
   entry_hash |-> ComputeHash(tenant[r], content, prev_hash[r])]

\* record, second half: the INSERT that flush sends takes the next row id.
InsertEntry(r, content) ==
  /\ pc[r] = "hashed"
  /\ next_id <= MaxEntries
  /\ pending' = [pending EXCEPT ![r] = @ \cup {NewRow(r, content)}]
  /\ next_id' = next_id + 1
  /\ pc' = [pc EXCEPT ![r] = "recorded"]
  /\ UNCHANGED <<audit_log, tenant, prev_hash, touched, overlapped>>

EndTransaction(r) ==
  /\ pc' = [pc EXCEPT ![r] = "idle"]
  /\ pending' = [pending EXCEPT ![r] = {}]
  /\ touched' = [touched EXCEPT ![r] = {}]
  /\ prev_hash' = [prev_hash EXCEPT ![r] = <<>>]
  /\ UNCHANGED <<next_id, tenant, overlapped>>

\* The handler returned: the session dependency commits.
Commit(r) ==
  /\ pc[r] = "recorded"
  /\ audit_log' = audit_log \cup pending[r]
  /\ EndTransaction(r)

\* The handler raised, the client went away or the worker died.
Rollback(r) ==
  /\ pc[r] # "idle"
  /\ EndTransaction(r)
  /\ UNCHANGED audit_log

Next ==
  \E r \in Requests :
    \/ \E t \in Tenants : ReadLastHash(r, t)
    \/ \E c \in Contents : InsertEntry(r, c)
    \/ Commit(r)
    \/ Rollback(r)

Spec == Init /\ [][Next]_vars

-----------------------------------------------------------------------------
TypeOK ==
  /\ audit_log \in SUBSET Rows
  /\ next_id \in Nat
  /\ pc \in [Requests -> {"idle", "hashed", "recorded"}]
  /\ tenant \in [Requests -> Tenants]
  /\ prev_hash \in [Requests -> Hash]
  /\ pending \in [Requests -> SUBSET Rows]
  /\ touched \in [Requests -> SUBSET Tenants]
  /\ overlapped \in SUBSET Tenants

\* Every committed entry follows the empty string or a committed entry of its
\* own tenant with a smaller id: no entry hangs off a row that was rolled back
\* or that comes later.
LinksResolve ==
  \A e \in audit_log :
    \/ e.prev_hash = <<>>
    \/ \E f \in Before(audit_log, e) : e.prev_hash = f.entry_hash

\* verify_chain fails exactly when two committed entries of the tenant follow
\* the same predecessor: the chain can fork, and can break in no other way.
Forked(t) ==
  \E e, f \in Of(audit_log, t) : e # f /\ e.prev_hash = f.prev_hash

BrokenOnlyByFork ==
  \A t \in Tenants : VerifyChain(audit_log, t) <=> ~Forked(t)

\* A tenant whose recording transactions never overlapped has an intact chain,
\* whatever was rolled back in between.
SerialChainValid ==
  \A t \in Tenants \ overlapped : VerifyChain(audit_log, t)

\* On an intact chain verify_chain notices an entry whose content is altered,
\* and the removal of any entry that has a successor.
Altered(e, content) == [e EXCEPT !.content = content]

EditsDetected ==
  \A t \in Tenants : VerifyChain(audit_log, t) =>
    \A e \in Of(audit_log, t) :
      /\ \A c \in Contents \ {e.content} :
           ~VerifyChain((audit_log \ {e}) \cup {Altered(e, c)}, t)
      /\ (\E f \in Of(audit_log, t) : f.id > e.id) =>
           ~VerifyChain(audit_log \ {e}, t)

\* docs/OPERATIONS.md: the chain only ever reads false after tampering.  No
\* action of this module tampers, so the chain must always verify.
ChainAlwaysValid == \A t \in Tenants : VerifyChain(audit_log, t)

\* The last committed hash of a tenant is its history.
Trail == INSTANCE AuditTrail
           WITH history <- [t \in Tenants |-> LastHash(Of(audit_log, t))],
                contended <- overlapped

\* The table implements the append-only trail for every tenant whose recording
\* transactions did not overlap.
ImplementsTrail == Trail!Spec
=============================================================================
