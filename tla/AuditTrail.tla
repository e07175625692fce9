----------------------------- MODULE AuditTrail -----------------------------
(***************************************************************************)
(* What an audit trail promises: per tenant, one history of what was done. *)
(* A history only ever grows at its end; nothing recorded is dropped,      *)
(* rewritten or reordered.  The promise is void, for good, for a tenant    *)
(* with contending recorders.  AuditChain is the hash-chained table that   *)
(* is meant to provide it.                                                 *)
(***************************************************************************)
EXTENDS Naturals, Sequences

CONSTANT Tenants

VARIABLES
  history,     \* history[t]: the events recorded for tenant t, oldest first
  contended    \* tenants whose recorders have contended

vars == <<history, contended>>

Extends(new, old) ==
  Len(old) <= Len(new) /\ SubSeq(new, 1, Len(old)) = old

Init ==
  /\ history = [t \in Tenants |-> <<>>]
  /\ contended = {}

\* One transaction records events; it may concern several tenants at once
\* (an impersonation is recorded for the platform and for the target tenant).
Record ==
  /\ contended \subseteq contended'
  /\ \A t \in Tenants \ contended' : Extends(history'[t], history[t])

Spec == Init /\ [][Record]_vars
=============================================================================
