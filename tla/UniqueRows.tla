----------------------------- MODULE UniqueRows -----------------------------
(***************************************************************************)
(* Rows with a natural key: users by name, rule states by rule, tenants by *)
(* name, revoked tokens by their id and credentials by tenant.  A call     *)
(* looks the key up and inserts when it finds nothing.  The tables of      *)
(* users and of rule states do not constrain the key; in the others an     *)
(* insert waits for an uncommitted one of the same key, and fails if that  *)
(* commits.                                                                *)
(*                                                                         *)
(* A row is named by the call that inserts it, None if it was there at the *)
(* start; that name is the id by which users and tenants are changed.      *)
(***************************************************************************)
CONSTANTS
  Requests,     \* each makes one call
  Users, Rules, Tenants, Tokens, Credentials,   \* the keys of each table
  Seeds,        \* the sets of keys that may have a row at the start
  None

Keys == Users \cup Rules \cup Tenants \cup Tokens \cup Credentials

ASSUME NoneIsNoName == None \notin Requests /\ None \notin Keys
ASSUME TablesDisjoint ==
  /\ Users \cap (Rules \cup Tenants \cup Tokens \cup Credentials) = {}
  /\ Rules \cap (Tenants \cup Tokens \cup Credentials) = {}
ASSUME SeedsAreKeys == Seeds \subseteq SUBSET Keys

VARIABLES
  rows,         \* the committed rows
  pc,
  op,           \* what each call was asked to do, Idle before
  how,          \* "insert", "update", "delete" or "keep" of the row it found
  row,          \* the rows it inserts, updates or deletes: one or none
  raced         \* history: keys that two calls under way did not find

vars == <<rows, pc, op, how, row, raced>>

-----------------------------------------------------------------------------
\* The unique column and the primary keys.
Constrained == Tenants \cup Tokens \cup Credentials

Ids == Requests \cup {None}
Rows == [id : Ids, key : Keys]

\* create refuses a key it finds, ensure (a logout) is content with it, put
\* (a toggle, an upsert) updates it; change and remove find a row by id.
Ops ==
  [kind : {"create"}, key : Users \cup Tenants, id : {None}]
  \cup [kind : {"ensure"}, key : Tokens, id : {None}]
  \cup [kind : {"put"}, key : Rules \cup Credentials, id : {None}]
  \cup [kind : {"login"}, key : Users, id : {None}]
  \cup [kind : {"change"}, key : Users \cup Tenants, id : Ids]
  \cup [kind : {"remove"}, key : Users, id : Ids]

Idle == [kind |-> "idle", key |-> None, id |-> None]

\* Mutant: the lookup ignores the key.
OfAnyKey(k) == rows

Of(k) == {e \in rows : e.key = k}

\* The rows the SELECT of a call returns.
Found(o) ==
  IF o.kind \in {"change", "remove"} THEN {e \in Of(o.key) : e.id = o.id}
  ELSE Of(o.key)

\* 409 for a key that is taken, 401 or 404 for one that is missing.
Refuses(o) ==
  IF o.kind = "create" THEN Found(o) # {}
  ELSE Found(o) = {} /\ o.kind \in {"login", "change", "remove"}

\* What a call does to the row it found.  An UPDATE is only sent when a column
\* changes: the value is what it was, or not.
Doings(o) ==
  IF Found(o) = {} THEN {"insert"}
  ELSE CASE o.kind = "remove" -> {"delete"}
         [] o.kind \in {"put", "change"} -> {"update", "keep"}
         [] OTHER -> {"keep"}

\* Two rows, on which scalar_one_or_none raises.
Ambiguous(o) == \E e, f \in Found(o) : e # f

InFlight == {"flush", "flushed"}
Answered == {"done", "refused", "error", "aborted"}

UnderWay == {r \in Requests : pc[r] \in InFlight}
Inserts(r, k) == how[r] = "insert" /\ op[r].key = k

-----------------------------------------------------------------------------
\* At most one row per key, seeded before.
Init ==
  /\ \E keys \in Seeds : rows = [id : {None}, key : keys]
  /\ pc = [r \in Requests |-> "new"]
  /\ op = [r \in Requests |-> Idle]
  /\ how = [r \in Requests |-> "keep"]
  /\ row = [r \in Requests |-> {}]
  /\ raced = {}

\* The end of the session: what it did not commit is forgotten.
Answer(r, answer) ==
  /\ pc' = [pc EXCEPT ![r] = answer]
  /\ how' = [how EXCEPT ![r] = "keep"]
  /\ row' = [row EXCEPT ![r] = {}]

\* The SELECT.  A client knows the ids of new rows from the answers to the
\* calls that inserted them.
Select(r, o) ==
  /\ pc[r] = "new"
  /\ o.id # None => pc[o.id] = "done" /\ op[o.id].key = o.key
  /\ op' = [op EXCEPT ![r] = o]
  /\ UNCHANGED rows
  /\ \/ Ambiguous(o) /\ Answer(r, "error") /\ UNCHANGED raced
     \/ ~Ambiguous(o) /\ Refuses(o) /\ Answer(r, "refused")
        /\ UNCHANGED raced
     \/ /\ ~Ambiguous(o) /\ ~Refuses(o)
        /\ pc' = [pc EXCEPT ![r] = "flush"]
        /\ \E h \in Doings(o) : how' = [how EXCEPT ![r] = h]
        /\ row' = [row EXCEPT ![r] =
             IF Found(o) = {} THEN {[id |-> r, key |-> o.key]} ELSE Found(o)]
        /\ raced' = IF Found(o) = {} /\ \E q \in UnderWay : Inserts(q, o.key)
                    THEN raced \cup {o.key} ELSE raced

\* A write waits for a transaction that wrote the same row, or inserted the
\* same constrained key.
Writes(r) == IF how[r] = "keep" THEN {} ELSE row[r]

Blocks(q, r) ==
  \/ Writes(q) \cap Writes(r) # {}
  \/ \E k \in Constrained : Inserts(r, k) /\ Inserts(q, k)

\* Mutant: an insert also waits for one that is yet to be sent.
WaitsForUnsent(r) == \E q \in UnderWay \ {r} : Blocks(q, r)

Waits(r) == \E q \in Requests \ {r} : pc[q] = "flushed" /\ Blocks(q, r)

\* Mutant: no key is constrained.
FailsOnMissing(r) == how[r] = "update" /\ row[r] \cap rows = {}

\* An insert whose constrained key is there by now, or an UPDATE that matches
\* no row.  (A DELETE that matches none only warns.)
Fails(r) ==
  \/ \E k \in Constrained : Inserts(r, k) /\ Of(k) # {}
  \/ how[r] = "update" /\ row[r] \cap rows = {}

Flush(r) ==
  /\ pc[r] = "flush"
  /\ ~Waits(r)
  /\ UNCHANGED <<rows, op, raced>>
  /\ \/ Fails(r) /\ Answer(r, "error")
     \/ ~Fails(r) /\ pc' = [pc EXCEPT ![r] = "flushed"] /\ UNCHANGED <<how, row>>

\* Mutant: a row is deleted by its key instead of its id.
CommittedByKey(r) ==
  CASE how[r] = "insert" -> rows \cup row[r]
    [] how[r] = "delete" -> rows \ Of(op[r].key)
    [] OTHER -> rows

Committed(r) ==
  CASE how[r] = "insert" -> rows \cup row[r]
    [] how[r] = "delete" -> rows \ row[r]
    [] OTHER -> rows

Commit(r) ==
  /\ pc[r] = "flushed"
  /\ rows' = Committed(r)
  /\ Answer(r, "done")
  /\ UNCHANGED <<op, raced>>

\* Auditing raised, the client went away or the worker died.
Abort(r) ==
  /\ pc[r] \in InFlight
  /\ Answer(r, "aborted")
  /\ UNCHANGED <<rows, op, raced>>

AllAnswered ==
  /\ \A r \in Requests : pc[r] \in Answered
  /\ UNCHANGED vars

Proceed(r) == Flush(r) \/ Commit(r)

Next ==
  \/ AllAnswered
  \/ \E r \in Requests :
       (\E o \in Ops : Select(r, o)) \/ Proceed(r) \/ Abort(r)

Spec == Init /\ [][Next]_vars

\* A handler whose await has completed is resumed and the database lets a
\* waiting write go on; nothing makes a client send its request.
FairSpec == Spec /\ \A r \in Requests : WF_vars(Proceed(r))

-----------------------------------------------------------------------------
\* One row at most is worked on, and only by a call that is under way.
TypeOK ==
  /\ rows \in SUBSET Rows
  /\ pc \in [Requests -> {"new"} \cup InFlight \cup Answered]
  /\ op \in [Requests -> Ops \cup {Idle}]
  /\ how \in [Requests -> {"insert", "update", "delete", "keep"}]
  /\ row \in [Requests -> SUBSET Rows]
  /\ \A r \in Requests :
       /\ \A e, f \in row[r] : e = f
       /\ \A e \in row[r] : e.key = op[r].key
  /\ raced \in SUBSET Keys

\* A key has one row at most, unless its table does not constrain it and two
\* calls looked it up before either had inserted it.
OneRowUnlessRaced ==
  \A e, f \in rows : e.key = f.key /\ e # f => e.key \in raced \ Constrained

Removed(e) ==
  \E r \in Requests : pc[r] = "done" /\ op[r].kind = "remove"
                      /\ op[r].key = e.key /\ op[r].id = e.id

\* No spurious error: a call only fails in the database on a key that two calls
\* raced for, or on a row that another call has removed.  So a login only fails
\* if two creations of its user raced, and a logout only once its token is
\* revoked.
ErrorsHaveCause ==
  \A r \in Requests : pc[r] = "error" =>
    \/ op[r].key \in raced /\ (op[r].key \in Constrained => Of(op[r].key) # {})
    \/ op[r].kind = "change" /\ Removed(op[r])

\* What a call was told it did stays done: the row of an answered creation is
\* there until a call removes that row, whatever else is removed, changed or
\* raced meanwhile.
CreatedStays ==
  \A r \in Requests : pc[r] = "done" /\ op[r].kind = "create" =>
    LET e == [id |-> r, key |-> op[r].key] IN e \in rows \/ Removed(e)

\* A call that was sent is answered, although writes wait for each other.
EveryCallAnswered ==
  \A r \in Requests : pc[r] \in InFlight ~> pc[r] \in Answered
=============================================================================
