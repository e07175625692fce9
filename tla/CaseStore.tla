----------------------------- MODULE CaseStore ------------------------------
(***************************************************************************)
(* One row of the investigations table and the requests that work on it:   *)
(* approve, execute, change the status, assign and add a note.  The row    *)
(* has indexed columns and a payload, the whole aggregate as one JSON      *)
(* value.  A handler loads the row, computes a new payload from what it    *)
(* loaded, flushes the columns that changed (which takes the row lock),    *)
(* records an audit entry and commits.  Nothing locks or compares between  *)
(* the load and the flush.                                                 *)
(*                                                                         *)
(* A timestamp is abstracted to the request that stamped it.               *)
(***************************************************************************)
EXTENDS FiniteSets

CONSTANTS
  Requests,     \* each makes one call
  Actions,      \* planned response actions of a true positive
  Gated,        \* those planned with requires_approval (_GATED_ACTIONS)
  Supported,    \* those some connector supports
  Analysts,
  None          \* SQL NULL

ASSUME ActionSets == Gated \subseteq Actions /\ Supported \subseteq Actions
ASSUME NoneIsNew == None \notin Requests /\ None \notin Analysts

VARIABLES
  row,          \* the committed row
  lock,         \* the request that holds the row lock
  pc,
  op,           \* what each request was asked to do
  view,         \* the row as a request loaded it
  new,          \* its object after the handler changed it
  effects,      \* requests whose connector call reached the environment
  alerts,       \* requests that raised the "action executed" alert, whoever
                \* it reached
  audit,        \* requests whose audit entry is committed
  stale         \* history: requests that wrote a row other than they loaded

vars == <<row, lock, pc, op, view, new, effects, alerts, audit, stale>>

-----------------------------------------------------------------------------
Statuses == {"new", "triaged", "investigating", "contained", "resolved",
             "false_positive"}

\* _ALLOWED of services/workflow.py.
Allowed ==
  [new |-> {"triaged", "false_positive"},
   triaged |-> {"investigating", "false_positive"},
   investigating |-> {"contained", "resolved", "false_positive"},
   contained |-> {"resolved", "investigating"},
   resolved |-> {"investigating"},
   false_positive |-> {"investigating"}]

Stamps == Requests \cup {None}
Assignees == Analysts \cup {None}
ActionStates == [requires_approval : BOOLEAN,
                 execution : {"none", "success", "unsupported"}]
PlannedActions == [Actions -> ActionStates] \cup [{} -> ActionStates]
Payloads == [status : Statuses, assignee : Assignees, actions : PlannedActions]
RowValues == [status : Statuses, assignee : Assignees, acknowledged_at : Stamps,
              contained_at : Stamps, payload : Payloads]
Columns == {"status", "assignee", "acknowledged_at", "contained_at", "payload"}

Ops == [kind : {"approve", "execute"}, action : Actions]
       \cup [kind : {"transition"}, target : Statuses]
       \cup [kind : {"assign"}, assignee : Assignees]
       \cup [kind : {"note"}]

InFlight == {"effect", "flush", "flushed", "notify"}
Answered == {"committed", "rejected", "aborted"}

-----------------------------------------------------------------------------
(* What the repository methods compute from the row they loaded.           *)

\* Mutant: the approval is not checked.
AcceptsUnapproved(o, v) ==
  CASE o.kind \in {"approve", "execute"} -> o.action \in DOMAIN v.payload.actions
    [] o.kind = "transition" -> o.target \in Allowed[v.status]
    [] OTHER -> TRUE

\* The errors of the repository methods: an action index out of range, an
\* action that is not approved, a status change the workflow does not allow.
Accepts(o, v) ==
  CASE o.kind = "approve"    -> o.action \in DOMAIN v.payload.actions
    [] o.kind = "execute"    -> /\ o.action \in DOMAIN v.payload.actions
                                /\ ~v.payload.actions[o.action].requires_approval
    [] o.kind = "transition" -> o.target \in Allowed[v.status]
    [] OTHER                 -> TRUE

SetAction(v, a, state) == [v EXCEPT !.payload.actions[a] = state]

\* Mutant: the payload keeps the old status.
SetStatusColumn(v, status) == [v EXCEPT !.status = status]

SetStatus(v, status) == [v EXCEPT !.status = status, !.payload.status = status]

Approved(v, a) ==
  SetAction(v, a, [v.payload.actions[a] EXCEPT !.requires_approval = FALSE])

\* Mutants: a status the schema does not know; success whatever happened.
OutcomeUnknown(a) == IF a \in Supported THEN "success" ELSE "error"
OutcomeSuccess(a) == "success"

Outcome(a) == IF a \in Supported THEN "success" ELSE "unsupported"

\* Mutant: the result is not stored.
ExecutedUnrecorded(v, a) ==
  IF v.status = "investigating" THEN SetStatus(v, "contained") ELSE v

Executed(v, a) ==
  LET done == SetAction(v, a, [v.payload.actions[a] EXCEPT !.execution = Outcome(a)])
  IN IF v.status = "investigating" THEN SetStatus(done, "contained") ELSE done

\* Mutant: a timestamp is set again.
TransitionedRestamped(v, target, r) ==
  [SetStatus(v, target) EXCEPT
    !.acknowledged_at = IF target = "investigating" THEN r ELSE @,
    !.contained_at = IF target = "contained" THEN r ELSE @]

Transitioned(v, target, r) ==
  [SetStatus(v, target) EXCEPT
    !.acknowledged_at = IF target = "investigating" /\ @ = None THEN r ELSE @,
    !.contained_at = IF target = "contained" /\ @ = None THEN r ELSE @]

Assigned(v, who) == [v EXCEPT !.assignee = who, !.payload.assignee = who]

Applied(o, v, r) ==
  CASE o.kind = "approve"    -> Approved(v, o.action)
    [] o.kind = "execute"    -> Executed(v, o.action)
    [] o.kind = "transition" -> Transitioned(v, o.target, r)
    [] o.kind = "assign"     -> Assigned(v, o.assignee)
    [] OTHER                 -> v

\* The ORM writes the columns whose value differs from the loaded one.
Dirty(r) == {c \in Columns : new[r][c] # view[r][c]}

-----------------------------------------------------------------------------
\* The orchestrator saves a true positive as investigating with its planned
\* actions, anything else as a false positive without actions.
NewCase(status, actions) ==
  [status |-> status, assignee |-> None, acknowledged_at |-> None,
   contained_at |-> None,
   payload |-> [status |-> status, assignee |-> None, actions |-> actions]]

Planned == [a \in Actions |->
              [requires_approval |-> a \in Gated, execution |-> "none"]]
NoActions == [a \in {} |-> [requires_approval |-> TRUE, execution |-> "none"]]

\* No object is loaded outside a transaction.
Nothing == NewCase("false_positive", NoActions)

Init ==
  /\ row \in {NewCase("investigating", Planned), NewCase("false_positive", NoActions)}
  /\ lock = None
  /\ pc = [r \in Requests |-> "new"]
  /\ op = [r \in Requests |-> [kind |-> "note"]]
  /\ view = [r \in Requests |-> Nothing]
  /\ new = [r \in Requests |-> Nothing]
  /\ effects = {}
  /\ alerts = {}
  /\ audit = {}
  /\ stale = {}

\* The SELECT, the checks and the changes to the loaded object.  A refused
\* call ends here, with nothing to write.
Load(r, o) ==
  /\ pc[r] = "new"
  /\ op' = [op EXCEPT ![r] = o]
  /\ IF Accepts(o, row)
     THEN /\ view' = [view EXCEPT ![r] = row]
          /\ new' = [new EXCEPT ![r] = Applied(o, row, r)]
          /\ pc' = [pc EXCEPT ![r] = IF o.kind = "execute" THEN "effect" ELSE "flush"]
     ELSE /\ pc' = [pc EXCEPT ![r] = "rejected"]
          /\ UNCHANGED <<view, new>>
  /\ UNCHANGED <<row, lock, effects, alerts, audit, stale>>

\* executor.execute: the connector changes the environment before anything is
\* written.  An action no connector supports changes nothing.
RunConnector(r) ==
  /\ pc[r] = "effect"
  /\ effects' = IF op[r].action \in Supported THEN effects \cup {r} ELSE effects
  /\ pc' = [pc EXCEPT ![r] = "flush"]
  /\ UNCHANGED <<row, lock, op, view, new, alerts, audit, stale>>

\* session.flush: the UPDATE waits for the row lock and keeps it until the
\* transaction ends.  Without a changed column there is no UPDATE.
Flush(r) ==
  /\ pc[r] = "flush"
  /\ IF Dirty(r) = {} THEN UNCHANGED lock ELSE lock = None /\ lock' = r
  /\ pc' = [pc EXCEPT ![r] = IF op[r].kind = "execute" THEN "notify" ELSE "flushed"]
  /\ UNCHANGED <<row, op, view, new, effects, alerts, audit, stale>>

\* The execute route meters, audits and alerts before its session commits.
Notify(r) ==
  /\ pc[r] = "notify"
  /\ alerts' = alerts \cup {r}
  /\ pc' = [pc EXCEPT ![r] = "flushed"]
  /\ UNCHANGED <<row, lock, op, view, new, effects, audit, stale>>

\* Mutant: the row lock is kept.
CloseSessionLocked(r) ==
  /\ UNCHANGED lock
  /\ view' = [view EXCEPT ![r] = Nothing]
  /\ new' = [new EXCEPT ![r] = Nothing]

\* The transaction ends: its lock is released, its session is closed.
CloseSession(r) ==
  /\ lock' = IF lock = r THEN None ELSE lock
  /\ view' = [view EXCEPT ![r] = Nothing]
  /\ new' = [new EXCEPT ![r] = Nothing]

\* The session dependency commits: the changed columns and the audit entry.
Commit(r) ==
  /\ pc[r] = "flushed"
  /\ row' = [c \in Columns |-> IF c \in Dirty(r) THEN new[r][c] ELSE row[c]]
  /\ audit' = audit \cup {r}
  /\ stale' = IF Dirty(r) # {} /\ view[r] # row THEN stale \cup {r} ELSE stale
  /\ CloseSession(r)
  /\ pc' = [pc EXCEPT ![r] = "committed"]
  /\ UNCHANGED <<op, effects, alerts>>

\* Metering, auditing, the notifier or the connector raised, the database
\* connection was lost or the worker died: the transaction is undone.
Abort(r) ==
  /\ pc[r] \in InFlight
  /\ CloseSession(r)
  /\ pc' = [pc EXCEPT ![r] = "aborted"]
  /\ UNCHANGED <<row, op, effects, alerts, audit, stale>>

AllAnswered ==
  /\ \A r \in Requests : pc[r] \in Answered
  /\ UNCHANGED vars

Proceed(r) == RunConnector(r) \/ Flush(r) \/ Notify(r) \/ Commit(r)

Next ==
  \/ \E r \in Requests :
       \/ \E o \in Ops : Load(r, o)
       \/ Proceed(r)
       \/ Abort(r)
  \/ AllAnswered

Spec == Init /\ [][Next]_vars

\* The event loop resumes a handler whose await has completed and the database
\* grants a free row lock; nothing makes a client send a request.
FairSpec == Spec /\ \A r \in Requests : WF_vars(Proceed(r))

-----------------------------------------------------------------------------
TypeOK ==
  /\ row \in RowValues
  /\ lock \in Stamps
  /\ pc \in [Requests -> {"new"} \cup InFlight \cup Answered]
  /\ op \in [Requests -> Ops]
  /\ view \in [Requests -> RowValues]
  /\ new \in [Requests -> RowValues]
  /\ effects \in SUBSET Requests
  /\ alerts \in SUBSET Requests
  /\ audit \in SUBSET Requests
  /\ stale \in SUBSET Requests

Did(r, kind, a) == op[r].kind = kind /\ op[r].action = a

(* Whatever interleaves, a connector only ever ran a gated action of which  *)
(* an approval has been committed and audited before (docs/SECURITY.md:    *)
(* planned, approved and executed are distinct steps).                     *)
OnlyApprovedRuns ==
  \A r \in effects : op[r].action \in Gated =>
    \E q \in audit : Did(q, "approve", op[r].action)

(* What the case shows as executed really ran, in a request that is        *)
(* committed and audited: rolled-back work never shows.                    *)
ShownExecutionsRan ==
  \A a \in DOMAIN row.payload.actions :
    row.payload.actions[a].execution = "success" =>
      \E r \in effects \cap audit : Did(r, "execute", a)

(* A request that was sent is answered: nobody waits for the row for ever. *)
EveryRequestAnswered ==
  \A r \in Requests : pc[r] \in InFlight ~> pc[r] \in Answered

-----------------------------------------------------------------------------
(* What a request that writes over a newer row can break, and nothing else. *)

(* Until a request writes over a row newer than the one it loaded, indexed *)
(* columns and payload agree, so a list filtered by status or assignee     *)
(* shows the cases it names, however requests overlap and fail.            *)
ColumnsMatchPayload ==
  stale = {} =>
    row.status = row.payload.status /\ row.assignee = row.payload.assignee

(* Until then, what the audit trail says of an action is what the case     *)
(* shows: no approval or result is lost.                                   *)
AuditMatchesCase ==
  stale = {} =>
    \A r \in audit :
      /\ op[r].kind = "approve" =>
           ~row.payload.actions[op[r].action].requires_approval
      /\ op[r].kind = "execute" =>
           row.payload.actions[op[r].action].execution # "none"

\* The case as the lifecycle sees it.
Awaiting(v) == {a \in DOMAIN v.payload.actions : v.payload.actions[a].requires_approval}
Recorded(v) == {a \in DOMAIN v.payload.actions : v.payload.actions[a].execution # "none"}

Clocks == {"acknowledged_at", "contained_at"}

Lifecycle == INSTANCE CaseLifecycle
               WITH Unset <- None,
                    status <- row.status,
                    awaiting <- Awaiting(row),
                    executed <- Recorded(row),
                    stamped <- [c \in Clocks |-> row[c]],
                    overwritten <- stale

ImplementsLifecycle == Lifecycle!Spec

-----------------------------------------------------------------------------
(* A promise of the documentation that the handlers do not keep.           *)

(* services/executor.py: every execution is recorded with a result.        *)
EveryExecutionRecorded ==
  \A r \in effects : pc[r] \in Answered =>
    row.payload.actions[op[r].action].execution # "none"
=============================================================================
