-------------------------- MODULE CaseStoreProofs ---------------------------
(***************************************************************************)
(* Machine-checked facts about CaseStore for any set of requests, actions  *)
(* and analysts, under every interleaving, abort and lost update.          *)
(***************************************************************************)
EXTENDS CaseStore, TLAPS

(* What the repository methods compute from a row is a row.                *)
LEMMA NewCaseType == NewCase("investigating", Planned) \in RowValues
                     /\ Nothing \in RowValues
<1>1. Planned \in [Actions -> ActionStates]
  BY DEF Planned, ActionStates
<1>2. NoActions \in [{} -> ActionStates]
  BY DEF NoActions, ActionStates
<1>3. None \in Stamps /\ None \in Assignees
  BY DEF Stamps, Assignees
<1>4. "investigating" \in Statuses /\ "false_positive" \in Statuses
  BY DEF Statuses
<1>. QED BY <1>1, <1>2, <1>3, <1>4 DEF NewCase, Nothing, RowValues, Payloads, PlannedActions

(* Changing one action of a payload, or its status, keeps it a payload.    *)
LEMMA SetActionType ==
  ASSUME NEW v \in RowValues, NEW a \in DOMAIN v.payload.actions,
         NEW s \in ActionStates
  PROVE  /\ SetAction(v, a, s) \in RowValues
         /\ SetAction(v, a, s).payload.actions = [v.payload.actions EXCEPT ![a] = s]
         /\ SetAction(v, a, s).status = v.status
<1>1. v.payload.actions \in PlannedActions
  BY DEF RowValues, Payloads
<1>2. [v.payload.actions EXCEPT ![a] = s] \in PlannedActions
  BY <1>1 DEF PlannedActions
<1>. QED BY <1>2 DEF RowValues, Payloads, SetAction

(* Changing the status of a payload keeps it a payload.                    *)
LEMMA SetStatusType ==
  ASSUME NEW v \in RowValues, NEW status \in Statuses
  PROVE  /\ SetStatus(v, status) \in RowValues
         /\ SetStatus(v, status).payload.actions = v.payload.actions
         /\ SetStatus(v, status).status = status
  BY DEF SetStatus, RowValues, Payloads

(* The flags of a planned action have the types of IncidentAction.         *)
LEMMA ActionStateType ==
  ASSUME NEW v \in RowValues, NEW a \in DOMAIN v.payload.actions
  PROVE  v.payload.actions[a] \in ActionStates /\ a \in Actions
<1>1. v.payload.actions \in PlannedActions
  BY DEF RowValues, Payloads
<1>. QED BY <1>1 DEF PlannedActions

(* approve_action writes a row of the table.                               *)
LEMMA ApprovedType ==
  ASSUME NEW v \in RowValues, NEW a \in DOMAIN v.payload.actions
  PROVE  /\ Approved(v, a) \in RowValues
         /\ \A b \in DOMAIN Approved(v, a).payload.actions :
              /\ b \in DOMAIN v.payload.actions
              /\ b # a => Approved(v, a).payload.actions[b] = v.payload.actions[b]
<1>. DEFINE s == [v.payload.actions[a] EXCEPT !.requires_approval = FALSE]
<1>1. s \in ActionStates
  BY ActionStateType DEF ActionStates
<1>. HIDE DEF s
<1>2. Approved(v, a) = SetAction(v, a, s)
  BY DEF Approved, s
<1>3. /\ Approved(v, a) \in RowValues
      /\ Approved(v, a).payload.actions = [v.payload.actions EXCEPT ![a] = s]
  BY <1>1, <1>2, SetActionType
<1>. QED BY <1>3

(* execute_action writes a row of the table.                               *)
LEMMA ExecutedType ==
  ASSUME NEW v \in RowValues, NEW a \in DOMAIN v.payload.actions
  PROVE  /\ Executed(v, a) \in RowValues
         /\ \A b \in DOMAIN Executed(v, a).payload.actions :
              /\ b \in DOMAIN v.payload.actions
              /\ Executed(v, a).payload.actions[b].requires_approval =
                   v.payload.actions[b].requires_approval
<1>. DEFINE s == [v.payload.actions[a] EXCEPT !.execution = Outcome(a)]
            done == SetAction(v, a, s)
<1>1. s \in ActionStates /\ s.requires_approval = v.payload.actions[a].requires_approval
  BY ActionStateType DEF ActionStates, Outcome
<1>. HIDE DEF s
<1>2. /\ done \in RowValues
      /\ done.payload.actions = [v.payload.actions EXCEPT ![a] = s]
  BY <1>1, SetActionType
<1>. HIDE DEF done
<1>3. Executed(v, a) = SetStatus(done, "contained") \/ Executed(v, a) = done
  BY DEF Executed, done, s
<1>4. "contained" \in Statuses
  BY DEF Statuses
<1>5. Executed(v, a) \in RowValues /\ Executed(v, a).payload.actions = done.payload.actions
  BY <1>2, <1>3, <1>4, SetStatusType
<1>. QED BY <1>1, <1>2, <1>5

(* transition_status writes a row of the table.                            *)
LEMMA TransitionedType ==
  ASSUME NEW v \in RowValues, NEW target \in Statuses, NEW r \in Requests
  PROVE  /\ Transitioned(v, target, r) \in RowValues
         /\ Transitioned(v, target, r).payload.actions = v.payload.actions
<1>. DEFINE w == SetStatus(v, target)
<1>1. w \in RowValues /\ w.payload.actions = v.payload.actions
  BY SetStatusType
<1>2. Transitioned(v, target, r) =
        [w EXCEPT
          !.acknowledged_at = IF target = "investigating" /\ @ = None THEN r ELSE @,
          !.contained_at = IF target = "contained" /\ @ = None THEN r ELSE @]
  BY DEF Transitioned
<1>. HIDE DEF w
<1>. QED BY <1>1, <1>2 DEF RowValues, Stamps

(* set_assignee writes a row of the table.                                 *)
LEMMA AssignedType ==
  ASSUME NEW v \in RowValues, NEW who \in Assignees
  PROVE  /\ Assigned(v, who) \in RowValues
         /\ Assigned(v, who).payload.actions = v.payload.actions
  BY DEF Assigned, RowValues, Payloads

(* The object a handler flushes is a row, and unless the handler approves  *)
(* an action it requires an approval for every action the loaded row did.  *)
LEMMA AppliedType ==
  ASSUME NEW o \in Ops, NEW v \in RowValues, NEW r \in Requests, Accepts(o, v)
  PROVE  /\ Applied(o, v, r) \in RowValues
         /\ \A b \in DOMAIN Applied(o, v, r).payload.actions :
              /\ b \in DOMAIN v.payload.actions
              /\ ~(o.kind = "approve" /\ o.action = b) =>
                   Applied(o, v, r).payload.actions[b].requires_approval =
                     v.payload.actions[b].requires_approval
<1>1. CASE o.kind = "approve"
  <2>1. o.action \in DOMAIN v.payload.actions
    BY <1>1 DEF Accepts
  <2>2. Applied(o, v, r) = Approved(v, o.action)
    BY <1>1 DEF Applied
  <2>. QED BY <1>1, <2>1, <2>2, ApprovedType
<1>2. CASE o.kind = "execute"
  <2>1. o.action \in DOMAIN v.payload.actions
    BY <1>2 DEF Accepts
  <2>2. Applied(o, v, r) = Executed(v, o.action)
    BY <1>2 DEF Applied
  <2>. QED BY <2>1, <2>2, ExecutedType
<1>3. CASE o.kind = "transition"
  <2>1. o.target \in Statuses
    BY <1>3 DEF Ops
  <2>2. Applied(o, v, r) = Transitioned(v, o.target, r)
    BY <1>3 DEF Applied
  <2>. QED BY <2>1, <2>2, TransitionedType
<1>4. CASE o.kind = "assign"
  <2>1. o.assignee \in Assignees
    BY <1>4 DEF Ops
  <2>2. Applied(o, v, r) = Assigned(v, o.assignee)
    BY <1>4 DEF Applied
  <2>. QED BY <2>1, <2>2, AssignedType
<1>5. CASE o.kind = "note"
  BY <1>5 DEF Applied
<1>. QED BY <1>1, <1>2, <1>3, <1>4, <1>5 DEF Ops

(* The committed row after some columns of an object are written.          *)
LEMMA MergedType ==
  ASSUME NEW v \in RowValues, NEW w \in RowValues, NEW D \in SUBSET Columns
  PROVE  [c \in Columns |-> IF c \in D THEN w[c] ELSE v[c]] \in RowValues
  BY DEF Columns, RowValues

-----------------------------------------------------------------------------
(* Every reachable state is well typed.                                    *)
LEMMA TypeInit == Init => TypeOK
<1>. SUFFICES ASSUME Init PROVE TypeOK
  OBVIOUS
<1>1. row \in RowValues /\ Nothing \in RowValues
  BY NewCaseType DEF Init, Nothing
<1>2. [kind |-> "note"] \in Ops
  BY DEF Ops
<1>3. lock \in Stamps
  BY DEF Init, Stamps
<1>. QED BY <1>1, <1>2, <1>3 DEF Init, TypeOK

(* Every step keeps the types.                                             *)
LEMMA TypeNext == TypeOK /\ [Next]_vars => TypeOK'
<1>. SUFFICES ASSUME TypeOK, [Next]_vars PROVE TypeOK'
  OBVIOUS
<1>1. ASSUME NEW r \in Requests, NEW o \in Ops, Load(r, o)
      PROVE  TypeOK'
  <2>1. CASE Accepts(o, row)
    <3>1. Applied(o, row, r) \in RowValues
      BY <2>1, AppliedType DEF TypeOK
    <3>. QED BY <1>1, <2>1, <3>1 DEF Load, TypeOK, InFlight, Answered
  <2>2. CASE ~Accepts(o, row)
    BY <1>1, <2>2 DEF Load, TypeOK, InFlight, Answered
  <2>. QED BY <2>1, <2>2
<1>2. ASSUME NEW r \in Requests, RunConnector(r)
      PROVE  TypeOK'
  BY <1>2 DEF RunConnector, TypeOK, InFlight, Answered
<1>3. ASSUME NEW r \in Requests, Flush(r)
      PROVE  TypeOK'
  BY <1>3 DEF Flush, TypeOK, InFlight, Answered, Stamps
<1>4. ASSUME NEW r \in Requests, Notify(r)
      PROVE  TypeOK'
  BY <1>4 DEF Notify, TypeOK, InFlight, Answered
<1>5. ASSUME NEW r \in Requests, Commit(r)
      PROVE  TypeOK'
  <2>1. Dirty(r) \in SUBSET Columns
    BY DEF Dirty
  <2>2. row' \in RowValues
    BY <1>5, <2>1, MergedType DEF Commit, TypeOK
  <2>3. /\ lock' \in Stamps
        /\ view' \in [Requests -> RowValues]
        /\ new' \in [Requests -> RowValues]
    BY <1>5, NewCaseType DEF Commit, CloseSession, TypeOK, Stamps
  <2>4. /\ pc' \in [Requests -> {"new"} \cup InFlight \cup Answered]
        /\ UNCHANGED <<op, effects, alerts>>
    BY <1>5 DEF Commit, TypeOK, InFlight, Answered
  <2>5. audit' \in SUBSET Requests /\ stale' \in SUBSET Requests
    BY <1>5 DEF Commit, TypeOK
  <2>. QED BY <2>2, <2>3, <2>4, <2>5 DEF TypeOK
<1>6. ASSUME NEW r \in Requests, Abort(r)
      PROVE  TypeOK'
  BY <1>6, NewCaseType DEF Abort, CloseSession, TypeOK, InFlight, Answered, Stamps
<1>7. CASE UNCHANGED vars
  BY <1>7 DEF vars, TypeOK
<1>. QED BY <1>1, <1>2, <1>3, <1>4, <1>5, <1>6, <1>7 DEF Next, Proceed, AllAnswered

(* Every reachable state is well typed: whatever the calls, the row the    *)
(* handlers write stays a row of the table.                                *)
THEOREM TypeCorrect == Spec => []TypeOK
  BY TypeInit, TypeNext, PTL DEF Spec

-----------------------------------------------------------------------------
(* The inductive invariant behind OnlyApprovedRuns.  A committed approval  *)
(* may be overwritten by a stale payload, but it stays in the audit trail; *)
(* and no payload, committed or about to be, has an action cleared that no *)
(* audited request, nor the request that carries it, approved.             *)

ApprovalAudited(a) == \E q \in audit : Did(q, "approve", a)

Cleared(v) == {a \in Gated \cap DOMAIN v.payload.actions :
                 ~v.payload.actions[a].requires_approval}

Sent == \A r \in audit \cup effects : pc[r] # "new"

RowExplained == \A a \in Cleared(row) : ApprovalAudited(a)

ObjectsExplained ==
  \A r \in Requests : pc[r] # "new" =>
    \A a \in Cleared(new[r]) : ApprovalAudited(a) \/ Did(r, "approve", a)

NoObjectYet == \A r \in Requests : pc[r] = "new" => Cleared(new[r]) = {}

EffectsExplained ==
  \A r \in Requests :
    pc[r] = "effect" \/ r \in effects =>
      (op[r].action \in Gated => ApprovalAudited(op[r].action))

ApprovalInv ==
  TypeOK /\ Sent /\ RowExplained /\ ObjectsExplained /\ NoObjectYet /\ EffectsExplained

(* A new case clears no gated action, and no object outside a transaction  *)
(* has an action at all.                                                   *)
LEMMA NothingCleared == Cleared(Nothing) = {}
  BY DEF Cleared, Nothing, NewCase, NoActions

(* A new case has no cleared gated action.                                 *)
LEMMA NewCaseCleared == Cleared(NewCase("investigating", Planned)) = {}
<1>1. NewCase("investigating", Planned).payload.actions = Planned
  BY DEF NewCase
<1>2. \A a \in Gated : a \in Actions => Planned[a].requires_approval
  BY DEF Planned
<1>. QED BY <1>1, <1>2 DEF Cleared, Planned

(* The invariant holds of a new case.                                      *)
LEMMA ApprovalInit == Init => ApprovalInv
<1>. SUFFICES ASSUME Init PROVE ApprovalInv
  OBVIOUS
<1>1. Cleared(row) = {}
  BY NothingCleared, NewCaseCleared DEF Init, Nothing
<1>2. \A r \in Requests : Cleared(new[r]) = {}
  BY NothingCleared DEF Init
<1>3. audit = {} /\ effects = {} /\ pc = [r \in Requests |-> "new"]
  BY DEF Init
<1>. QED BY <1>1, <1>2, <1>3, TypeInit
     DEF ApprovalInv, Sent, RowExplained, ObjectsExplained, NoObjectYet, EffectsExplained

(* An audited approval stays audited: entries are only added, and the call *)
(* of a request that was sent does not change.                             *)
LEMMA ApprovalKept ==
  ASSUME NEW a, ApprovalAudited(a), audit \subseteq audit',
         \A q \in audit : op'[q] = op[q]
  PROVE  ApprovalAudited(a)'
  BY DEF ApprovalAudited, Did

(* A call loads the row: what it clears, the row cleared, or it approves.  *)
LEMMA ApprovalLoad ==
  ASSUME ApprovalInv, NEW r \in Requests, NEW o \in Ops, Load(r, o)
  PROVE  ApprovalInv'
<1>. USE DEF ApprovalInv
<1>0. TypeOK'
  BY TypeNext DEF Next
<1>1. /\ pc[r] = "new" /\ r \notin audit /\ r \notin effects
      /\ row' = row /\ audit' = audit /\ effects' = effects
  BY DEF Load, Sent
<1>2. /\ op'[r] = o
      /\ \A q \in Requests \ {r} : op'[q] = op[q] /\ pc'[q] = pc[q] /\ new'[q] = new[q]
  BY DEF Load, TypeOK
<1>3. /\ audit \subseteq audit'
      /\ \A q \in audit : op'[q] = op[q]
      /\ audit \subseteq Requests /\ effects \subseteq Requests
  BY <1>1, <1>2 DEF TypeOK
<1>4. \A a : ApprovalAudited(a) => ApprovalAudited(a)'
  BY <1>3, ApprovalKept
<1>5. pc'[r] # "new"
  BY DEF Load, TypeOK
<1>6. \A a \in Cleared(new'[r]) : ApprovalAudited(a) \/ Did(r, "approve", a)'
  <2>1. CASE Accepts(o, row)
    <3>1. new'[r] = Applied(o, row, r)
      BY <2>1 DEF Load, TypeOK
    <3>2. \A a \in Cleared(new'[r]) :
            a \in Cleared(row) \/ (o.kind = "approve" /\ o.action = a)
      BY <2>1, <3>1, AppliedType DEF Cleared, TypeOK
    <3>. QED BY <1>2, <3>2 DEF RowExplained, Did
  <2>2. CASE ~Accepts(o, row)
    <3>1. new' = new
      BY <2>2 DEF Load
    <3>. QED BY <1>1, <3>1 DEF NoObjectYet
  <2>. QED BY <2>1, <2>2
<1>7. pc'[r] = "effect" => (o.action \in Gated => ApprovalAudited(o.action))
  <2>. SUFFICES ASSUME pc'[r] = "effect", o.action \in Gated
                PROVE  ApprovalAudited(o.action)
    OBVIOUS
  <2>1. Accepts(o, row) /\ o.kind = "execute"
    BY DEF Load, TypeOK
  <2>2. o.action \in Cleared(row)
    BY <2>1 DEF Accepts, Cleared
  <2>. QED BY <2>2 DEF RowExplained
<1>8. Sent'
  BY <1>1, <1>2, <1>3, <1>5 DEF Sent
<1>9. RowExplained'
  BY <1>1, <1>4 DEF RowExplained, Cleared
<1>10. ObjectsExplained'
  <2>1. ASSUME NEW q \in Requests \ {r}, pc'[q] # "new", NEW a \in Cleared(new'[q])
        PROVE  ApprovalAudited(a)' \/ Did(q, "approve", a)'
    BY <1>2, <1>4, <2>1 DEF ObjectsExplained, Did
  <2>. QED BY <1>4, <1>6, <2>1 DEF ObjectsExplained, Cleared
<1>11. NoObjectYet'
  BY <1>2, <1>5 DEF NoObjectYet, Cleared
<1>12. EffectsExplained'
  <2>1. ASSUME NEW q \in Requests \ {r}, pc'[q] = "effect" \/ q \in effects',
               op'[q].action \in Gated
        PROVE  ApprovalAudited(op[q].action)'
    BY <1>1, <1>2, <1>4, <2>1 DEF EffectsExplained
  <2>. QED BY <1>1, <1>2, <1>4, <1>7, <2>1 DEF EffectsExplained
<1>. QED BY <1>0, <1>8, <1>9, <1>10, <1>11, <1>12

(* A step of a sent request leaves its call alone and neither its own      *)
(* object nor the row gains a cleared action without an audited approval.  *)
LEMMA ApprovalProceed ==
  ASSUME ApprovalInv, NEW r \in Requests, Proceed(r) \/ Abort(r)
  PROVE  ApprovalInv'
<1>. USE DEF ApprovalInv
<1>0. TypeOK'
  BY TypeNext DEF Next
<1>1. /\ op' = op /\ pc[r] # "new" /\ pc'[r] # "new" /\ pc'[r] # "effect"
      /\ \A q \in Requests \ {r} : pc'[q] = pc[q] /\ new'[q] = new[q]
      /\ audit' \subseteq audit \cup {r}
      /\ audit \subseteq audit'
      /\ effects' \subseteq effects \cup {r}
      /\ pc[r] = "effect" \/ effects' = effects
      /\ new'[r] = new[r] \/ new'[r] = Nothing
  BY DEF Proceed, RunConnector, Flush, Notify, Commit, Abort, CloseSession, TypeOK, InFlight
<1>2. \A a : ApprovalAudited(a) => ApprovalAudited(a)'
  BY <1>1, ApprovalKept
<1>3. RowExplained'
  <2>1. CASE row' = row
    BY <1>2, <2>1 DEF RowExplained, Cleared
  <2>2. CASE Commit(r)
    <3>1. row'.payload = row.payload \/ row'.payload = new[r].payload
      BY <2>2 DEF Commit, Columns
    <3>2. r \in audit'
      BY <2>2 DEF Commit
    <3>3. \A a : Did(r, "approve", a) => ApprovalAudited(a)'
      BY <1>1, <3>2 DEF ApprovalAudited, Did
    <3>4. Cleared(row') = Cleared(row) \/ Cleared(row') = Cleared(new[r])
      BY <3>1 DEF Cleared
    <3>5. \A a \in Cleared(row') : ApprovalAudited(a)'
      BY <1>1, <1>2, <3>3, <3>4 DEF RowExplained, ObjectsExplained
    <3>. QED BY <3>5 DEF RowExplained, Cleared
  <2>. QED BY <2>1, <2>2 DEF Proceed, RunConnector, Flush, Notify, Abort
<1>4. Sent'
  BY <1>1 DEF Sent, TypeOK
<1>5. ObjectsExplained'
  <2>1. ASSUME NEW q \in Requests, pc'[q] # "new", NEW a \in Cleared(new'[q])
        PROVE  ApprovalAudited(a)' \/ Did(q, "approve", a)'
    <3>1. pc[q] # "new" /\ a \in Cleared(new[q])
      BY <1>1, <2>1, NothingCleared
    <3>. QED BY <1>1, <1>2, <3>1 DEF ObjectsExplained, Did
  <2>. QED BY <2>1 DEF ObjectsExplained, Cleared
<1>6. NoObjectYet'
  BY <1>1 DEF NoObjectYet, Cleared
<1>7. EffectsExplained'
  BY <1>1, <1>2 DEF EffectsExplained
<1>. QED BY <1>0, <1>3, <1>4, <1>5, <1>6, <1>7

(* Every step keeps it: only an approval clears a gated action.            *)
LEMMA ApprovalNext == ApprovalInv /\ [Next]_vars => ApprovalInv'
<1>1. ASSUME ApprovalInv, UNCHANGED vars
      PROVE  ApprovalInv'
  BY <1>1 DEF ApprovalInv, vars, TypeOK, Sent, RowExplained, ObjectsExplained,
     NoObjectYet, EffectsExplained, ApprovalAudited, Did, Cleared
<1>. QED BY <1>1, ApprovalLoad, ApprovalProceed DEF Next, AllAnswered

(* A connector runs a gated action only when an approval of it has been    *)
(* committed and audited, for any number of requests in any order.         *)
THEOREM OnlyApprovedActionsRun == Spec => []OnlyApprovedRuns
<1>1. ApprovalInv => OnlyApprovedRuns
  BY DEF ApprovalInv, TypeOK, EffectsExplained, ApprovalAudited, OnlyApprovedRuns
<1>. QED BY <1>1, ApprovalInit, ApprovalNext, PTL DEF Spec

-----------------------------------------------------------------------------
(* What a handler does to the row it loaded, seen from the lifecycle.      *)

\* The steps CaseLifecycle allows, from a row v to a row w.
Approves(v, w) ==
  \E a \in Actions :
    /\ w.status = v.status /\ \A c \in Clocks : w[c] = v[c]
    /\ Awaiting(w) = Awaiting(v) \ {a} /\ Recorded(w) = Recorded(v)
Executes(v, w) ==
  \E a \in Actions :
    /\ a \notin Awaiting(v)
    /\ w.status = IF v.status = "investigating" THEN "contained" ELSE v.status
    /\ \A c \in Clocks : w[c] = v[c]
    /\ Awaiting(w) = Awaiting(v) /\ Recorded(w) = Recorded(v) \cup {a}
Moves(v, w) ==
  /\ w.status \in Allowed[v.status]
  /\ \A c \in Clocks : v[c] = None \/ w[c] = v[c]
  /\ Awaiting(w) = Awaiting(v) /\ Recorded(w) = Recorded(v)
Rests(v, w) ==
  /\ w.status = v.status /\ \A c \in Clocks : w[c] = v[c]
  /\ Awaiting(w) = Awaiting(v) /\ Recorded(w) = Recorded(v)
Follows(v, w) == Approves(v, w) \/ Executes(v, w) \/ Moves(v, w) \/ Rests(v, w)

Succeeded(v) ==
  {a \in DOMAIN v.payload.actions : v.payload.actions[a].execution = "success"}

\* No approval or result of v is lost in w.
Later(v, w) ==
  /\ DOMAIN w.payload.actions = DOMAIN v.payload.actions
  /\ Awaiting(w) \subseteq Awaiting(v) /\ Recorded(v) \subseteq Recorded(w)

\* The call o shows in the row w.
Shows(o, w) ==
  /\ o.kind = "approve" => o.action \in (DOMAIN w.payload.actions) \ Awaiting(w)
  /\ o.kind = "execute" => o.action \in Recorded(w)

Matches(v) == v.status = v.payload.status /\ v.assignee = v.payload.assignee

(* approve_action takes one action off those that await an approval.       *)
LEMMA ApprovedDoes ==
  ASSUME NEW v \in RowValues, NEW a \in DOMAIN v.payload.actions
  PROVE  LET w == Approved(v, a)
         IN /\ w.status = v.status /\ w.assignee = v.assignee
            /\ w.payload.status = v.payload.status /\ w.payload.assignee = v.payload.assignee
            /\ \A c \in Clocks : w[c] = v[c]
            /\ DOMAIN w.payload.actions = DOMAIN v.payload.actions
            /\ Awaiting(w) = Awaiting(v) \ {a} /\ Recorded(w) = Recorded(v)
            /\ Succeeded(w) = Succeeded(v)
<1>. DEFINE s == [v.payload.actions[a] EXCEPT !.requires_approval = FALSE]
            w == SetAction(v, a, s)
<1>1. s \in ActionStates /\ ~s.requires_approval /\ s.execution = v.payload.actions[a].execution
  BY ActionStateType DEF ActionStates
<1>. HIDE DEF s
<1>2. w.payload.actions = [v.payload.actions EXCEPT ![a] = s]
  BY <1>1, SetActionType
<1>3. /\ w.status = v.status /\ w.assignee = v.assignee
      /\ w.payload.status = v.payload.status /\ w.payload.assignee = v.payload.assignee
      /\ \A c \in Clocks : w[c] = v[c]
  BY DEF SetAction, RowValues, Payloads, Clocks
<1>4. Approved(v, a) = w
  BY DEF Approved, s
<1>. HIDE DEF w
<1>5. DOMAIN w.payload.actions = DOMAIN v.payload.actions
  BY <1>2
<1>6. /\ Awaiting(w) = Awaiting(v) \ {a} /\ Recorded(w) = Recorded(v)
      /\ Succeeded(w) = Succeeded(v)
  BY <1>1, <1>2, <1>5 DEF Awaiting, Recorded, Succeeded
<1>. QED BY <1>3, <1>4, <1>5, <1>6

(* execute_action records a result, and contains a case under              *)
(* investigation.                                                          *)
LEMMA ExecutedDoes ==
  ASSUME NEW v \in RowValues, NEW a \in DOMAIN v.payload.actions
  PROVE  LET w == Executed(v, a)
         IN /\ w.status = IF v.status = "investigating" THEN "contained" ELSE v.status
            /\ w.assignee = v.assignee /\ w.payload.assignee = v.payload.assignee
            /\ w.payload.status = IF v.status = "investigating" THEN "contained"
                                  ELSE v.payload.status
            /\ \A c \in Clocks : w[c] = v[c]
            /\ DOMAIN w.payload.actions = DOMAIN v.payload.actions
            /\ Awaiting(w) = Awaiting(v) /\ Recorded(w) = Recorded(v) \cup {a}
            /\ Succeeded(w) \subseteq Succeeded(v) \cup ({a} \cap Supported)
<1>. DEFINE s == [v.payload.actions[a] EXCEPT !.execution = Outcome(a)]
            done == SetAction(v, a, s)
            w == Executed(v, a)
<1>1. s \in ActionStates /\ s.requires_approval = v.payload.actions[a].requires_approval
      /\ s.execution # "none"
  BY ActionStateType DEF ActionStates, Outcome
<1>2. done \in RowValues /\ done.payload.actions = [v.payload.actions EXCEPT ![a] = s]
  <2>. HIDE DEF s
  <2>. QED BY <1>1, SetActionType
<1>3. /\ done.status = v.status /\ done.assignee = v.assignee
      /\ done.payload.status = v.payload.status /\ done.payload.assignee = v.payload.assignee
      /\ \A c \in Clocks : done[c] = v[c]
  <2>. HIDE DEF s
  <2>. QED BY DEF SetAction, RowValues, Payloads, Clocks
<1>4. w = IF v.status = "investigating" THEN SetStatus(done, "contained") ELSE done
  BY DEF Executed
<1>5. w.payload.actions = [v.payload.actions EXCEPT ![a] = s]
  <2>. HIDE DEF done, s, w
  <2>1. "contained" \in Statuses
    BY DEF Statuses
  <2>. QED BY <1>2, <1>4, <2>1, SetStatusType
<1>6. /\ w.status = (IF v.status = "investigating" THEN "contained" ELSE v.status)
      /\ w.assignee = v.assignee /\ w.payload.assignee = v.payload.assignee
      /\ w.payload.status = (IF v.status = "investigating" THEN "contained" ELSE v.payload.status)
      /\ \A c \in Clocks : w[c] = v[c]
  <2>. HIDE DEF done, w
  <2>. QED BY <1>2, <1>3, <1>4 DEF SetStatus, RowValues, Payloads, Clocks
<1>7. /\ DOMAIN w.payload.actions = DOMAIN v.payload.actions
      /\ Awaiting(w) = Awaiting(v) /\ Recorded(w) = Recorded(v) \cup {a}
  <2>. HIDE DEF s, w
  <2>. QED BY <1>1, <1>5 DEF Awaiting, Recorded
<1>8. s.execution = "success" => a \in Supported
  BY ActionStateType DEF ActionStates, Outcome
<1>9. Succeeded(w) \subseteq Succeeded(v) \cup ({a} \cap Supported)
  <2>. HIDE DEF s, w
  <2>. QED BY <1>5, <1>8 DEF Succeeded
<1>. HIDE DEF w
<1>10. w = Executed(v, a)
  BY DEF w
<1>. QED BY <1>6, <1>7, <1>9, <1>10

(* transition_status follows the workflow and keeps the clocks that        *)
(* stopped; set_assignee and add_note touch nothing of the lifecycle.      *)
LEMMA TransitionedDoes ==
  ASSUME NEW v \in RowValues, NEW target \in Statuses, NEW r \in Requests
  PROVE  LET w == Transitioned(v, target, r)
         IN /\ w.status = target /\ w.payload.status = target
            /\ w.assignee = v.assignee /\ w.payload.assignee = v.payload.assignee
            /\ w.payload.actions = v.payload.actions
            /\ \A c \in Clocks : v[c] = None \/ w[c] = v[c]
<1>. DEFINE u == SetStatus(v, target)
            w == Transitioned(v, target, r)
<1>1. /\ u \in RowValues /\ u.payload.actions = v.payload.actions
      /\ u.status = target
  BY SetStatusType
<1>2. /\ u.payload.status = target /\ u.payload.assignee = v.payload.assignee
      /\ u.assignee = v.assignee /\ \A c \in Clocks : u[c] = v[c]
  BY DEF SetStatus, RowValues, Payloads, Clocks
<1>3. w = [u EXCEPT !.acknowledged_at = IF target = "investigating" /\ @ = None THEN r ELSE @,
                    !.contained_at = IF target = "contained" /\ @ = None THEN r ELSE @]
  BY DEF Transitioned
<1>. HIDE DEF u, w
<1>4. w.status = u.status /\ w.assignee = u.assignee /\ w.payload = u.payload
  BY <1>1, <1>3 DEF RowValues
<1>5. \A c \in Clocks : u[c] = None \/ w[c] = u[c]
  BY <1>1, <1>3 DEF RowValues, Clocks
<1>6. w = Transitioned(v, target, r)
  BY DEF w
<1>. QED BY <1>1, <1>2, <1>4, <1>5, <1>6

(* A handler that accepts a call takes the row one step of the lifecycle   *)
(* on, loses nothing, and keeps columns and payload in agreement.          *)
LEMMA AppliedDoes ==
  ASSUME NEW o \in Ops, NEW v \in RowValues, NEW r \in Requests, Accepts(o, v)
  PROVE  LET w == Applied(o, v, r)
         IN /\ Follows(v, w) /\ Later(v, w) /\ Shows(o, w) /\ (Matches(v) => Matches(w))
            /\ \A a \in Succeeded(w) \ Succeeded(v) :
                 o.kind = "execute" /\ o.action = a /\ a \in Supported
<1>. DEFINE w == Applied(o, v, r)
<1>0. w = Applied(o, v, r)
  OBVIOUS
<1>. HIDE DEF w
<1>1. CASE o.kind = "approve"
  <2>1. o.action \in DOMAIN v.payload.actions
    BY <1>1 DEF Accepts
  <2>2. w = Approved(v, o.action) /\ o.action \in Actions
    BY <1>0, <1>1, <2>1, ActionStateType DEF Applied
  <2>3. /\ w.status = v.status /\ w.assignee = v.assignee
        /\ w.payload.status = v.payload.status /\ w.payload.assignee = v.payload.assignee
        /\ \A c \in Clocks : w[c] = v[c]
        /\ DOMAIN w.payload.actions = DOMAIN v.payload.actions
        /\ Awaiting(w) = Awaiting(v) \ {o.action} /\ Recorded(w) = Recorded(v)
        /\ Succeeded(w) = Succeeded(v)
    BY <2>1, <2>2, ApprovedDoes
  <2>4. Approves(v, w)
    BY <2>2, <2>3 DEF Approves
  <2>. QED BY <1>0, <1>1, <2>1, <2>3, <2>4 DEF Follows, Later, Shows, Matches
<1>2. CASE o.kind = "execute"
  <2>1. o.action \in DOMAIN v.payload.actions /\ o.action \notin Awaiting(v)
    BY <1>2 DEF Accepts, Awaiting
  <2>2. w = Executed(v, o.action) /\ o.action \in Actions
    BY <1>0, <1>2, <2>1, ActionStateType DEF Applied
  <2>3. /\ w.status = IF v.status = "investigating" THEN "contained" ELSE v.status
        /\ w.assignee = v.assignee /\ w.payload.assignee = v.payload.assignee
        /\ w.payload.status = IF v.status = "investigating" THEN "contained"
                              ELSE v.payload.status
        /\ \A c \in Clocks : w[c] = v[c]
        /\ DOMAIN w.payload.actions = DOMAIN v.payload.actions
        /\ Awaiting(w) = Awaiting(v) /\ Recorded(w) = Recorded(v) \cup {o.action}
        /\ Succeeded(w) \subseteq Succeeded(v) \cup ({o.action} \cap Supported)
    BY <2>1, <2>2, ExecutedDoes
  <2>4. Executes(v, w)
    BY <2>1, <2>2, <2>3 DEF Executes
  <2>. QED BY <1>0, <1>2, <2>1, <2>3, <2>4 DEF Follows, Later, Shows, Matches
<1>3. CASE o.kind = "transition"
  <2>1. o.target \in Statuses /\ o.target \in Allowed[v.status]
    BY <1>3 DEF Ops, Accepts
  <2>2. w = Transitioned(v, o.target, r)
    BY <1>0, <1>3 DEF Applied
  <2>3. /\ w.status = o.target /\ w.payload.status = o.target
        /\ w.assignee = v.assignee /\ w.payload.assignee = v.payload.assignee
        /\ w.payload.actions = v.payload.actions
        /\ \A c \in Clocks : v[c] = None \/ w[c] = v[c]
    BY <2>1, <2>2, TransitionedDoes
  <2>4. /\ Awaiting(w) = Awaiting(v) /\ Recorded(w) = Recorded(v)
        /\ Succeeded(w) = Succeeded(v)
    BY <2>3 DEF Awaiting, Recorded, Succeeded
  <2>5. Moves(v, w)
    BY <2>1, <2>3, <2>4 DEF Moves
  <2>. QED BY <1>0, <1>3, <2>3, <2>4, <2>5 DEF Follows, Later, Shows, Matches
<1>4. CASE o.kind = "assign"
  <2>1. w = Assigned(v, o.assignee)
    BY <1>0, <1>4 DEF Applied
  <2>2. /\ w.status = v.status /\ w.payload.status = v.payload.status
        /\ w.assignee = o.assignee /\ w.payload.assignee = o.assignee
        /\ w.payload.actions = v.payload.actions
        /\ \A c \in Clocks : w[c] = v[c]
    BY <2>1 DEF Assigned, RowValues, Payloads, Clocks
  <2>3. /\ Awaiting(w) = Awaiting(v) /\ Recorded(w) = Recorded(v)
        /\ Succeeded(w) = Succeeded(v)
    BY <2>2 DEF Awaiting, Recorded, Succeeded
  <2>4. Rests(v, w)
    BY <2>2, <2>3 DEF Rests
  <2>. QED BY <1>0, <1>4, <2>2, <2>3, <2>4 DEF Follows, Later, Shows, Matches
<1>5. CASE o.kind = "note"
  <2>1. w = v
    BY <1>0, <1>5 DEF Applied
  <2>. QED BY <1>0, <1>5, <2>1 DEF Follows, Rests, Later, Shows
<1>. QED BY <1>1, <1>2, <1>3, <1>4, <1>5 DEF Ops

-----------------------------------------------------------------------------
(* A request carries what its handler made of the row it loaded, and only  *)
(* a commit writes.                                                        *)

Carried ==
  /\ \A r \in Requests : pc[r] \in InFlight =>
       Accepts(op[r], view[r]) /\ new[r] = Applied(op[r], view[r], r)
  /\ \A r \in stale \cup audit : pc[r] = "committed"

CarryInv == TypeOK /\ Carried

(* The invariant holds before any request.                                 *)
LEMMA CarryInit == Init => CarryInv
<1>1. Init => Carried
  BY DEF Init, Carried, InFlight
<1>. QED BY <1>1, TypeInit DEF CarryInv

(* A request that is on its way keeps what it carries.                     *)
LEMMA CarryNext == CarryInv /\ [Next]_vars => CarryInv'
<1>. SUFFICES ASSUME CarryInv, [Next]_vars PROVE CarryInv'
  OBVIOUS
<1>0. TypeOK'
  BY TypeNext DEF CarryInv
<1>1. ASSUME NEW r \in Requests, NEW o \in Ops, Load(r, o) PROVE Carried'
  <2>1. /\ pc[r] = "new" /\ stale' = stale /\ audit' = audit /\ op'[r] = o
        /\ \A q \in Requests \ {r} : /\ pc'[q] = pc[q] /\ op'[q] = op[q]
                                    /\ view'[q] = view[q] /\ new'[q] = new[q]
    BY <1>1 DEF Load, CarryInv, TypeOK
  <2>2. pc'[r] \in InFlight =>
          Accepts(o, row) /\ view'[r] = row /\ new'[r] = Applied(o, row, r)
    BY <1>1 DEF Load, CarryInv, TypeOK, InFlight
  <2>3. r \notin stale \cup audit
    BY <2>1 DEF CarryInv, Carried
  <2>. QED BY <2>1, <2>2, <2>3 DEF CarryInv, Carried, TypeOK
<1>2. ASSUME NEW r \in Requests, RunConnector(r) \/ Flush(r) \/ Notify(r) PROVE Carried'
  <2>1. /\ UNCHANGED <<op, view, new, stale, audit>>
        /\ pc[r] \in InFlight
        /\ \A q \in Requests \ {r} : pc'[q] = pc[q]
    BY <1>2 DEF RunConnector, Flush, Notify, CarryInv, TypeOK, InFlight
  <2>2. r \notin stale \cup audit
    BY <2>1 DEF CarryInv, Carried, InFlight
  <2>. QED BY <2>1, <2>2 DEF CarryInv, Carried, TypeOK
<1>3. ASSUME NEW r \in Requests, Commit(r) \/ Abort(r) PROVE Carried'
  <2>1. /\ UNCHANGED op
        /\ pc[r] \in InFlight /\ pc'[r] \notin InFlight
        /\ \A q \in Requests \ {r} : pc'[q] = pc[q] /\ view'[q] = view[q] /\ new'[q] = new[q]
        /\ stale \cup audit \subseteq stale' \cup audit'
        /\ \/ stale' \cup audit' = stale \cup audit
           \/ stale' \cup audit' = stale \cup audit \cup {r} /\ pc'[r] = "committed"
    BY <1>3 DEF Commit, Abort, CloseSession, CarryInv, TypeOK, InFlight
  <2>2. r \notin stale \cup audit
    BY <2>1 DEF CarryInv, Carried, InFlight
  <2>. QED BY <2>1, <2>2 DEF CarryInv, Carried, TypeOK
<1>4. ASSUME UNCHANGED vars PROVE Carried'
  <2>1. UNCHANGED <<pc, op, view, new, stale, audit>>
    BY <1>4 DEF vars
  <2>. QED BY <2>1 DEF CarryInv, Carried
<1>5. Carried'
  BY <1>1, <1>2, <1>3, <1>4 DEF Next, Proceed, AllAnswered
<1>. QED BY <1>0, <1>5 DEF CarryInv

(* Rows with the same columns are the same.                                *)
LEMMA SameColumns ==
  ASSUME NEW v \in RowValues, NEW w \in RowValues, \A c \in Columns : v[c] = w[c]
  PROVE  v = w
BY DEF RowValues, Columns

(* A commit that writes over no newer row leaves the row as it is, or      *)
(* makes of it what its handler computed.                                  *)
LEMMA CommitWrites ==
  ASSUME CarryInv, NEW r \in Requests, Commit(r), stale' = stale
  PROVE  \/ row' = row /\ new[r] = view[r]
         \/ view[r] = row /\ row' = new[r]
<1>1. row \in RowValues /\ row' \in RowValues /\ new[r] \in RowValues /\ view[r] \in RowValues
  BY TypeNext DEF Next, Proceed, CarryInv, TypeOK
<1>2. \A c \in Columns : row'[c] = IF c \in Dirty(r) THEN new[r][c] ELSE row[c]
  BY DEF Commit
<1>3. CASE Dirty(r) = {}
  <2>1. \A c \in Columns : row'[c] = row[c] /\ new[r][c] = view[r][c]
    BY <1>2, <1>3 DEF Dirty
  <2>. QED BY <1>1, <2>1, SameColumns
<1>4. CASE Dirty(r) # {}
  <2>1. r \notin stale
    BY DEF CarryInv, Carried, Commit
  <2>2. view[r] = row
    BY <1>4, <2>1 DEF Commit
  <2>3. \A c \in Columns : row'[c] = new[r][c]
    BY <1>2, <2>2 DEF Dirty
  <2>. QED BY <1>1, <2>2, <2>3, SameColumns
<1>. QED BY <1>3, <1>4

(* Every step leaves the row, is a commit, or counts as an overwrite.      *)
LEMMA RowSteps ==
  ASSUME CarryInv, [Next]_vars
  PROVE  \/ UNCHANGED <<row, stale, audit>>
         \/ stale' # stale /\ stale \subseteq stale'
         \/ \E r \in Requests : Commit(r) /\ stale' = stale
<1>1. ASSUME NEW r \in Requests, NEW o \in Ops, Load(r, o) PROVE UNCHANGED <<row, stale, audit>>
  BY <1>1 DEF Load
<1>2. ASSUME NEW r \in Requests, RunConnector(r) \/ Flush(r) \/ Notify(r) \/ Abort(r)
      PROVE  UNCHANGED <<row, stale, audit>>
  BY <1>2 DEF RunConnector, Flush, Notify, Abort
<1>3. ASSUME NEW r \in Requests, Commit(r) PROVE stale \subseteq stale'
  BY <1>3 DEF Commit
<1>4. CASE UNCHANGED vars
  BY <1>4 DEF vars
<1>. QED BY <1>1, <1>2, <1>3, <1>4 DEF Next, Proceed, AllAnswered

(* A commit over the row it loaded takes the row one step on.              *)
LEMMA CommitFollows ==
  ASSUME CarryInv, NEW r \in Requests, Commit(r), stale' = stale
  PROVE  /\ Follows(row, row') \/ row' = row
         /\ Later(row, row') /\ (Matches(row) => Matches(row'))
         /\ Shows(op[r], new[r])
         /\ row' = new[r] \/ (row' = row /\ new[r] = view[r])
<1>1. /\ Accepts(op[r], view[r]) /\ new[r] = Applied(op[r], view[r], r)
      /\ op[r] \in Ops /\ view[r] \in RowValues
  BY DEF CarryInv, Carried, TypeOK, Commit, InFlight
<1>2. PICK o \in Ops, v \in RowValues : o = op[r] /\ v = view[r]
  BY <1>1
<1>3. LET w == Applied(o, v, r)
      IN /\ Follows(v, w) /\ Later(v, w) /\ Shows(o, w) /\ (Matches(v) => Matches(w))
  BY <1>1, <1>2, AppliedDoes
<1>4. /\ Follows(view[r], new[r]) /\ Later(view[r], new[r]) /\ Shows(op[r], new[r])
      /\ Matches(view[r]) => Matches(new[r])
  BY <1>1, <1>2, <1>3
<1>5. CASE row' = row /\ new[r] = view[r]
  BY <1>4, <1>5 DEF Later
<1>6. CASE view[r] = row /\ row' = new[r]
  BY <1>4, <1>6
<1>. QED BY <1>5, <1>6, CommitWrites

(* Columns and payload agree until a request writes over a newer row.      *)
THEOREM ColumnsAgree == Spec => []ColumnsMatchPayload
<1>1. Init => ColumnsMatchPayload
  BY DEF Init, ColumnsMatchPayload, NewCase
<1>2. CarryInv /\ ColumnsMatchPayload /\ [Next]_vars => ColumnsMatchPayload'
  <2>. SUFFICES ASSUME CarryInv, ColumnsMatchPayload, [Next]_vars, stale' = {}
                PROVE  Matches(row')
    BY DEF ColumnsMatchPayload, Matches
  <2>1. CASE UNCHANGED <<row, stale, audit>>
    BY <2>1 DEF ColumnsMatchPayload, Matches
  <2>2. ASSUME NEW r \in Requests, Commit(r), stale' = stale PROVE Matches(row')
    BY <2>2, CommitFollows DEF ColumnsMatchPayload, Matches
  <2>3. ~(stale' # stale /\ stale \subseteq stale')
    OBVIOUS
  <2>. QED BY <2>1, <2>2, <2>3, RowSteps
<1>. QED BY <1>1, <1>2, CarryInit, CarryNext, PTL DEF Spec

-----------------------------------------------------------------------------
(* What is audited shows.                                                  *)

AuditInv ==
  stale = {} =>
    /\ \A r \in Requests : pc[r] \in InFlight => Later(view[r], row)
    /\ \A r \in audit : Shows(op[r], row)

(* What shows in a row shows in every later one.                           *)
LEMMA ShowsLater ==
  ASSUME NEW o, NEW v, NEW w, Shows(o, v), Later(v, w)
  PROVE  Shows(o, w)
BY DEF Shows, Later

(* Every step keeps it, as long as no request overwrites.                  *)
LEMMA AuditNext == CarryInv /\ AuditInv /\ [Next]_vars => AuditInv'
<1>. SUFFICES ASSUME CarryInv, AuditInv, [Next]_vars, stale' = {} PROVE AuditInv'
  BY DEF AuditInv
<1>. USE DEF CarryInv, TypeOK
<1>1. ASSUME NEW r \in Requests, NEW o \in Ops, Load(r, o) PROVE AuditInv'
  <2>1. /\ UNCHANGED <<row, stale, audit>> /\ pc[r] = "new"
        /\ \A q \in Requests \ {r} : pc'[q] = pc[q] /\ op'[q] = op[q] /\ view'[q] = view[q]
        /\ pc'[r] \in InFlight => view'[r] = row
    BY <1>1 DEF Load, InFlight
  <2>2. r \notin audit
    BY <2>1 DEF Carried
  <2>3. Later(row, row)
    BY DEF Later
  <2>. QED BY <2>1, <2>2, <2>3 DEF AuditInv
<1>2. ASSUME NEW r \in Requests, RunConnector(r) \/ Flush(r) \/ Notify(r) \/ Abort(r)
      PROVE  AuditInv'
  <2>1. /\ UNCHANGED <<row, op, stale, audit>> /\ pc[r] \in InFlight
        /\ \A q \in Requests \ {r} : pc'[q] = pc[q] /\ view'[q] = view[q]
        /\ pc'[r] \in InFlight => view'[r] = view[r]
    BY <1>2 DEF RunConnector, Flush, Notify, Abort, CloseSession, InFlight
  <2>. QED BY <2>1 DEF AuditInv
<1>3. ASSUME NEW r \in Requests, Commit(r) PROVE AuditInv'
  <2>1. /\ stale = {} /\ stale' = stale /\ op' = op /\ audit' = audit \cup {r}
        /\ pc[r] \in InFlight /\ pc'[r] \notin InFlight
        /\ \A q \in Requests \ {r} : pc'[q] = pc[q] /\ view'[q] = view[q]
    BY <1>3 DEF Commit, CloseSession, InFlight
  <2>2. /\ Later(row, row') /\ Shows(op[r], new[r])
        /\ row' = new[r] \/ (row' = row /\ new[r] = view[r])
    BY <1>3, <2>1, CommitFollows
  <2>3. Shows(op[r], row')
    <3>1. Later(view[r], row)
      BY <2>1 DEF AuditInv
    <3>. QED BY <2>2, <3>1, ShowsLater
  <2>4. \A q \in audit : Shows(op[q], row')
    BY <2>1, <2>2, ShowsLater DEF AuditInv
  <2>5. \A q \in Requests \ {r} : pc[q] \in InFlight => Later(view[q], row')
    BY <2>1, <2>2 DEF AuditInv, Later
  <2>. QED BY <2>1, <2>3, <2>4, <2>5 DEF AuditInv
<1>4. ASSUME UNCHANGED vars PROVE AuditInv'
  <2>1. UNCHANGED <<row, pc, op, view, stale, audit>>
    BY <1>4 DEF vars
  <2>. QED BY <2>1 DEF AuditInv
<1>. QED BY <1>1, <1>2, <1>3, <1>4 DEF Next, Proceed, AllAnswered

(* The case shows every approval and result the audit trail has, until a   *)
(* request writes over a newer row.                                        *)
THEOREM AuditsShow == Spec => []AuditMatchesCase
<1>1. Init => AuditInv
  BY DEF Init, AuditInv, InFlight
<1>2. AuditInv => AuditMatchesCase
  BY DEF AuditInv, AuditMatchesCase, Shows, Awaiting, Recorded
<1>. QED BY <1>1, <1>2, AuditNext, CarryInit, CarryNext, PTL DEF Spec

-----------------------------------------------------------------------------
(* Every step of the store is one of the lifecycle, or none.               *)

(* A new case starts a lifecycle.                                          *)
LEMMA LifecycleInit == Init => Lifecycle!Init
<1>. SUFFICES ASSUME Init PROVE Lifecycle!Init
  OBVIOUS
<1>1. row \in RowValues
  BY NewCaseType DEF Init, Nothing
<1>2. row.status \in {"investigating", "false_positive"}
  BY DEF Init, NewCase
<1>3. row.acknowledged_at = None /\ row.contained_at = None
  BY DEF Init, NewCase
<1>4. \A a \in DOMAIN row.payload.actions :
        a \in Actions /\ row.payload.actions[a].execution = "none"
  <2>1. row.payload.actions = Planned \/ row.payload.actions = NoActions
    BY DEF Init, NewCase
  <2>. QED BY <2>1 DEF Planned, NoActions
<1>5. Awaiting(row) \in SUBSET Actions /\ Recorded(row) = {}
  BY <1>4 DEF Awaiting, Recorded
<1>6. [c \in Clocks |-> row[c]] = [c \in Clocks |-> None]
  BY <1>3 DEF Clocks
<1>7. stale = {}
  BY DEF Init
<1>. QED BY <1>2, <1>5, <1>6, <1>7 DEF Lifecycle!Init

(* What a handler computes from the row is a step of the lifecycle.        *)
LEMMA FollowsLifecycle ==
  ASSUME Follows(row, row'), stale' = stale
  PROVE  [Lifecycle!Next]_(Lifecycle!vars)
<1>1. CASE Approves(row, row')
  BY <1>1 DEF Approves, Lifecycle!Next, Lifecycle!Approve
<1>2. CASE Executes(row, row')
  BY <1>2 DEF Executes, Lifecycle!Next, Lifecycle!Execute
<1>3. CASE Moves(row, row')
  BY <1>3 DEF Moves, Lifecycle!Next, Lifecycle!Move
<1>4. CASE Rests(row, row')
  BY <1>4 DEF Rests, Lifecycle!vars
<1>. QED BY <1>1, <1>2, <1>3, <1>4 DEF Follows

(* The row refines the lifecycle of a case: its status follows the         *)
(* workflow, gated actions run approved, and approvals, results and        *)
(* timestamps are undone by overwrites only.                               *)
THEOREM StoreImplementsLifecycle == Spec => ImplementsLifecycle
<1>1. CarryInv /\ [Next]_vars => [Lifecycle!Next]_(Lifecycle!vars)
  <2>. SUFFICES ASSUME CarryInv, [Next]_vars PROVE [Lifecycle!Next]_(Lifecycle!vars)
    OBVIOUS
  <2>1. CASE UNCHANGED <<row, stale, audit>>
    BY <2>1 DEF Lifecycle!vars, Awaiting, Recorded
  <2>2. CASE stale' # stale
    BY <2>2 DEF Lifecycle!Next, Lifecycle!Overwrite
  <2>3. ASSUME NEW r \in Requests, Commit(r), stale' = stale
        PROVE  [Lifecycle!Next]_(Lifecycle!vars)
    <3>1. CASE row' = row
      BY <2>3, <3>1 DEF Lifecycle!vars, Awaiting, Recorded
    <3>2. CASE Follows(row, row')
      BY <2>3, <3>2, FollowsLifecycle
    <3>. QED BY <2>3, <3>1, <3>2, CommitFollows
  <2>. QED BY <2>1, <2>2, <2>3, RowSteps
<1>. QED BY <1>1, LifecycleInit, CarryInit, CarryNext, PTL
         DEF Spec, ImplementsLifecycle, Lifecycle!Spec

-----------------------------------------------------------------------------
(* What shows as executed ran.  A success in a row, or in an object loaded *)
(* from one, comes from an audited request whose connector ran; an object  *)
(* adds at most the success its own request had.                           *)

Ran(a) == \E r \in effects \cap audit : Did(r, "execute", a)

RanInv ==
  /\ \A a \in Succeeded(row) : Ran(a)
  /\ \A r \in Requests : pc[r] \in InFlight =>
       /\ \A a \in Succeeded(view[r]) : Ran(a)
       /\ op[r].kind = "execute" /\ op[r].action \in Supported /\ pc[r] # "effect" =>
            r \in effects

(* A success that was audited stays so.                                    *)
LEMMA RanKept ==
  ASSUME CarryInv, [Next]_vars, NEW a, Ran(a)
  PROVE  Ran(a)'
<1>1. effects \subseteq effects' /\ audit \subseteq audit'
  <2>1. ASSUME NEW r \in Requests, NEW o \in Ops, Load(r, o)
        PROVE  effects \subseteq effects' /\ audit \subseteq audit'
    BY <2>1 DEF Load
  <2>2. ASSUME NEW r \in Requests, Proceed(r) \/ Abort(r)
        PROVE  effects \subseteq effects' /\ audit \subseteq audit'
    BY <2>2 DEF Proceed, RunConnector, Flush, Notify, Commit, Abort
  <2>3. ASSUME UNCHANGED vars PROVE effects \subseteq effects' /\ audit \subseteq audit'
    BY <2>3 DEF vars
  <2>. QED BY <2>1, <2>2, <2>3 DEF Next, AllAnswered
<1>2. \A q \in audit : op'[q] = op[q]
  <2>1. ASSUME NEW r \in Requests, NEW o \in Ops, Load(r, o) PROVE \A q \in audit : op'[q] = op[q]
    BY <2>1 DEF Load, CarryInv, Carried, TypeOK
  <2>2. ASSUME NEW r \in Requests, Proceed(r) \/ Abort(r) PROVE op' = op
    BY <2>2 DEF Proceed, RunConnector, Flush, Notify, Commit, Abort
  <2>3. ASSUME UNCHANGED vars PROVE op' = op
    BY <2>3 DEF vars
  <2>. QED BY <2>1, <2>2, <2>3 DEF Next, AllAnswered
<1>. QED BY <1>1, <1>2 DEF Ran, Did

(* A handler adds no success but the one its connector reported.           *)
LEMMA AppliedSucceeds ==
  ASSUME CarryInv, NEW r \in Requests, pc[r] \in InFlight,
         NEW a \in Succeeded(new[r]) \ Succeeded(view[r])
  PROVE  op[r].kind = "execute" /\ op[r].action = a /\ a \in Supported
<1>1. /\ Accepts(op[r], view[r]) /\ new[r] = Applied(op[r], view[r], r)
      /\ op[r] \in Ops /\ view[r] \in RowValues
  BY DEF CarryInv, Carried, TypeOK
<1>2. PICK o \in Ops, v \in RowValues : o = op[r] /\ v = view[r]
  BY <1>1
<1>3. LET w == Applied(o, v, r)
      IN \A b \in Succeeded(w) \ Succeeded(v) : o.kind = "execute" /\ o.action = b /\ b \in Supported
  BY <1>1, <1>2, AppliedDoes
<1>. QED BY <1>1, <1>2, <1>3

(* Every step keeps it.                                                    *)
LEMMA RanNext == CarryInv /\ RanInv /\ [Next]_vars => RanInv'
<1>. SUFFICES ASSUME CarryInv, RanInv, [Next]_vars PROVE RanInv'
  OBVIOUS
<1>. USE DEF CarryInv, TypeOK
<1>0. \A a : Ran(a) => Ran(a)'
  BY RanKept
<1>1. ASSUME NEW r \in Requests, NEW o \in Ops, Load(r, o) PROVE RanInv'
  <2>1. /\ UNCHANGED <<row, effects>> /\ op'[r] = o
        /\ \A q \in Requests \ {r} : pc'[q] = pc[q] /\ op'[q] = op[q] /\ view'[q] = view[q]
        /\ pc'[r] \in InFlight => view'[r] = row
        /\ pc'[r] \in InFlight /\ o.kind = "execute" => pc'[r] = "effect"
    BY <1>1 DEF Load, InFlight
  <2>. QED BY <1>0, <2>1 DEF RanInv, Succeeded
<1>2. ASSUME NEW r \in Requests, RunConnector(r) \/ Flush(r) \/ Notify(r) \/ Abort(r)
      PROVE  RanInv'
  <2>1. /\ UNCHANGED <<row, op>> /\ pc[r] \in InFlight /\ effects \subseteq effects'
        /\ \A q \in Requests \ {r} : pc'[q] = pc[q] /\ view'[q] = view[q]
        /\ pc'[r] \in InFlight => view'[r] = view[r]
        /\ pc[r] = "effect" /\ op[r].action \in Supported /\ pc'[r] \in InFlight => r \in effects'
    BY <1>2 DEF RunConnector, Flush, Notify, Abort, CloseSession, InFlight
  <2>. QED BY <1>0, <2>1 DEF RanInv, Succeeded
<1>3. ASSUME NEW r \in Requests, Commit(r) PROVE RanInv'
  <2>1. /\ UNCHANGED <<op, effects>> /\ audit' = audit \cup {r}
        /\ pc[r] = "flushed" /\ pc[r] \in InFlight /\ pc'[r] \notin InFlight
        /\ \A q \in Requests \ {r} : pc'[q] = pc[q] /\ view'[q] = view[q]
        /\ row'.payload = row.payload \/ row'.payload = new[r].payload
    BY <1>3 DEF Commit, CloseSession, InFlight, Columns
  <2>2. ASSUME NEW a \in Succeeded(new[r]) PROVE Ran(a)'
    <3>1. CASE a \in Succeeded(view[r])
      BY <1>0, <2>1, <3>1 DEF RanInv
    <3>2. CASE a \notin Succeeded(view[r])
      <4>1. op[r].kind = "execute" /\ op[r].action = a /\ a \in Supported
        BY <2>1, <3>2, AppliedSucceeds
      <4>2. r \in effects' \cap audit'
        BY <2>1, <4>1 DEF RanInv
      <4>. QED BY <2>1, <4>1, <4>2 DEF Ran, Did
    <3>. QED BY <3>1, <3>2
  <2>3. Succeeded(row') = Succeeded(row) \/ Succeeded(row') = Succeeded(new[r])
    BY <2>1 DEF Succeeded
  <2>4. \A a \in Succeeded(row') : Ran(a)'
    BY <1>0, <2>2, <2>3 DEF RanInv
  <2>. QED BY <1>0, <2>1, <2>4 DEF RanInv, Succeeded
<1>4. ASSUME UNCHANGED vars PROVE RanInv'
  <2>1. UNCHANGED <<row, pc, op, view, effects, audit>>
    BY <1>4 DEF vars
  <2>. QED BY <2>1 DEF RanInv, Ran, Did, Succeeded
<1>. QED BY <1>1, <1>2, <1>3, <1>4 DEF Next, Proceed, AllAnswered

(* What the case shows as executed ran, in a request that is audited:      *)
(* rolled-back work never shows, however requests overlap and overwrite.   *)
THEOREM ShownWorkRan == Spec => []ShownExecutionsRan
<1>1. Init => RanInv
  <2>. SUFFICES ASSUME Init PROVE RanInv
    OBVIOUS
  <2>1. row.payload.actions = Planned \/ row.payload.actions = NoActions
    BY DEF Init, NewCase
  <2>2. Succeeded(row) = {}
    BY <2>1 DEF Succeeded, Planned, NoActions
  <2>. QED BY <2>2 DEF Init, RanInv, InFlight
<1>2. RanInv => ShownExecutionsRan
  BY DEF RanInv, Ran, Succeeded, ShownExecutionsRan
<1>. QED BY <1>1, <1>2, RanNext, CarryInit, CarryNext, PTL DEF Spec
-----------------------------------------------------------------------------
(* The row lock.                                                           *)

\* The calls that have written and not yet ended.
Writing == {r \in Requests : pc[r] \in {"notify", "flushed"}}

LockInv == lock \in Writing \cup {None}

(* Every step keeps the lock with a call that has written.                 *)
LEMMA LockNext == TypeOK /\ LockInv /\ [Next]_vars => LockInv'
<1>. SUFFICES ASSUME TypeOK, LockInv, [Next]_vars PROVE LockInv'
  OBVIOUS
<1>1. ASSUME NEW r \in Requests, NEW o \in Ops, Load(r, o) PROVE LockInv'
  BY <1>1 DEF Load, TypeOK, LockInv, Writing
<1>2. ASSUME NEW r \in Requests, RunConnector(r) PROVE LockInv'
  BY <1>2 DEF RunConnector, TypeOK, LockInv, Writing
<1>3. ASSUME NEW r \in Requests, Flush(r) PROVE LockInv'
  <2>1. pc[r] = "flush" /\ pc'[r] \in {"notify", "flushed"}
        /\ \A q \in Requests \ {r} : pc'[q] = pc[q]
    BY <1>3 DEF Flush, TypeOK
  <2>2. lock' = lock \/ lock' = r
    BY <1>3 DEF Flush
  <2>. QED BY <2>1, <2>2 DEF LockInv, Writing
<1>4. ASSUME NEW r \in Requests, Notify(r) PROVE LockInv'
  BY <1>4 DEF Notify, TypeOK, LockInv, Writing
<1>5. ASSUME NEW r \in Requests, Commit(r) \/ Abort(r) PROVE LockInv'
  <2>1. lock' = (IF lock = r THEN None ELSE lock)
        /\ \A q \in Requests \ {r} : pc'[q] = pc[q]
    BY <1>5 DEF Commit, Abort, CloseSession, TypeOK
  <2>. QED BY <2>1 DEF LockInv, Writing
<1>6. CASE UNCHANGED vars
  BY <1>6 DEF vars, LockInv, Writing
<1>. QED BY <1>1, <1>2, <1>3, <1>4, <1>5, <1>6 DEF Next, Proceed, AllAnswered

(* Nobody waits for the lock of a call that has ended, or of one that      *)
(* waits itself: its holder has written and goes on to notify or commit.   *)
THEOREM LockIsNeverLost == Spec => [](lock \in Writing \cup {None})
<1>1. Init => LockInv
  BY DEF Init, LockInv
<1>. QED BY <1>1, LockNext, TypeCorrect, PTL DEF Spec, LockInv

=============================================================================
