-------------------------- MODULE IncidentRefresh --------------------------
(***************************************************************************)
(* How runs keep a tenant's incidents: every POST /investigations/run      *)
(* saves its investigations, lists the tenant's, correlates the list, and  *)
(* replaces all incident rows by the result, in one transaction that       *)
(* shares the tables with the other runs (READ COMMITTED).                 *)
(*                                                                         *)
(* The list is ordered by risk and creation time.  A case's place in that  *)
(* order is its id, riskier and younger cases having smaller ones.         *)
(***************************************************************************)
EXTENDS Correlation

CONSTANTS
  Runs,
  Cases,        \* what a detection can become: id, entity, indicators
  HighRisk,     \* ids of cases whose risk reaches the alert threshold
  ListLimit,    \* the default page size of InvestigationRepository.list
  RowId(_)      \* the order of the rows by their primary keys

ASSUME FiniteCases == IsFiniteSet(Cases)
ASSUME CaseIds == \A c, d \in Cases : c.id \in Nat /\ (c.id = d.id => c = d)
ASSUME ListLimitIsNat == ListLimit \in Nat

Ids(S) == {c.id : c \in S}

Rows == [run : Runs, members : SUBSET Ids(Cases)]

ASSUME RowIds ==
  \A row, other \in Rows : RowId(row) \in Nat /\ (RowId(row) = RowId(other) => row = other)

VARIABLES
  cases,        \* committed investigations
  incidents,    \* committed incident rows: the run that wrote them, their group
  pc,
  created,      \* investigations a run has saved but not committed
  listed,       \* the page of investigations it correlates
  seen,         \* the incident rows it read and is going to delete
  deleted,      \* those it has deleted, whose row locks it holds
  fresh,        \* the incident rows it inserts
  alerts,       \* incidents whose alert was delivered
  lost,         \* incidents whose alert the webhook refused or did not answer
  crowded       \* history: runs that were under way together with another

vars == <<cases, incidents, pc, created, listed, seen, deleted, fresh, alerts, lost, crowded>>

-----------------------------------------------------------------------------
UnderWay == {r \in Runs : pc[r] \in {"saved", "listed", "replacing", "replaced", "alerted"}}

\* The first page of a set of investigations.
Page(S) ==
  LET rank(c) == Cardinality({d \in S : d.id <= c.id})
  IN [i \in 1..(IF Cardinality(S) < ListLimit THEN Cardinality(S) ELSE ListLimit) |->
        CHOOSE c \in S : rank(c) = i]

Incidents(r, items) ==
  LET groups == Correlate(items)
  IN {[run |-> r, members |-> groups[i].members] : i \in DOMAIN groups}

Covered(S) == UNION {inc.members : inc \in S}

\* The risk of an incident is the greatest of its members'.
Alerting(S) == {inc \in S : inc.members \cap HighRisk # {}}

Init ==
  /\ cases = {}
  /\ incidents = {}
  /\ pc = [r \in Runs |-> "new"]
  /\ created = [r \in Runs |-> {}]
  /\ listed = [r \in Runs |-> <<>>]
  /\ seen = [r \in Runs |-> {}]
  /\ fresh = [r \in Runs |-> {}]
  /\ deleted = [r \in Runs |-> {}]
  /\ alerts = {}
  /\ lost = {}
  /\ crowded = {}

\* The pipeline has run; its investigations are inserted.
Save(r) ==
  /\ pc[r] = "new"
  /\ \E S \in SUBSET (Cases \ (cases \cup UNION {created[q] : q \in Runs})) :
       created' = [created EXCEPT ![r] = S]
  /\ pc' = [pc EXCEPT ![r] = "saved"]
  /\ crowded' = IF UnderWay = {} THEN crowded ELSE crowded \cup UnderWay \cup {r}
  /\ UNCHANGED <<cases, incidents, listed, seen, deleted, fresh, alerts, lost>>

\* Mutant: the list shows what others have not committed.
ListDirty(r) ==
  /\ pc[r] = "saved"
  /\ listed' = [listed EXCEPT ![r] = Page(cases \cup UNION {created[q] : q \in Runs})]
  /\ pc' = [pc EXCEPT ![r] = "listed"]
  /\ UNCHANGED <<cases, incidents, created, seen, deleted, fresh, alerts, lost, crowded>>

\* repo.list without filters: committed investigations and the run's own.
List(r) ==
  /\ pc[r] = "saved"
  /\ listed' = [listed EXCEPT ![r] = Page(cases \cup created[r])]
  /\ pc' = [pc EXCEPT ![r] = "listed"]
  /\ UNCHANGED <<cases, incidents, created, seen, deleted, fresh, alerts, lost, crowded>>

\* replace_all, its SELECT.
ReadIncidents(r) ==
  /\ pc[r] = "listed"
  /\ seen' = [seen EXCEPT ![r] = incidents]
  /\ pc' = [pc EXCEPT ![r] = "replacing"]
  /\ UNCHANGED <<cases, incidents, created, listed, deleted, fresh, alerts, lost, crowded>>

\* Another transaction has deleted the row and not ended.  A row that is gone is
\* not waited for: its DELETE matches nothing.
Locked(row, r) ==
  row \in incidents /\ \E q \in Runs \ {r} : row \in deleted[q]

\* Mutant: the rows are deleted in the order in which they come.
DeleteInAnyOrder(r) ==
  /\ pc[r] = "replacing"
  /\ \E row \in seen[r] \ deleted[r] :
       /\ ~Locked(row, r)
       /\ deleted' = [deleted EXCEPT ![r] = @ \cup {row}]
  /\ UNCHANGED <<cases, incidents, pc, created, listed, seen, fresh, alerts, lost, crowded>>

\* replace_all, its flush: a DELETE for each row, in the order of their keys; it
\* holds the locks of the rows before while it waits for the next.
Delete(r) ==
  /\ pc[r] = "replacing"
  /\ \E row \in seen[r] \ deleted[r] :
       /\ \A other \in seen[r] \ deleted[r] : RowId(row) <= RowId(other)
       /\ ~Locked(row, r)
       /\ deleted' = [deleted EXCEPT ![r] = @ \cup {row}]
  /\ UNCHANGED <<cases, incidents, pc, created, listed, seen, fresh, alerts, lost, crowded>>

\* The flush has also inserted the new rows, which nobody else sees yet.
Replace(r) ==
  /\ pc[r] = "replacing" /\ deleted[r] = seen[r]
  /\ fresh' = [fresh EXCEPT ![r] = Incidents(r, listed[r])]
  /\ pc' = [pc EXCEPT ![r] = "replaced"]
  /\ UNCHANGED <<cases, incidents, created, listed, seen, deleted, alerts, lost, crowded>>

\* Mutant: the alert is about the incidents that are being replaced.
AlertReplaced(r) ==
  /\ pc[r] = "replaced"
  /\ alerts' = alerts \cup Alerting(seen[r])
  /\ pc' = [pc EXCEPT ![r] = "alerted"]
  /\ UNCHANGED <<cases, incidents, created, listed, seen, deleted, fresh, lost, crowded>>

\* maybe_alert_high_risk for every new incident, before the commit.  Nobody looks
\* at how many channels an alert has reached.
Alert(r) ==
  /\ pc[r] = "replaced"
  /\ \E reached \in SUBSET Alerting(fresh[r]) :
       /\ alerts' = alerts \cup reached
       /\ lost' = lost \cup (Alerting(fresh[r]) \ reached)
  /\ pc' = [pc EXCEPT ![r] = "alerted"]
  /\ UNCHANGED <<cases, incidents, created, listed, seen, deleted, fresh, crowded>>

End(r) ==
  /\ created' = [created EXCEPT ![r] = {}]
  /\ listed' = [listed EXCEPT ![r] = <<>>]
  /\ seen' = [seen EXCEPT ![r] = {}]
  /\ deleted' = [deleted EXCEPT ![r] = {}]
  /\ fresh' = [fresh EXCEPT ![r] = {}]
  /\ UNCHANGED <<alerts, lost, crowded>>

\* Mutant: the old incidents stay.
CommitWithoutClearing(r) ==
  /\ pc[r] = "alerted"
  /\ cases' = cases \cup created[r]
  /\ incidents' = incidents \cup fresh[r]
  /\ pc' = [pc EXCEPT ![r] = "committed"]
  /\ End(r)

Commit(r) ==
  /\ pc[r] = "alerted"
  /\ cases' = cases \cup created[r]
  /\ incidents' = (incidents \ seen[r]) \cup fresh[r]
  /\ pc' = [pc EXCEPT ![r] = "committed"]
  /\ End(r)

Abort(r) ==
  /\ r \in UnderWay
  /\ pc' = [pc EXCEPT ![r] = "aborted"]
  /\ End(r)
  /\ UNCHANGED <<cases, incidents>>

AllAnswered ==
  /\ \A r \in Runs : pc[r] \in {"committed", "aborted"}
  /\ UNCHANGED vars

Proceed(r) ==
  List(r) \/ ReadIncidents(r) \/ Delete(r) \/ Replace(r) \/ Alert(r) \/ Commit(r)

Next == AllAnswered \/ \E r \in Runs : Save(r) \/ Proceed(r) \/ Abort(r)

Spec == Init /\ [][Next]_vars

\* A run whose await has completed is resumed; nothing makes a client start one.
FairSpec == Spec /\ \A r \in Runs : WF_vars(Proceed(r))

-----------------------------------------------------------------------------
TypeOK ==
  /\ cases \in SUBSET Cases
  /\ incidents \in SUBSET Rows
  /\ pc \in [Runs -> {"new", "saved", "listed", "replacing", "replaced",
                      "alerted", "committed", "aborted"}]
  /\ created \in [Runs -> SUBSET Cases]
  /\ listed \in [Runs -> Seq(Cases)]
  /\ seen \in [Runs -> SUBSET Rows]
  /\ deleted \in [Runs -> SUBSET Rows]
  /\ fresh \in [Runs -> SUBSET Rows]
  /\ alerts \in SUBSET Rows
  /\ lost \in SUBSET Rows
  /\ crowded \in SUBSET Runs

\* No incident shows an investigation that was rolled back or is not committed
\* yet, whichever runs overlap and fail.
MembersCommitted == Covered(incidents) \subseteq Ids(cases)

\* A high-risk incident an analyst sees without having been alerted of it is one
\* whose delivery failed: the incidents are committed after their alerts are sent.
UnalertedWereLost == Alerting(incidents) \subseteq alerts \cup lost

\* The members of an incident that is shown hang together by keys they share,
\* also when other runs have replaced the rest of the list it was made from.
ShownIncidentsConnected ==
  \A inc \in incidents : \A part \in (SUBSET inc.members) \ {{}} :
    part # inc.members =>
      \E c, d \in cases : c.id \in part /\ d.id \in inc.members \ part /\ Linked(c, d)

\* An incident is only opened for something new: one of its members shares no
\* key with any investigation that was listed before it.
FoundersAreNew ==
  \A r \in Runs : \A inc \in fresh[r] : \E n \in DOMAIN listed[r] :
    /\ listed[r][n].id \in inc.members
    /\ \A m \in 1..(n - 1) : ~Linked(listed[r][m], listed[r][n])

\* An overlap does no lasting damage.  The moment a run commits that had the
\* table for itself, no case is in two of the tenant's incidents, and every case
\* of the page is in one, however wrong they were before.
LoneRunRepairs ==
  [][\A r \in Runs \ crowded : pc[r] = "alerted" /\ pc'[r] = "committed" =>
       \A c \in cases' :
         LET holding == {inc \in incidents' : c.id \in inc.members}
         IN /\ Cardinality(holding) <= 1
            /\ Cardinality({d \in cases' : d.id <= c.id}) <= ListLimit => holding # {}]_vars

\* A run that has started is answered: the row locks of the runs never make
\* them wait for one another for ever.
EveryRunAnswered ==
  \A r \in Runs : r \in UnderWay ~> pc[r] \in {"committed", "aborted"}

-----------------------------------------------------------------------------
(* Promises of comments that the code does not keep.                       *)

\* repositories.py: replace_all clears this tenant's incidents and stores the
\* new set.
CommitReplacesAll ==
  [][\A r \in Runs : pc[r] = "alerted" /\ pc'[r] = "committed" =>
       incidents' = fresh[r]]_vars

\* routes.py: a run correlates all of the tenant's investigations into incidents;
\* here, one that no other run was under way with.
AllAreCorrelated ==
  [][\A r \in Runs \ crowded : pc[r] = "alerted" /\ pc'[r] = "committed" =>
       Ids(cases') \subseteq Covered(incidents')]_vars
=============================================================================
