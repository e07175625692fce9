---- MODULE MCIncidentRefresh ----
(* Values for the constants of IncidentRefresh. *)
EXTENDS IncidentRefresh, TLC

CONSTANTS run1, run2, run3, web, db, x

RunsTwo == {run1, run2}
RunsThree == {run1, run2, run3}
\* The second case stands alone unless the third, which shares its indicator,
\* bridges it to the first.
CasesThree ==
  {[id |-> 1, entity |-> web, indicators |-> {}],
   [id |-> 2, entity |-> db, indicators |-> {x}],
   [id |-> 3, entity |-> web, indicators |-> {x}]}
HighRiskOne == {1}

\* The keys are random: they follow neither the runs nor their members.
RunNumber == (run1 :> 2) @@ (run2 :> 0) @@ (run3 :> 1)
RowIdByMembers(row) ==
  3 * FoldSet(LAMBDA id, sum : sum + 2^id, 0, row.members) + RunNumber[row.run]
====
