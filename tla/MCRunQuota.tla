---- MODULE MCRunQuota ----
(* Values for the constants of RunQuota. *)
EXTENDS RunQuota

CONSTANTS r1, r2, R001, R002

RequestsTwo == {r1, r2}
RulesTwo == {R001, R002}
\* Small limits that one or two runs reach.
PlansTwo == {"free", "pro"}
Searches == [free |-> 1, pro |-> 2]
====
