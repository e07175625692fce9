---- MODULE MCAuditChain ----
(* Values for the constants of AuditChain. *)
EXTENDS AuditChain, TLC

CONSTANTS t1, t2, r1, r2, r3, c1, c2

TenantsTwo == {t1, t2}
TenantsOne == {t1}
RequestsTwo == {r1, r2}
RequestsThree == {r1, r2, r3}
ContentsTwo == {c1, c2}

Symmetry == Permutations(RequestsThree) \cup Permutations(ContentsTwo)
            \cup Permutations(TenantsTwo)
====
