---- MODULE MCConsolePage ----
(* Values for the constants of ConsolePage. *)
EXTENDS ConsolePage

CONSTANT w1

WorkersOne == {w1}
FiltersTwo == {"", "critical"}
====
