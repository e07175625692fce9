---- MODULE MCBootstrap ----
(* Values for the constants of Bootstrap. *)
EXTENDS Bootstrap

CONSTANTS w1, w2, w3

WorkersThree == {w1, w2, w3}
====
