---- MODULE MCCaseStore ----
(* Values for the constants of CaseStore. *)
EXTENDS CaseStore, TLC

CONSTANTS r1, r2, r3, isolate, rotate, analyst

RequestsThree == {r1, r2, r3}
\* isolate_host is gated and supported; a suggestion of the model that no
\* connector knows is neither.
ActionsTwo == {isolate, rotate}
GatedActions == {isolate}
SupportedActions == {isolate}
OneAnalyst == {analyst}
====
