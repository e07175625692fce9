--------------------------- MODULE CaseLifecycle ---------------------------
(***************************************************************************)
(* What the case API promises about one investigation: it has a status     *)
(* that follows the workflow, a gated response action runs only after it   *)
(* was approved, and an approval, a recorded execution or a timestamp of   *)
(* the SLA clock is never undone, except by a write over a newer version   *)
(* of the case, which is counted.                                          *)
(***************************************************************************)
CONSTANTS Actions, Allowed, Clocks, Unset

VARIABLES
  status,     \* where the case is in the workflow
  awaiting,   \* planned actions that still need an approval
  executed,   \* planned actions recorded as executed
  stamped,    \* when each clock of the SLA stopped, or Unset
  overwritten \* the writes over a newer version so far

vars == <<status, awaiting, executed, stamped, overwritten>>

Init ==
  /\ status \in {"investigating", "false_positive"}
  /\ awaiting \in SUBSET Actions
  /\ executed = {}
  /\ stamped = [c \in Clocks |-> Unset]
  /\ overwritten = {}

Approve(a) ==
  /\ awaiting' = awaiting \ {a}
  /\ UNCHANGED <<status, executed, stamped, overwritten>>

Execute(a) ==
  /\ a \notin awaiting
  /\ executed' = executed \cup {a}
  /\ status' = IF status = "investigating" THEN "contained" ELSE status
  /\ UNCHANGED <<awaiting, stamped, overwritten>>

Move(target) ==
  /\ target \in Allowed[status]
  /\ status' = target
  /\ \A c \in Clocks : stamped[c] = Unset \/ stamped'[c] = stamped[c]
  /\ UNCHANGED <<awaiting, executed, overwritten>>

Overwrite == overwritten' # overwritten

Next ==
  \/ Overwrite
  \/ \E a \in Actions : Approve(a) \/ Execute(a)
  \/ \E target \in Allowed[status] : Move(target)

Spec == Init /\ [][Next]_vars
=============================================================================
