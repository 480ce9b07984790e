------------------------- MODULE InterviewLifecycle -------------------------
(***************************************************************************)
(* What the interview state machine promises, and what the service keeps   *)
(* of it: the abstract specification of one interview's status.  The       *)
(* status is created once, moves along LEGAL and nowhere else              *)
(* (app/modules/interview/state_machine.py).  A terminal status would be   *)
(* absorbing if every writer saw it; one that does not may overwrite it,   *)
(* with what a live interview can become, and is on record.                *)
(***************************************************************************)
EXTENDS InterviewStatus

VARIABLES
  status,      \* a member of Statuses, or None before the row exists
  overwritten  \* has a terminal status been written over?

Init == status = None /\ overwritten = FALSE

Create ==
  /\ status = None
  /\ status' \in {"CREATED", "INVITED"}
  /\ UNCHANGED overwritten

Move ==
  /\ status \in Statuses
  /\ status' \in LEGAL[status]
  /\ UNCHANGED overwritten

(* Never back to waiting, and never to EXPIRED.                            *)
Overwrite ==
  /\ is_terminal(status)
  /\ status' \in {"IN_PROGRESS", "COMPLETED", "ABANDONED", "TERMINATED"}
  /\ overwritten' = TRUE

Next == Create \/ Move \/ Overwrite

Spec == Init /\ [][Next]_<<status, overwritten>>
=============================================================================
