--------------------------- MODULE InterviewStatus ---------------------------
(***************************************************************************)
(* The interview state machine: app/modules/interview/state_machine.py, as *)
(* operators on one row of the interviews table.  No state of its own; the *)
(* modules that read and write the row are built from these definitions.   *)
(*                                                                         *)
(* A timestamp column is abstracted to the status whose arrival stamped it *)
(* (None while the column is NULL): the properties only ask whether a      *)
(* column is set and by which arrival, never at what time.                 *)
(***************************************************************************)

None == "None"

Statuses ==
  {"CREATED", "INVITED", "IN_PROGRESS",
   "COMPLETED", "ABANDONED", "TERMINATED", "EXPIRED"}

LEGAL ==
  [CREATED     |-> {"INVITED", "EXPIRED", "ABANDONED"},
   INVITED     |-> {"IN_PROGRESS", "EXPIRED", "ABANDONED", "TERMINATED"},
   IN_PROGRESS |-> {"COMPLETED", "ABANDONED", "TERMINATED"},
   COMPLETED   |-> {},
   ABANDONED   |-> {},
   TERMINATED  |-> {},
   EXPIRED     |-> {}]

TERMINAL == {s \in Statuses : LEGAL[s] = {}}

is_terminal(status) == status \in TERMINAL

can_transition(current, target) == target \in LEGAL[current]

(* transition() raises on a move outside LEGAL, but lets a re-entry pass.  *)
accepts(current, target) == current = target \/ can_transition(current, target)

TIMESTAMP_COLUMN ==
  [IN_PROGRESS |-> "started_at",
   COMPLETED   |-> "completed_at",
   ABANDONED   |-> "completed_at",
   TERMINATED  |-> "completed_at",
   EXPIRED     |-> "completed_at"]

(* Does arriving at target stamp column?                                   *)
stamps(column, target) ==
  target \in DOMAIN TIMESTAMP_COLUMN /\ TIMESTAMP_COLUMN[target] = column

(* The row after an accepted transition(): the status moves and its column *)
(* is stamped, but only while that column is unset.                        *)
transition(row, target) ==
  IF row.status = target THEN row
  ELSE [row EXCEPT
          !.status       = target,
          !.started_at   = IF stamps("started_at", target) /\ @ = None
                           THEN target ELSE @,
          !.completed_at = IF stamps("completed_at", target) /\ @ = None
                           THEN target ELSE @]

(* How the reason a voice session reports maps onto a status               *)
(* (app/modules/interview/service.py).  Any other reason is ABANDONED, and *)
(* "superseded" ends the session without ending the interview.             *)
END_REASON_STATUS(reason) ==
  IF reason \in {"completed", "timed_out"} THEN "COMPLETED"
  ELSE IF reason = "terminated" THEN "TERMINATED" ELSE "ABANDONED"

NON_TERMINAL_REASONS == {"superseded"}
=============================================================================
