------------------------- MODULE MCInterviewService -------------------------
(***************************************************************************)
(* InterviewService on small instances: two voice sessions (the second a   *)
(* reconnect) and two transaction slots are the fewest that can race.      *)
(***************************************************************************)
EXTENDS InterviewService, TLC

(* Sessions and slots are interchangeable: no definition tells two apart.  *)
Symmetry == Permutations(Sessions) \cup Permutations(Txns)
=============================================================================
