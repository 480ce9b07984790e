--------------------------- MODULE MCQuestionPlan ---------------------------
(***************************************************************************)
(* QuestionPlan on small instances: two requests can race each other, a    *)
(* request and a generation, and two generations.                          *)
(***************************************************************************)
EXTENDS QuestionPlan, TLC

(* Requests and messages are interchangeable (used for safety only).       *)
Symmetry == Permutations(Requests) \cup Permutations(Tasks)
=============================================================================
