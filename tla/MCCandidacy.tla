----------------------------- MODULE MCCandidacy -----------------------------
(* Instances of Candidacy for TLC.                                         *)
EXTENDS Candidacy, TLC

(* Interviews, CVs, requests and messages are interchangeable.             *)
Symmetry ==
  Permutations(Interviews) \cup Permutations(Resumes) \cup Permutations(Calls)
    \cup Permutations(Tasks)

(* Nothing about a CV or a plan depends on what becomes of the link once   *)
(* the candidate has a token: the runs leave it as it is.                  *)
LinkStays == \A i \in Interviews : invite[i].status # "REVOKED" /\ ~invite[i].expired

(* What may follow once the message for a plan is gone is not followed up: *)
(* the step that loses it is.                                              *)
PlansInHand == history.unplanned = {} /\ history.dropped = {}
=============================================================================
