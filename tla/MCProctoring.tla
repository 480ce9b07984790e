---------------------------- MODULE MCProctoring ----------------------------
(* Instances of Proctoring for TLC.                                        *)
EXTENDS Proctoring, TLC

(* The defaults, the strictest a recruiter may set, and one between.       *)
MCPolicies ==
  {[blur_limit |-> 2, fullscreen_required |-> FALSE, paste_blocked |-> TRUE,
    auto_terminate |-> FALSE],
   [blur_limit |-> 1, fullscreen_required |-> TRUE, paste_blocked |-> FALSE,
    auto_terminate |-> TRUE],
   [blur_limit |-> 0, fullscreen_required |-> FALSE, paste_blocked |-> TRUE,
    auto_terminate |-> TRUE]}

(* Sockets are interchangeable.                                            *)
Symmetry == Permutations(Sockets)
=============================================================================
