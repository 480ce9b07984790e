--------------------------- MODULE SessionContract ---------------------------
(***************************************************************************)
(* What the voice module promises the rest of the system about the calls   *)
(* of one interview, and all InterviewService assumes of them: a call is   *)
(* offered, it goes live at most once, and a live call ends at most once,  *)
(* announcing its end with a reason the interview service knows, or not    *)
(* announcing it at all (replaced, or lost with its process).              *)
(***************************************************************************)

None == "None"

PublishedReasons == {"completed", "abandoned", "timed_out"}

CONSTANT Sessions

VARIABLES
  sess,       \* what each call has reached
  announced   \* the reason each call's SessionEnded carried

Init ==
  /\ sess = [s \in Sessions |-> "none"]
  /\ announced = [s \in Sessions |-> None]

Offer(s) ==
  /\ sess[s] = "none"
  /\ sess' = [sess EXCEPT ![s] = "offered"]
  /\ UNCHANGED announced

GoLive(s) ==
  /\ sess[s] = "offered"
  /\ sess' = [sess EXCEPT ![s] = "live"]
  /\ UNCHANGED announced

End(s) ==
  /\ sess[s] = "live"
  /\ sess' = [sess EXCEPT ![s] = "over"]
  /\ \E reason \in PublishedReasons : announced' = [announced EXCEPT ![s] = reason]

(* Any number of calls stop without a word.                                *)
Vanish(lost) ==
  /\ \A s \in lost : sess[s] \in {"offered", "live"}
  /\ sess' = [s \in Sessions |-> IF s \in lost THEN "over" ELSE sess[s]]
  /\ UNCHANGED announced

Next ==
  \/ \E s \in Sessions : Offer(s) \/ GoLive(s) \/ End(s)
  \/ \E lost \in SUBSET Sessions : Vanish(lost)

Spec == Init /\ [][Next]_<<sess, announced>>
=============================================================================
