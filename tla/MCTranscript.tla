---------------------------- MODULE MCTranscript ----------------------------
(***************************************************************************)
(* Transcript on small instances: a call, its rejoin, and the correction   *)
(* task with its redeliveries.                                             *)
(***************************************************************************)
EXTENDS Transcript, TLC

(* Calls and deliveries are interchangeable (used for safety only).        *)
Symmetry == Permutations(Calls) \cup Permutations(Passes)
=============================================================================
