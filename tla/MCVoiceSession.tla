--------------------------- MODULE MCVoiceSession ---------------------------
(***************************************************************************)
(* VoiceSession on small instances.  Two calls are enough for one to       *)
(* replace, race or orphan the other.                                      *)
(***************************************************************************)
EXTENDS VoiceSession, TLC

(* The calls are interchangeable (used for safety only).                   *)
Symmetry == Permutations(Sessions)
=============================================================================
