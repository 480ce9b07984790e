--------------------------- MODULE GradingProofs ---------------------------
(***************************************************************************)
(* Proofs about what an interview is graded on and how: Transcript, for    *)
(* any calls, correction passes, turns and mishaps, and Scoring, for any   *)
(* replies of the model, transcripts, quotes and scores.                   *)
(*                                                                         *)
(* Transcript, the argument.  A turn's number is new because it is at      *)
(* least the number of turns published before it: every count in use, the  *)
(* checkpoint's and each call's, is at most that number (Numbered), and a  *)
(* call in progress is past all it published itself and past what was      *)
(* saved (Ahead).  So a number two turns share was given by two calls, and *)
(* what UncontestedTurnsRecorded asks of a turn whose number is its own    *)
(* follows from each row's having its parts from published turns of its    *)
(* number (Sourced) and each handled turn's having a row (Recorded).  That *)
(* a final turn stands needs that what a delivery of the correction has    *)
(* read keeps its place and its speaker while it decodes (ReadsStand).     *)
(*                                                                         *)
(* Scoring, the argument.  The sums are folds, and what a fold computes    *)
(* depends on the order CHOOSE takes the elements in; FoldInduction is     *)
(* induction along that order, and SumLinear compares two sums term by     *)
(* term.  From them: rounding each weight leaves at most half a unit per   *)
(* criterion, which one of the heaviest can take without vanishing; and    *)
(* the mean of grades in the band is in the band, so                       *)
(* clamping it changes nothing.  Trimming and dropping keep the places of  *)
(* a subset in their order, by rank (NthIn, NthOrdered, NthReaches).  The  *)
(* invariant itself goes by stage: what is stored is one scoring's rows    *)
(* with their mean, and what a scoring holds so far is graded on turns     *)
(* that no longer change.  The types need what it leaves out, that a grade *)
(* and an outcome are in their ranges (Ranges).                            *)
(***************************************************************************)
EXTENDS Transcript, Scoring, FiniteSetTheorems, WellFoundedInduction, TLAPS

(***************************************************************************)
(* Numbers: the least of a set, and the Min and Max that CHOOSE picks.     *)
(***************************************************************************)
LessThan == {ss \in Nat \X Nat : ss[1] < ss[2]}

(* A set of naturals has a least element.                                  *)
LEMMA LeastNumber ==
  ASSUME NEW T, T \subseteq Nat, T # {}
  PROVE  \E x \in T : \A y \in T : x <= y
<1>1. IsWellFoundedOn(LessThan, Nat)
  BY NatLessThanWellFounded DEF OpToRel, LessThan
<1>2. PICK x \in T : \A y \in T : ~ (<<y, x>> \in LessThan)
  BY <1>1, WFMin
<1>3. \A y \in T : ~ (y < x)
  BY <1>2 DEF LessThan
<1> QED BY <1>3

(* Min of a set of naturals is its least element.                          *)
LEMMA MinOfNaturals ==
  ASSUME NEW S, S \subseteq Nat, S # {}
  PROVE  Min(S) \in S /\ \A x \in S : Min(S) <= x
<1>1. \E x \in S : \A y \in S : x <= y
  BY LeastNumber
<1> QED BY <1>1 DEF Min

(* Max of a bounded set of naturals is its greatest element.               *)
LEMMA MaxOfBounded ==
  ASSUME NEW n \in Nat, NEW S, S \subseteq 0 .. n, S # {}
  PROVE  Max(S) \in S /\ \A o \in S : Max(S) >= o
<1> DEFINE T == {k \in Nat : n - k \in S}
<1>1. T # {}
  <2>1. PICK o \in S : TRUE
    OBVIOUS
  <2>2. n - o \in Nat /\ n - (n - o) = o
    BY <2>1
  <2> QED BY <2>1, <2>2
<1>2. PICK k \in T : \A y \in T : k <= y
  <2> HIDE DEF T
  <2>1. T \subseteq Nat
    BY DEF T
  <2> QED BY <1>1, <2>1, LeastNumber
<1>3. \A o \in S : n - k >= o
  <2> TAKE o \in S
  <2>1. n - o \in Nat /\ n - (n - o) = o
    OBVIOUS
  <2>2. k <= n - o
    BY <1>2, <2>1
  <2> QED BY <2>2
<1>4. \E x \in S : \A y \in S : x >= y
  BY <1>2, <1>3
<1> QED BY <1>4 DEF Max

(***************************************************************************)
(* Transcript                                                              *)
(***************************************************************************)
(* The rows as a partial function, and the variables TypeOK types by their *)
(* parts.                                                                  *)
Snapshots == UNION {[D -> Turn] : D \in SUBSET Ordinals}

PassState == [state : {"idle", "decoding"}, read : Snapshots, heard : SUBSET Ordinals]

Typed ==
  /\ call \in [Calls -> Call]
  /\ checkpoint \in {NotYet} \cup 0 .. MaxTurns
  /\ bus \subseteq emitted /\ lost \subseteq emitted /\ emitted \subseteq TurnCompleted
  /\ turns \in Snapshots
  /\ status \in {"live", "announced", "over"}
  /\ pass \in [Passes -> PassState]
  /\ mishaps \in 0 .. MaxMishaps

Going(c) == call[c].phase \in {"live", "uploading"}

OneAtATime == \A c, d \in Calls : Going(c) /\ Going(d) => c = d

(* Every number in use is below the count of the turns published so far.   *)
Numbered ==
  /\ IsFiniteSet(emitted) /\ Cardinality(emitted) <= MaxTurns
  /\ checkpoint <= Cardinality(emitted)
  /\ \A c \in Calls : Going(c) => call[c].ordinal <= Cardinality(emitted)
  /\ \A e \in emitted : e.ordinal < Cardinality(emitted)

(* A call in progress is past what it published and past the checkpoint.   *)
Ahead ==
  /\ \A c \in Calls : Going(c) => call[c].ordinal >= checkpoint
  /\ \A e \in emitted : /\ call[e.call].phase # "none"
                        /\ Going(e.call) => e.ordinal < call[e.call].ordinal

NumberedOnce ==
  \A e, f \in emitted : e.call = f.call /\ e.ordinal = f.ordinal => e = f

(* A row's text and end are one published turn's, its speaker and start one's. *)
Sourced ==
  \A o \in DOMAIN turns :
    /\ \E f \in emitted : /\ f.ordinal = o
                          /\ f.call = turns[o].content /\ f.ended = turns[o].ended
    /\ \E g \in emitted : /\ g.ordinal = o
                          /\ g.speaker = turns[o].speaker /\ g.started = turns[o].started
    /\ turns[o].corrected => turns[o].speaker = CANDIDATE

Recorded == \A e \in emitted \ (bus \cup lost) : e.ordinal \in DOMAIN turns

ReadsStand ==
  \A p \in Passes :
    /\ pass[p].heard \subseteq DOMAIN turns
    /\ DOMAIN pass[p].read \subseteq DOMAIN turns
    /\ \A o \in DOMAIN pass[p].read : pass[p].read[o].speaker = turns[o].speaker

IInv ==
  /\ Typed /\ OneAtATime /\ Numbered /\ Ahead /\ NumberedOnce
  /\ Sourced /\ Recorded /\ ReadsStand
-----------------------------------------------------------------------------
(* Before any call nothing is published, recorded or read.                 *)
LEMMA InitIInv == Init => IInv
<1> SUFFICES ASSUME Init PROVE IInv
  OBVIOUS
<1> USE TranscriptAssumption DEF Init
<1>1. NewCall \in Call
  BY DEF NewCall, Call, Clock, NotYet
<1>2. NoTurns \in Snapshots /\ DOMAIN NoTurns = {}
  <2>1. NoTurns \in [{} -> Turn]
    BY DEF NoTurns
  <2> QED BY <2>1 DEF Snapshots
<1>3. Typed
  BY <1>1, <1>2 DEF Typed, PassState
<1>4. \A c \in Calls : ~Going(c)
  BY DEF Going, NewCall
<1>5. Numbered
  BY <1>4, FS_EmptySet DEF Numbered, NotYet
<1>6. Sourced /\ ReadsStand
  BY <1>2 DEF Sourced, ReadsStand
<1> QED BY <1>3, <1>4, <1>5, <1>6 DEF IInv, OneAtATime, Ahead, NumberedOnce, Recorded

(* What a step that leaves the rows alone leaves true.                     *)
LEMMA RowsKept ==
  ASSUME IInv, UNCHANGED <<turns, pass>>, emitted \subseteq emitted'
  PROVE  Sourced' /\ ReadsStand'
<1>1. Sourced'
  BY DEF IInv, Sourced
<1>2. ReadsStand'
  BY DEF IInv, ReadsStand
<1> QED BY <1>1, <1>2

(* One call moves on without publishing anything.                          *)
LEMMA MoveKeeps ==
  ASSUME IInv, NEW c \in Calls, NEW y \in Call, y.phase # "none",
         call' = [call EXCEPT ![c] = y],
         y.phase \in {"live", "uploading"} =>
           /\ \A d \in Calls : Going(d) => d = c
           /\ y.ordinal >= checkpoint /\ y.ordinal <= Cardinality(emitted)
           /\ \A e \in emitted : e.call = c => e.ordinal < y.ordinal,
         checkpoint' \in {checkpoint, NotYet}, status' \in {"live", "announced", "over"},
         mishaps' \in 0 .. MaxMishaps,
         UNCHANGED <<bus, turns, pass, emitted, lost>>
  PROVE  IInv'
<1> USE TranscriptAssumption
<1>1. Typed'
  BY DEF IInv, Typed
<1>2. /\ \A d \in Calls \ {c} : call'[d] = call[d]
      /\ call'[c] = y
  BY DEF IInv, Typed
<1>3. \A d \in Calls \ {c} : Going(d)' <=> Going(d)
  BY <1>2 DEF Going
<1>4. Going(c)' <=> y.phase \in {"live", "uploading"}
  BY <1>2 DEF Going
<1>5. OneAtATime'
  BY <1>3, <1>4 DEF IInv, OneAtATime
<1>6. checkpoint' <= checkpoint
  BY DEF IInv, Typed, NotYet
<1>7. /\ checkpoint \in Int /\ checkpoint' \in Int
      /\ Cardinality(emitted) \in Nat
      /\ \A d \in Calls : call[d].ordinal \in Nat
  BY FS_CardinalityType DEF IInv, Numbered, Typed, NotYet, Call
<1>8. Numbered'
  <2>1. checkpoint' <= Cardinality(emitted')
    BY <1>6, <1>7 DEF IInv, Numbered
  <2>2. ASSUME NEW d \in Calls, Going(d)'
        PROVE  call'[d].ordinal <= Cardinality(emitted')
    <3>1. CASE d = c
      BY <2>2, <3>1, <1>2, <1>4
    <3>2. CASE d # c
      BY <2>2, <3>2, <1>2, <1>3 DEF IInv, Numbered
    <3> QED BY <3>1, <3>2
  <2> QED BY <2>1, <2>2 DEF IInv, Numbered
<1>9. Ahead'
  <2>1. ASSUME NEW d \in Calls, Going(d)'
        PROVE  call'[d].ordinal >= checkpoint'
    <3>1. CASE d = c
      <4>1. y.ordinal >= checkpoint /\ y.ordinal \in Nat
        BY <2>1, <3>1, <1>4 DEF Call
      <4> QED BY <4>1, <3>1, <1>2, <1>6, <1>7
    <3>2. CASE d # c
      <4>1. call[d].ordinal >= checkpoint
        BY <2>1, <3>2, <1>3 DEF IInv, Ahead
      <4> QED BY <4>1, <3>2, <1>2, <1>6, <1>7
    <3> QED BY <3>1, <3>2
  <2>2. ASSUME NEW e \in emitted'
        PROVE  /\ call'[e.call].phase # "none"
               /\ Going(e.call)' => e.ordinal < call'[e.call].ordinal
    <3>1. e \in emitted /\ e.call \in Calls
      BY <2>2 DEF IInv, Typed, TurnCompleted
    <3>2. CASE e.call = c
      BY <3>1, <3>2, <1>2, <1>4
    <3>3. CASE e.call # c
      BY <3>1, <3>3, <1>2, <1>3 DEF IInv, Ahead
    <3> QED BY <3>2, <3>3
  <2> QED BY <2>1, <2>2 DEF Ahead
<1>10. NumberedOnce' /\ Recorded'
  BY DEF IInv, NumberedOnce, Recorded
<1> QED BY <1>1, <1>5, <1>8, <1>9, <1>10, RowsKept DEF IInv

(* A call in progress publishes a turn under its next number.              *)
LEMMA EmitKeeps ==
  ASSUME IInv, NEW c \in Calls, Going(c), NEW speaker \in Speaker,
         NEW started \in Clock, NEW now \in Clock, _emit(c, speaker, started, now),
         NEW y \in Call, y.phase \in {"live", "uploading"},
         y.ordinal = call[c].ordinal + 1, call' = [call EXCEPT ![c] = y],
         UNCHANGED <<checkpoint, turns, status, pass, mishaps, lost>>
  PROVE  IInv' /\ \A e \in emitted' \ emitted : e.ordinal >= checkpoint
<1> USE TranscriptAssumption
<1> DEFINE turn == [call |-> c, ordinal |-> call[c].ordinal, speaker |-> speaker,
                    started |-> started, ended |-> now]
<1>1. /\ Cardinality(emitted) < MaxTurns
      /\ bus' = bus \cup {turn}
      /\ emitted' = emitted \cup {turn}
  BY DEF _emit
<1>2. /\ checkpoint \in Int /\ Cardinality(emitted) \in Nat
      /\ call[c].ordinal \in Nat
      /\ call[c].ordinal <= Cardinality(emitted) /\ call[c].ordinal >= checkpoint
      /\ \A e \in emitted : e.ordinal \in Nat
  BY FS_CardinalityType DEF IInv, Numbered, Ahead, Typed, NotYet, Call, TurnCompleted, Ordinals
<1>3. turn \in TurnCompleted
  BY <1>1, <1>2 DEF TurnCompleted, Ordinals
<1>4. /\ \A d \in Calls \ {c} : call'[d] = call[d]
      /\ call'[c] = y
  BY DEF IInv, Typed
<1>5. turn \notin emitted /\ \A e \in emitted : e.call = c => e.ordinal # turn.ordinal
  <2>1. \A e \in emitted : e.call = c => e.ordinal < call[c].ordinal
    BY DEF IInv, Ahead
  <2>2. \A e \in emitted : e.call = c => e.ordinal # call[c].ordinal
    BY <2>1, <1>2
  <2> QED BY <2>2
<1>6. IsFiniteSet(emitted') /\ Cardinality(emitted') = Cardinality(emitted) + 1
  <2> HIDE DEF turn
  <2>1. IsFiniteSet(emitted)
    BY DEF IInv, Numbered
  <2> QED BY <2>1, <1>1, <1>5, FS_AddElement
<1>7. Typed'
  <2>1. call' \in [Calls -> Call]
    BY DEF IInv, Typed
  <2>2. bus' \subseteq emitted' /\ lost' \subseteq emitted' /\ emitted' \subseteq TurnCompleted
    BY <1>1, <1>3 DEF IInv, Typed
  <2> QED BY <2>1, <2>2 DEF IInv, Typed
<1>8. \A d \in Calls : Going(d)' <=> Going(d)
  <2>1. Going(c)'
    BY <1>4 DEF Going
  <2>2. \A d \in Calls \ {c} : Going(d)' <=> Going(d)
    BY <1>4 DEF Going
  <2> QED BY <2>1, <2>2
<1>9. OneAtATime'
  BY <1>8 DEF IInv, OneAtATime
<1>10. \A d \in Calls : call[d].ordinal \in Nat
  BY DEF IInv, Typed, Call
<1>11. Numbered'
  <2>1. checkpoint <= Cardinality(emitted)
    BY DEF IInv, Numbered
  <2>2. ASSUME NEW d \in Calls, Going(d)'
        PROVE  call'[d].ordinal <= Cardinality(emitted')
    <3>1. call[d].ordinal <= Cardinality(emitted)
      BY <2>2, <1>8 DEF IInv, Numbered
    <3> QED BY <3>1, <1>2, <1>4, <1>6, <1>10
  <2>3. ASSUME NEW e \in emitted'
        PROVE  e.ordinal < Cardinality(emitted')
    <3>1. CASE e \in emitted
      <4>1. e.ordinal < Cardinality(emitted)
        BY <3>1 DEF IInv, Numbered
      <4> QED BY <3>1, <4>1, <1>2, <1>6
    <3>2. CASE e = turn
      BY <3>2, <1>2, <1>6
    <3> QED BY <2>3, <1>1, <3>1, <3>2
  <2> QED BY <2>1, <2>2, <2>3, <1>1, <1>2, <1>6 DEF Numbered
<1>12. Ahead'
  <2>1. ASSUME NEW d \in Calls, Going(d)'
        PROVE  call'[d].ordinal >= checkpoint'
    <3>1. call[d].ordinal >= checkpoint
      BY <2>1, <1>8 DEF IInv, Ahead
    <3> QED BY <3>1, <1>2, <1>4, <1>10
  <2>2. ASSUME NEW e \in emitted'
        PROVE  /\ call'[e.call].phase # "none"
               /\ Going(e.call)' => e.ordinal < call'[e.call].ordinal
    <3>1. CASE e = turn
      BY <3>1, <1>2, <1>4
    <3>2. CASE e \in emitted /\ e.call = c
      <4>1. e.ordinal < call[c].ordinal
        BY <3>2 DEF IInv, Ahead
      <4> QED BY <3>2, <4>1, <1>2, <1>4
    <3>3. CASE e \in emitted /\ e.call # c
      <4>1. e.call \in Calls
        BY <3>3 DEF IInv, Typed, TurnCompleted
      <4> QED BY <3>3, <4>1, <1>4, <1>8 DEF IInv, Ahead
    <3> QED BY <2>2, <1>1, <3>1, <3>2, <3>3
  <2> QED BY <2>1, <2>2 DEF Ahead
<1>13. NumberedOnce'
  <2> SUFFICES ASSUME NEW e \in emitted', NEW f \in emitted',
                      e.call = f.call, e.ordinal = f.ordinal
               PROVE  e = f
    BY DEF NumberedOnce
  <2>1. CASE e \in emitted /\ f \in emitted
    BY <2>1 DEF IInv, NumberedOnce
  <2>2. CASE e = turn /\ f \in emitted
    BY <2>2, <1>5
  <2>3. CASE e \in emitted /\ f = turn
    BY <2>3, <1>5
  <2> QED BY <1>1, <2>1, <2>2, <2>3
<1>14. Recorded'
  <2> SUFFICES ASSUME NEW e \in emitted', e \notin bus' \cup lost'
               PROVE  e.ordinal \in DOMAIN turns'
    BY DEF Recorded
  <2>1. e \in emitted \ (bus \cup lost)
    BY <1>1
  <2> QED BY <2>1 DEF IInv, Recorded
<1>15. IInv'
  BY <1>1, <1>7, <1>9, <1>11, <1>12, <1>13, <1>14, RowsKept DEF IInv
<1>16. \A e \in emitted' \ emitted : e.ordinal >= checkpoint
  BY <1>1, <1>2
<1> QED BY <1>15, <1>16

-----------------------------------------------------------------------------
(* The call's actions.                                                     *)

(* The ordinals a call may start at.                                       *)
LEMMA ResumesAhead ==
  ASSUME IInv
  PROVE  /\ resume_from \in 0 .. MaxTurns
         /\ resume_from >= checkpoint /\ resume_from <= Cardinality(emitted)
<1> USE TranscriptAssumption
<1>1. /\ checkpoint \in Int /\ checkpoint >= -1 /\ checkpoint <= Cardinality(emitted)
      /\ Cardinality(emitted) \in Nat /\ Cardinality(emitted) <= MaxTurns
  BY FS_CardinalityType DEF IInv, Numbered, Typed, NotYet
<1>2. next_ordinal \in Nat /\ next_ordinal <= Cardinality(emitted)
  <2>1. CASE turns = NoTurns
    BY <2>1, <1>1 DEF next_ordinal
  <2>2. CASE turns # NoTurns
    <3>1. PICK D \in SUBSET Ordinals : turns \in [D -> Turn]
      BY DEF IInv, Typed, Snapshots
    <3>2. DOMAIN turns # {}
      <4>1. D = {} => turns = NoTurns
        BY <3>1 DEF NoTurns
      <4> QED BY <3>1, <4>1, <2>2
    <3>3. DOMAIN turns \subseteq 0 .. MaxTurns - 1 /\ MaxTurns - 1 \in Nat
      BY <3>1 DEF Ordinals
    <3>4. Max(DOMAIN turns) \in DOMAIN turns
      BY <3>2, <3>3, MaxOfBounded
    <3>5. PICK f \in emitted : f.ordinal = Max(DOMAIN turns)
      BY <3>4 DEF IInv, Sourced
    <3>6. f.ordinal < Cardinality(emitted) /\ f.ordinal \in Nat
      BY DEF IInv, Numbered, Typed, TurnCompleted, Ordinals
    <3> QED BY <2>2, <3>5, <3>6, <1>1 DEF next_ordinal
  <2> QED BY <2>1, <2>2
<1> QED BY <1>1, <1>2 DEF resume_from

(* A call begins, or rejoins at the checkpointed number                    *)
(* (session_manager.py, start).                                            *)
LEMMA StartKeeps ==
  ASSUME IInv, NEW c \in Calls, start(c)
  PROVE  IInv'
<1> DEFINE y == [call[c] EXCEPT !.phase = "live", !.saving = TRUE, !.ordinal = resume_from]
<1>1. y \in Call /\ y.phase = "live" /\ y.ordinal = resume_from
  BY ResumesAhead DEF IInv, Typed, Call
<1>2. call' = [call EXCEPT ![c] = y]
  BY DEF start
<1>3. \A d \in Calls : Going(d) => d = c
  BY DEF start, Going
<1>4. \A e \in emitted : e.call # c
  BY DEF start, IInv, Ahead
<1>5. /\ checkpoint' \in {checkpoint, NotYet} /\ status' \in {"live", "announced", "over"}
      /\ mishaps' \in 0 .. MaxMishaps /\ UNCHANGED <<bus, turns, pass, emitted, lost>>
  BY DEF start, IInv, Typed
<1> HIDE DEF y
<1> QED BY <1>1, <1>2, <1>3, <1>4, <1>5, ResumesAhead, MoveKeeps

(* A call in progress that keeps its number is where MoveKeeps wants it.   *)
LEMMA StandsAhead ==
  ASSUME IInv, NEW c \in Calls, Going(c)
  PROVE  /\ \A d \in Calls : Going(d) => d = c
         /\ call[c].ordinal >= checkpoint /\ call[c].ordinal <= Cardinality(emitted)
         /\ \A e \in emitted : e.call = c => e.ordinal < call[c].ordinal
BY DEF IInv, OneAtATime, Ahead, Numbered

(* A mishap stays within its bound.                                        *)
LEMMA MishapTyped ==
  ASSUME IInv, Mishap
  PROVE  mishaps' \in 0 .. MaxMishaps
BY TranscriptAssumption DEF IInv, Typed, Mishap

(* The interviewer's reply begins: only the clock moves.                   *)
LEMMA ReplyBeginsKeeps ==
  ASSUME IInv, NEW c \in Calls, ReplyBegins(c)
  PROVE  IInv'
<1>1. PICK now \in Later(c) : call' = [call EXCEPT ![c].clock = now, ![c].bot_started = now]
  BY DEF ReplyBegins
<1>2. now \in Clock
  BY TranscriptAssumption DEF Later, Clock, IInv, Typed, Call
<1> DEFINE y == [call[c] EXCEPT !.clock = now, !.bot_started = now]
<1>3. y \in Call /\ y.phase = "live" /\ y.ordinal = call[c].ordinal
  BY <1>2 DEF ReplyBegins, IInv, Typed, Call
<1>4. call' = [call EXCEPT ![c] = y]
  BY <1>1
<1>5. /\ checkpoint' \in {checkpoint, NotYet} /\ status' \in {"live", "announced", "over"}
      /\ mishaps' \in 0 .. MaxMishaps /\ UNCHANGED <<bus, turns, pass, emitted, lost>>
  BY DEF ReplyBegins, IInv, Typed
<1>6. Going(c)
  BY DEF ReplyBegins, Going
<1> HIDE DEF y
<1> QED BY <1>3, <1>4, <1>5, <1>6, StandsAhead, MoveKeeps

(* A failed save of the checkpoint costs nothing but itself.               *)
LEMMA SaveRaisesKeeps ==
  ASSUME IInv, NEW c \in Calls, save_raises(c)
  PROVE  IInv'
<1> DEFINE y == [call[c] EXCEPT !.saving = FALSE]
<1>1. y \in Call /\ y.phase = "live" /\ y.ordinal = call[c].ordinal
  BY DEF save_raises, Unsaved, IInv, Typed, Call
<1>2. call' = [call EXCEPT ![c] = y]
  BY DEF save_raises
<1>3. /\ checkpoint' \in {checkpoint, NotYet} /\ status' \in {"live", "announced", "over"}
      /\ mishaps' \in 0 .. MaxMishaps /\ UNCHANGED <<bus, turns, pass, emitted, lost>>
  BY MishapTyped DEF save_raises, IInv, Typed
<1>4. Going(c)
  BY DEF save_raises, Unsaved, Going
<1> HIDE DEF y
<1> QED BY <1>1, <1>2, <1>3, <1>4, StandsAhead, MoveKeeps

(* A call not begun and a call over are calls.                             *)
LEMMA EndedTyped ==
  /\ NewCall \in Call /\ EndedCall \in Call
  /\ NewCall.phase = "none" /\ EndedCall.phase = "over"
<1>1. NewCall \in Call /\ NewCall.phase = "none"
  BY TranscriptAssumption DEF NewCall, Call, Clock, NotYet
<1> HIDE DEF NewCall
<1>2. EndedCall \in Call /\ EndedCall.phase = "over"
  BY <1>1 DEF EndedCall, Call
<1> QED BY <1>1, <1>2

(* The end of a call, whether it clears the checkpoint or fails to.        *)
LEMMA EndKeeps ==
  ASSUME IInv, NEW c \in Calls, _finalise(c) \/ finalise_raises(c)
  PROVE  IInv'
<1>1. EndedCall \in Call /\ EndedCall.phase = "over"
  BY EndedTyped
<1>2. call' = [call EXCEPT ![c] = EndedCall]
  BY DEF _finalise, finalise_raises
<1>3. checkpoint' \in {checkpoint, NotYet} /\ status' \in {"live", "announced", "over"}
  BY DEF _finalise, finalise_raises, IInv, Typed
<1>4. mishaps' \in 0 .. MaxMishaps
  BY MishapTyped DEF _finalise, finalise_raises, IInv, Typed
<1>5. UNCHANGED <<bus, turns, pass, emitted, lost>>
  BY DEF _finalise, finalise_raises
<1> QED BY <1>1, <1>2, <1>3, <1>4, <1>5, MoveKeeps

(* Counting a turn keeps an observer's type.                               *)
LEMMA CountedTyped ==
  ASSUME IInv, NEW c \in Calls, Going(c), Cardinality(emitted) < MaxTurns,
         NEW x \in Call, x.ordinal = call[c].ordinal, NEW now \in Clock
  PROVE  /\ Counted(x, now) \in Call /\ [Counted(x, now) EXCEPT !.bot_started = NotYet] \in Call
         /\ Counted(x, now).phase = x.phase
         /\ Counted(x, now).ordinal = x.ordinal + 1
         /\ [Counted(x, now) EXCEPT !.bot_started = NotYet].phase = x.phase
         /\ [Counted(x, now) EXCEPT !.bot_started = NotYet].ordinal = x.ordinal + 1
<1>1. x.ordinal + 1 \in 0 .. MaxTurns
  BY TranscriptAssumption, StandsAhead, FS_CardinalityType DEF Call, IInv, Numbered
<1> QED BY <1>1 DEF Counted, Call

(* The candidate's turn is published under the call's next number          *)
(* (observers.py).                                                         *)
LEMMA CandidateSaidKeeps ==
  ASSUME IInv, NEW c \in Calls, CandidateSaid(c)
  PROVE  IInv' /\ \A e \in emitted' \ emitted : e.ordinal >= checkpoint
<1>1. PICK now \in Later(c) : /\ _emit(c, CANDIDATE, now, now)
                              /\ call' = [call EXCEPT ![c] = Counted(@, now)]
  BY DEF CandidateSaid
<1>2. now \in Clock /\ Going(c) /\ CANDIDATE \in Speaker /\ Cardinality(emitted) < MaxTurns
  BY <1>1, TranscriptAssumption
  DEF CandidateSaid, Going, Later, Clock, IInv, Typed, Call, Speaker, _emit
<1> DEFINE y == Counted(call[c], now)
<1>3. y \in Call /\ y.phase = "live" /\ y.ordinal = call[c].ordinal + 1
  BY <1>2, CountedTyped DEF CandidateSaid, IInv, Typed
<1>4. call' = [call EXCEPT ![c] = y]
  BY <1>1
<1>5. UNCHANGED <<checkpoint, turns, status, pass, mishaps, lost>>
  BY DEF CandidateSaid
<1> HIDE DEF y
<1> QED BY <1>1, <1>2, <1>3, <1>4, <1>5, EmitKeeps

(* A flush, in a call that goes on in the phase `next` says.               *)
LEMMA FlushKeeps ==
  ASSUME IInv, NEW c \in Calls, Going(c), NEW next \in Call,
         next.phase \in {"live", "uploading"}, next.ordinal = call[c].ordinal,
         flush_bot_turn(c, next),
         UNCHANGED <<checkpoint, turns, status, pass, mishaps, lost>>
  PROVE  IInv' /\ \A e \in emitted' \ emitted : e.ordinal >= checkpoint
<1>1. CASE call[c].bot_started = NotYet
  <2>1. call' = [call EXCEPT ![c] = next] /\ UNCHANGED <<bus, emitted>>
    BY <1>1 DEF flush_bot_turn
  <2>2. /\ checkpoint' \in {checkpoint, NotYet} /\ status' \in {"live", "announced", "over"}
        /\ mishaps' \in 0 .. MaxMishaps /\ UNCHANGED <<bus, turns, pass, emitted, lost>>
    BY <2>1 DEF IInv, Typed
  <2>3. IInv'
    BY <2>1, <2>2, StandsAhead, MoveKeeps
  <2> QED BY <2>1, <2>3
<1>2. CASE call[c].bot_started # NotYet
  <2>1. PICK now \in Later(c) :
          /\ _emit(c, INTERVIEWER, call[c].bot_started, now)
          /\ call' = [call EXCEPT ![c] = [Counted(next, now) EXCEPT !.bot_started = NotYet]]
    BY <1>2 DEF flush_bot_turn
  <2>2. /\ now \in Clock /\ call[c].bot_started \in Clock /\ INTERVIEWER \in Speaker
        /\ Cardinality(emitted) < MaxTurns
    BY <1>2, <2>1, TranscriptAssumption
    DEF Later, Clock, IInv, Typed, Call, Speaker, _emit
  <2> DEFINE y == [Counted(next, now) EXCEPT !.bot_started = NotYet]
  <2>3. y \in Call /\ y.phase \in {"live", "uploading"} /\ y.ordinal = call[c].ordinal + 1
    BY <2>2, CountedTyped
  <2>4. call' = [call EXCEPT ![c] = y]
    BY <2>1
  <2> HIDE DEF y
  <2> QED BY <2>1, <2>2, <2>3, <2>4, EmitKeeps
<1> QED BY <1>1, <1>2

(* The interviewer's turn is published when the reply is over.             *)
LEMMA ReplyOverKeeps ==
  ASSUME IInv, NEW c \in Calls, ReplyOver(c)
  PROVE  IInv' /\ \A e \in emitted' \ emitted : e.ordinal >= checkpoint
<1>1. Going(c) /\ call[c] \in Call /\ call[c].phase \in {"live", "uploading"}
  BY DEF ReplyOver, Going, IInv, Typed
<1>2. flush_bot_turn(c, call[c]) /\ UNCHANGED <<checkpoint, turns, status, pass, mishaps, lost>>
  BY DEF ReplyOver
<1> QED BY <1>1, <1>2, FlushKeeps

(* The pipeline of a call ends, by itself or superseded.                   *)
LEMMA RunKeeps ==
  ASSUME IInv, NEW c \in Calls, NEW superseded \in BOOLEAN, _run(c, superseded)
  PROVE  IInv' /\ \A e \in emitted' \ emitted : e.ordinal >= checkpoint
<1> DEFINE next == [call[c] EXCEPT !.phase = "uploading", !.superseded = superseded]
<1>1. /\ next \in Call /\ next.phase \in {"live", "uploading"}
      /\ next.ordinal = call[c].ordinal
  BY DEF IInv, Typed, Call
<1>2. Going(c) /\ UNCHANGED <<checkpoint, turns, status, pass, mishaps, lost>>
  BY DEF _run, Going
<1>3. flush_bot_turn(c, next)
  BY DEF _run
<1> HIDE DEF next
<1> QED BY <1>1, <1>2, <1>3, FlushKeeps

(* The checkpoint takes the number of the call that saves it.              *)
LEMMA CheckpointKeeps ==
  ASSUME IInv, NEW c \in Calls, _checkpoint_loop(c)
  PROVE  IInv'
<1>1. /\ Going(c) /\ checkpoint' = call[c].ordinal
      /\ UNCHANGED <<call, bus, turns, status, pass, mishaps, emitted, lost>>
  BY DEF _checkpoint_loop, Unsaved, Going
<1>2. Typed'
  BY <1>1 DEF IInv, Typed, Call
<1>3. Numbered' /\ OneAtATime' /\ NumberedOnce' /\ Recorded'
  BY <1>1 DEF IInv, Numbered, OneAtATime, NumberedOnce, Recorded, Going
<1>4. Ahead'
  <2>1. ASSUME NEW d \in Calls, Going(d)
        PROVE  call[d].ordinal >= call[c].ordinal
    <3>1. d = c /\ call[c].ordinal \in Nat
      BY <2>1, <1>1 DEF IInv, OneAtATime, Typed, Call
    <3> QED BY <3>1
  <2> QED BY <1>1, <2>1 DEF IInv, Ahead, Going
<1> QED BY <1>1, <1>2, <1>3, <1>4, RowsKept DEF IInv

(* The interview is over: no call goes on.                                 *)
LEMMA InterviewClosesKeeps ==
  ASSUME IInv, InterviewCloses
  PROVE  IInv'
<1> USE DEF InterviewCloses
<1>1. Typed'
  BY DEF IInv, Typed
<1>2. Numbered' /\ OneAtATime' /\ NumberedOnce' /\ Recorded' /\ Ahead'
  BY DEF IInv, Numbered, OneAtATime, NumberedOnce, Recorded, Ahead, Going
<1> QED BY <1>1, <1>2, RowsKept DEF IInv

(* The crash of the process, in which no call goes on.                     *)
LEMMA ApiCrashKeeps ==
  ASSUME IInv, ApiCrash
  PROVE  IInv'
<1> USE DEF ApiCrash
<1>1. NewCall \in Call /\ EndedCall \in Call
  BY EndedTyped
<1>2. Typed'
  <2>1. call' \in [Calls -> Call]
    BY <1>1
  <2> QED BY <2>1, MishapTyped DEF IInv, Typed
<1>3. \A c \in Calls : /\ call[c].phase # "none" => call'[c].phase = "over"
                       /\ call'[c].phase \notin {"live", "uploading"}
  BY DEF EndedCall, NewCall
<1>4. Numbered' /\ OneAtATime' /\ NumberedOnce'
  BY <1>3 DEF IInv, Numbered, OneAtATime, NumberedOnce, Going
<1>5. Ahead'
  <2>1. \A e \in emitted : e.call \in Calls /\ call[e.call].phase # "none"
    BY DEF IInv, Typed, TurnCompleted, Ahead
  <2> QED BY <1>3, <2>1 DEF Ahead, Going
<1>6. Recorded'
  BY DEF IInv, Recorded
<1> QED BY <1>2, <1>4, <1>5, <1>6, RowsKept DEF IInv

-----------------------------------------------------------------------------
(* The bus handler's actions.                                              *)

(* A row more: the others stand.                                           *)
LEMMA WithRow ==
  ASSUME Typed, NEW row \in Turn, NEW o \in Ordinals
  PROVE  /\ With(row, o) \in Snapshots /\ DOMAIN With(row, o) = DOMAIN turns \cup {o}
         /\ With(row, o)[o] = row
         /\ \A x \in DOMAIN turns \ {o} : With(row, o)[x] = turns[x]
<1>1. PICK D \in SUBSET Ordinals : turns \in [D -> Turn]
  BY DEF Typed, Snapshots
<1>2. With(row, o) \in [D \cup {o} -> Turn] /\ D \cup {o} \in SUBSET Ordinals
  BY <1>1 DEF With
<1>3. With(row, o) \in Snapshots
  BY <1>2 DEF Snapshots
<1> QED BY <1>1, <1>3 DEF With

(* A row is a record of its six fields, whose offsets are ordered.         *)
Row == [content : Calls, corrected : BOOLEAN, speaker : Speaker,
        started : Clock, ended : Clock, is_final : BOOLEAN]

(* A turn is a row whose offsets are in order.                             *)
LEMMA TurnIsRow ==
  /\ Turn \subseteq Row
  /\ \A row \in Row : row.ended >= row.started => row \in Turn
BY DEF Turn, Row

(* Each stored row is a turn under a number.                               *)
LEMMA RowTyped ==
  ASSUME Typed, NEW o \in DOMAIN turns
  PROVE  turns[o] \in Turn /\ turns[o] \in Row /\ o \in Ordinals
BY TurnIsRow DEF Typed, Snapshots

(* What recording a turn does to the rows there are: neither their speaker *)
(* nor whether they are final, and to a final one nothing.                 *)
LEMMA TurnRecorded ==
  ASSUME IInv, NEW e \in bus, turns' = record_turn(e), offsets_ordered(turns'),
         emitted' = emitted
  PROVE  /\ turns' \in Snapshots /\ Sourced'
         /\ DOMAIN turns' = DOMAIN turns \cup {e.ordinal}
         /\ \A o \in DOMAIN turns :
              /\ turns'[o].speaker = turns[o].speaker /\ turns'[o].is_final = turns[o].is_final
              /\ turns[o].is_final => turns'[o] = turns[o]
<1> DEFINE o == e.ordinal
<1>1. e \in emitted /\ e \in TurnCompleted /\ o \in Ordinals /\ Typed
  BY DEF IInv, Typed, TurnCompleted
<1>2. CASE o \notin DOMAIN turns
  <2> DEFINE row == [content |-> e.call, corrected |-> FALSE, speaker |-> e.speaker,
                     started |-> e.started, ended |-> e.ended, is_final |-> FALSE]
  <2>1. turns' = With(row, o)
    BY <1>2 DEF record_turn, Inserted
  <2>2. row \in Row
    BY <1>1 DEF Row, TurnCompleted
  <2>3. turns'[o] = row /\ o \in DOMAIN turns'
    BY <2>1 DEF With
  <2>4. row \in Turn
    BY <2>2, <2>3, TurnIsRow DEF offsets_ordered
  <2>5. /\ turns' \in Snapshots /\ DOMAIN turns' = DOMAIN turns \cup {o}
        /\ \A x \in DOMAIN turns \ {o} : turns'[x] = turns[x]
    <3> HIDE DEF row, o
    <3> QED BY <2>1, <2>4, <1>1, WithRow
  <2>6. \A x \in DOMAIN turns : turns'[x] = turns[x]
    BY <2>5, <1>2
  <2>7. Sourced'
    <3> SUFFICES ASSUME NEW x \in DOMAIN turns'
                 PROVE  /\ \E f \in emitted : /\ f.ordinal = x
                                              /\ f.call = turns'[x].content
                                              /\ f.ended = turns'[x].ended
                        /\ \E g \in emitted : /\ g.ordinal = x
                                              /\ g.speaker = turns'[x].speaker
                                              /\ g.started = turns'[x].started
                        /\ turns'[x].corrected => turns'[x].speaker = CANDIDATE
      BY DEF Sourced
    <3>1. CASE x = o
      BY <3>1, <2>3, <1>1
    <3>2. CASE x \in DOMAIN turns
      BY <3>2, <2>6 DEF IInv, Sourced
    <3> QED BY <2>5, <3>1, <3>2
  <2> QED BY <2>5, <2>6, <2>7
<1>3. CASE o \in DOMAIN turns /\ turns[o].is_final
  <2>1. turns' = turns
    BY <1>3 DEF record_turn
  <2>2. Sourced'
    BY <2>1 DEF IInv, Sourced
  <2>3. DOMAIN turns' = DOMAIN turns \cup {o}
    BY <2>1, <1>3
  <2> QED BY <2>1, <2>2, <2>3 DEF IInv, Typed
<1>4. CASE o \in DOMAIN turns /\ ~turns[o].is_final
  <2>1. turns[o] \in Row
    BY <1>1, <1>4, RowTyped
  <2> DEFINE row == [turns[o] EXCEPT !.content = e.call, !.corrected = FALSE, !.ended = e.ended]
  <2>2. turns' = With(row, o)
    BY <1>4 DEF record_turn, Updated
  <2>3. /\ row \in Row /\ row.content = e.call /\ row.corrected = FALSE /\ row.ended = e.ended
        /\ row.speaker = turns[o].speaker /\ row.started = turns[o].started
        /\ row.is_final = turns[o].is_final
    BY <1>1, <2>1 DEF Row, TurnCompleted
  <2> HIDE DEF row
  <2>4. turns'[o] = row /\ o \in DOMAIN turns'
    BY <2>2 DEF With
  <2>5. row \in Turn
    BY <2>3, <2>4, TurnIsRow DEF offsets_ordered
  <2>6. /\ turns' \in Snapshots /\ DOMAIN turns' = DOMAIN turns \cup {o}
        /\ \A x \in DOMAIN turns \ {o} : turns'[x] = turns[x]
    <3> HIDE DEF o
    <3> QED BY <2>2, <2>5, <1>1, WithRow
  <2>7. Sourced'
    <3> SUFFICES ASSUME NEW x \in DOMAIN turns'
                 PROVE  /\ \E f \in emitted : /\ f.ordinal = x
                                              /\ f.call = turns'[x].content
                                              /\ f.ended = turns'[x].ended
                        /\ \E g \in emitted : /\ g.ordinal = x
                                              /\ g.speaker = turns'[x].speaker
                                              /\ g.started = turns'[x].started
                        /\ turns'[x].corrected => turns'[x].speaker = CANDIDATE
      BY DEF Sourced
    <3>1. CASE x = o
      <4>1. PICK g \in emitted : /\ g.ordinal = o
                                 /\ g.speaker = turns[o].speaker /\ g.started = turns[o].started
        BY <1>4 DEF IInv, Sourced
      <4> QED BY <3>1, <4>1, <2>3, <2>4, <1>1
    <3>2. CASE x \in DOMAIN turns /\ x # o
      BY <3>2, <2>6 DEF IInv, Sourced
    <3> QED BY <2>6, <3>1, <3>2
  <2>8. \A x \in DOMAIN turns :
          /\ turns'[x].speaker = turns[x].speaker /\ turns'[x].is_final = turns[x].is_final
          /\ turns[x].is_final => turns'[x] = turns[x]
    <3> TAKE x \in DOMAIN turns
    <3>1. CASE x = o
      BY <3>1, <1>4, <2>3, <2>4
    <3>2. CASE x # o
      BY <3>2, <2>6
    <3> QED BY <3>1, <3>2
  <2> QED BY <2>6, <2>7, <2>8
<1> QED BY <1>2, <1>3, <1>4

(* What a step of the bus or the correction leaves true of the calls.      *)
LEMMA CallsKept ==
  ASSUME IInv, UNCHANGED <<call, checkpoint, emitted>>
  PROVE  OneAtATime' /\ Numbered' /\ Ahead' /\ NumberedOnce'
BY DEF IInv, OneAtATime, Numbered, Ahead, NumberedOnce, Going

(* A published turn is recorded, in a row of its own or over the row of    *)
(* its number (interview/transcript.py, record_turn).                      *)
LEMMA OnTurnKeeps ==
  ASSUME IInv, NEW e \in bus, _on_turn_completed(e)
  PROVE  IInv'
<1>1. /\ turns' = record_turn(e) /\ offsets_ordered(turns') /\ bus' = bus \ {e}
      /\ UNCHANGED <<call, checkpoint, status, pass, mishaps, emitted, lost>>
  BY DEF _on_turn_completed
<1>2. /\ turns' \in Snapshots /\ Sourced' /\ DOMAIN turns' = DOMAIN turns \cup {e.ordinal}
      /\ \A o \in DOMAIN turns : turns'[o].speaker = turns[o].speaker
  BY <1>1, TurnRecorded
<1>3. Typed'
  BY <1>1, <1>2 DEF IInv, Typed
<1>4. Recorded'
  <2> SUFFICES ASSUME NEW f \in emitted, f \notin bus' \cup lost
               PROVE  f.ordinal \in DOMAIN turns'
    BY <1>1 DEF Recorded
  <2>1. CASE f = e
    BY <2>1, <1>2
  <2>2. CASE f # e
    BY <2>2, <1>1, <1>2 DEF IInv, Recorded
  <2> QED BY <2>1, <2>2
<1>5. ReadsStand'
  BY <1>1, <1>2 DEF IInv, ReadsStand
<1> QED BY <1>1, <1>2, <1>3, <1>4, <1>5, CallsKept DEF IInv

(* A turn whose write fails is lost, and nothing else with it.             *)
LEMMA TurnRaisesKeeps ==
  ASSUME IInv, NEW e \in bus, turn_raises(e)
  PROVE  IInv'
<1>1. /\ bus' = bus \ {e} /\ lost' = lost \cup {e}
      /\ UNCHANGED <<call, checkpoint, turns, status, pass, emitted>>
  BY DEF turn_raises
<1>2. mishaps' \in 0 .. MaxMishaps
  BY MishapTyped DEF turn_raises, IInv, Typed
<1>3. Typed'
  BY <1>1, <1>2 DEF IInv, Typed
<1>4. Recorded'
  BY <1>1 DEF IInv, Recorded
<1> QED BY <1>1, <1>3, <1>4, CallsKept, RowsKept DEF IInv
-----------------------------------------------------------------------------
(* The correction task's actions.                                          *)

(* A correction pass reads the rows there are.                             *)
LEMMA ReadKeeps ==
  ASSUME IInv, NEW p \in Passes, correct_reads(p)
  PROVE  IInv'
<1> DEFINE y == [state |-> "decoding", read |-> turns, heard |-> {}]
<1>1. /\ pass' = [pass EXCEPT ![p] = y]
      /\ UNCHANGED <<call, checkpoint, bus, turns, status, mishaps, emitted, lost>>
  BY DEF correct_reads
<1>2. y \in PassState
  BY DEF IInv, Typed, PassState
<1>3. Typed'
  BY <1>1, <1>2 DEF IInv, Typed
<1>4. \A q \in Passes : pass'[q] = IF q = p THEN y ELSE pass[q]
  BY <1>1 DEF IInv, Typed
<1>5. ReadsStand'
  BY <1>1, <1>4 DEF IInv, ReadsStand
<1>6. Sourced' /\ Recorded'
  BY <1>1 DEF IInv, Sourced, Recorded
<1> QED BY <1>1, <1>3, <1>5, <1>6, CallsKept DEF IInv

(* A correction pass that decoded nothing leaves the rows.                 *)
LEMMA SkipKeeps ==
  ASSUME IInv, NEW p \in Passes, correct_skips(p)
  PROVE  IInv'
<1> DEFINE y == [pass[p] EXCEPT !.state = "idle", !.read = NoTurns]
<1>1. /\ pass' = [pass EXCEPT ![p] = y]
      /\ UNCHANGED <<call, checkpoint, bus, turns, status, mishaps, emitted, lost>>
  BY DEF correct_skips
<1>2. NoTurns \in Snapshots /\ DOMAIN NoTurns = {}
  <2>1. NoTurns \in [{} -> Turn]
    BY DEF NoTurns
  <2> QED BY <2>1 DEF Snapshots
<1>3. y \in PassState /\ y.read = NoTurns /\ y.heard = pass[p].heard
  BY <1>2 DEF IInv, Typed, PassState
<1> HIDE DEF y
<1>4. Typed'
  BY <1>1, <1>3 DEF IInv, Typed
<1>5. \A q \in Passes : pass'[q] = IF q = p THEN y ELSE pass[q]
  BY <1>1 DEF IInv, Typed
<1>6. ReadsStand'
  <2>1. ASSUME NEW q \in Passes
        PROVE  /\ pass'[q].heard \subseteq DOMAIN turns
               /\ DOMAIN pass'[q].read \subseteq DOMAIN turns
               /\ \A o \in DOMAIN pass'[q].read : pass'[q].read[o].speaker = turns[o].speaker
    <3>1. CASE q = p
      BY <3>1, <1>2, <1>3, <1>5 DEF IInv, ReadsStand
    <3>2. CASE q # p
      BY <3>2, <1>5 DEF IInv, ReadsStand
    <3> QED BY <3>1, <3>2
  <2> QED BY <1>1, <2>1 DEF ReadsStand
<1>7. Sourced' /\ Recorded'
  BY <1>1 DEF IInv, Sourced, Recorded
<1> QED BY <1>1, <1>4, <1>6, <1>7, CallsKept DEF IInv

(* What a commit does to the rows there are.                               *)
LEMMA Applied ==
  ASSUME IInv, NEW p \in Passes, NEW heard \in SUBSET DOMAIN pass[p].read,
         NEW rows, rows = apply(p, heard)
  PROVE  /\ rows \in Snapshots /\ DOMAIN rows = DOMAIN turns
         /\ \A o \in DOMAIN turns :
              /\ rows[o].content = turns[o].content /\ rows[o].speaker = turns[o].speaker
              /\ rows[o].started = turns[o].started /\ rows[o].ended = turns[o].ended
              /\ rows[o].corrected => turns[o].corrected \/ turns[o].speaker = CANDIDATE
              /\ o \notin reconcile(pass[p].read, heard) /\ turns[o].is_final
                   => rows[o] = turns[o]
<1> DEFINE corrections == reconcile(pass[p].read, heard)
<1>1. DOMAIN rows = DOMAIN turns
  BY DEF apply
<1>2. ASSUME NEW o \in DOMAIN turns
      PROVE  /\ rows[o] \in Turn
             /\ rows[o].content = turns[o].content /\ rows[o].speaker = turns[o].speaker
             /\ rows[o].started = turns[o].started /\ rows[o].ended = turns[o].ended
             /\ rows[o].corrected => turns[o].corrected \/ turns[o].speaker = CANDIDATE
             /\ o \notin corrections /\ turns[o].is_final => rows[o] = turns[o]
    <2>1. turns[o] \in Row /\ turns[o].ended >= turns[o].started
      BY RowTyped DEF IInv, Turn
    <2>2. PICK a \in BOOLEAN : a = (turns[o].corrected \/ o \in corrections)
      OBVIOUS
    <2>3. PICK b \in BOOLEAN :
            b = (turns[o].is_final \/ o \in corrections \/ turns[o].speaker = CANDIDATE)
      OBVIOUS
    <2>4. rows[o] = [turns[o] EXCEPT !.corrected = a, !.is_final = b]
      BY <2>2, <2>3 DEF apply
    <2>5. PICK y : y = [turns[o] EXCEPT !.corrected = a, !.is_final = b]
      OBVIOUS
    <2>6. /\ y \in Row /\ y.content = turns[o].content /\ y.speaker = turns[o].speaker
          /\ y.started = turns[o].started /\ y.ended = turns[o].ended
          /\ y.corrected = a /\ y.is_final = b
      BY <2>1, <2>5 DEF Row
    <2>7. y \in Turn
      BY <2>1, <2>6, TurnIsRow
    <2>8. o \in corrections => turns[o].speaker = CANDIDATE
      <3>1. o \in corrections => o \in heard /\ pass[p].read[o].speaker = CANDIDATE
        BY DEF reconcile
      <3> QED BY <3>1 DEF IInv, ReadsStand
    <2>9. a => turns[o].corrected \/ turns[o].speaker = CANDIDATE
      BY <2>2, <2>8
    <2>10. o \notin corrections /\ turns[o].is_final => y = turns[o]
      <3> SUFFICES ASSUME o \notin corrections, turns[o].is_final PROVE y = turns[o]
        OBVIOUS
      <3>1. turns[o].is_final = TRUE /\ turns[o].corrected \in BOOLEAN
        BY <2>1 DEF Row
      <3>2. a = turns[o].corrected
        BY <2>2, <3>1, Zenon
      <3>3. b = turns[o].is_final
        BY <2>3, <3>1, Zenon
      <3> QED BY <3>2, <3>3, <2>1, <2>5 DEF Row
    <2> QED BY <2>4, <2>5, <2>6, <2>7, <2>9, <2>10
<1>3. rows \in Snapshots
  <2>1. DOMAIN turns \subseteq Ordinals
    BY RowTyped DEF IInv
  <2>2. rows = [o \in DOMAIN turns |-> rows[o]]
    BY DEF apply
  <2>3. rows \in [DOMAIN turns -> Turn]
    BY <1>2, <2>2
  <2> QED BY <2>1, <2>3 DEF Snapshots
<1> QED BY <1>1, <1>2, <1>3

(* A correction pass writes over the rows it read: the text of the         *)
(* candidate's, and that theirs are final.                                 *)
LEMMA CommitKeeps ==
  ASSUME IInv, NEW p \in Passes, correct_commits(p)
  PROVE  IInv'
<1>1. PICK heard \in SUBSET DOMAIN pass[p].read :
        /\ turns' = apply(p, heard)
        /\ pass' = [pass EXCEPT ![p] = [state |-> "idle", read |-> NoTurns, heard |-> heard]]
  BY DEF correct_commits, transcribe
<1>2. UNCHANGED <<call, checkpoint, bus, status, mishaps, emitted, lost>>
  BY DEF correct_commits
<1>3. PICK rows : rows = apply(p, heard)
  OBVIOUS
<1>4. /\ rows \in Snapshots /\ DOMAIN rows = DOMAIN turns
      /\ \A o \in DOMAIN turns :
              /\ rows[o].content = turns[o].content /\ rows[o].speaker = turns[o].speaker
              /\ rows[o].started = turns[o].started /\ rows[o].ended = turns[o].ended
              /\ rows[o].corrected => turns[o].corrected \/ turns[o].speaker = CANDIDATE
  BY <1>3, Applied
<1>5. turns' = rows
  BY <1>1, <1>3
<1> DEFINE y == [state |-> "idle", read |-> NoTurns, heard |-> heard]
<1>6. NoTurns \in Snapshots /\ DOMAIN NoTurns = {}
  <2>1. NoTurns \in [{} -> Turn]
    BY DEF NoTurns
  <2> QED BY <2>1 DEF Snapshots
<1>7. heard \subseteq DOMAIN turns /\ DOMAIN turns \subseteq Ordinals
  BY RowTyped DEF IInv, ReadsStand
<1>8. y \in PassState
  BY <1>6, <1>7 DEF PassState
<1>9. Typed'
  BY <1>1, <1>2, <1>4, <1>5, <1>8 DEF IInv, Typed
<1>10. \A q \in Passes : pass'[q] = IF q = p THEN y ELSE pass[q]
  BY <1>1 DEF IInv, Typed
<1>11. ReadsStand'
  <2>1. ASSUME NEW q \in Passes
        PROVE  /\ pass'[q].heard \subseteq DOMAIN turns'
               /\ DOMAIN pass'[q].read \subseteq DOMAIN turns'
               /\ \A o \in DOMAIN pass'[q].read : pass'[q].read[o].speaker = turns'[o].speaker
    <3>1. CASE q = p
      BY <3>1, <1>4, <1>5, <1>6, <1>7, <1>10
    <3>2. CASE q # p
      BY <3>2, <1>4, <1>5, <1>10 DEF IInv, ReadsStand
    <3> QED BY <3>1, <3>2
  <2> QED BY <2>1 DEF ReadsStand
<1>12. Sourced'
  <2>1. ASSUME NEW o \in DOMAIN turns
        PROVE  /\ \E f \in emitted : /\ f.ordinal = o
                                     /\ f.call = rows[o].content /\ f.ended = rows[o].ended
               /\ \E g \in emitted : /\ g.ordinal = o
                                     /\ g.speaker = rows[o].speaker /\ g.started = rows[o].started
               /\ rows[o].corrected => rows[o].speaker = CANDIDATE
    BY <1>4 DEF IInv, Sourced
  <2> QED BY <2>1, <1>2, <1>4, <1>5 DEF Sourced
<1>13. Recorded'
  BY <1>2, <1>4, <1>5 DEF IInv, Recorded
<1> QED BY <1>2, <1>9, <1>11, <1>12, <1>13, CallsKept DEF IInv

-----------------------------------------------------------------------------
(* The specification.                                                      *)

(* A step publishes only numbers that no checkpoint has passed.            *)
LEMMA NextIInv ==
  ASSUME IInv, [Next]_vars
  PROVE  IInv' /\ \A e \in emitted' \ emitted : e.ordinal >= checkpoint
<1>1. ASSUME NEW c \in Calls, CallNext(c)
      PROVE  IInv' /\ \A e \in emitted' \ emitted : e.ordinal >= checkpoint
  <2>1. CASE CandidateSaid(c)
    BY <2>1, CandidateSaidKeeps
  <2>2. CASE ReplyBegins(c)
    BY <2>2, ReplyBeginsKeeps DEF ReplyBegins
  <2>3. CASE ReplyOver(c)
    BY <2>3, ReplyOverKeeps
  <2>4. CASE start(c)
    BY <2>4, StartKeeps DEF start
  <2>5. CASE _checkpoint_loop(c)
    BY <2>5, CheckpointKeeps DEF _checkpoint_loop
  <2>6. CASE save_raises(c)
    BY <2>6, SaveRaisesKeeps DEF save_raises
  <2>7. CASE \E superseded \in BOOLEAN : _run(c, superseded)
    BY <2>7, RunKeeps
  <2>8. CASE _finalise(c)
    BY <2>8, EndKeeps DEF _finalise
  <2>9. CASE finalise_raises(c)
    BY <2>9, EndKeeps DEF finalise_raises
  <2> QED BY <1>1, <2>1, <2>2, <2>3, <2>4, <2>5, <2>6, <2>7, <2>8, <2>9 DEF CallNext
<1>2. CASE \E e \in bus : _on_turn_completed(e) \/ turn_raises(e)
  BY <1>2, OnTurnKeeps, TurnRaisesKeeps DEF _on_turn_completed, turn_raises
<1>3. CASE InterviewCloses
  BY <1>3, InterviewClosesKeeps DEF InterviewCloses
<1>4. CASE ApiCrash
  BY <1>4, ApiCrashKeeps DEF ApiCrash
<1>5. CASE \E p \in Passes : correct_reads(p) \/ correct_commits(p) \/ correct_skips(p)
  BY <1>5, ReadKeeps, CommitKeeps, SkipKeeps DEF correct_reads, correct_commits, correct_skips
<1>6. CASE UNCHANGED vars
  <2>1. UNCHANGED <<call, checkpoint, bus, turns, status, pass, mishaps, emitted, lost>>
    BY <1>6 DEF vars
  <2>2. Typed' /\ Recorded'
    BY <2>1 DEF IInv, Typed, Recorded
  <2> QED BY <2>1, <2>2, CallsKept, RowsKept DEF IInv
<1> QED BY <1>1, <1>2, <1>3, <1>4, <1>5, <1>6 DEF Next

(* The invariant holds in every state reached.                             *)
LEMMA Invariance == Spec => []IInv
BY InitIInv, NextIInv, PTL DEF Spec

(* The invariant types every variable.                                     *)
LEMMA InvTypeOK == IInv => TypeOK
<1> SUFFICES ASSUME IInv PROVE TypeOK
  OBVIOUS
<1>1. DOMAIN turns \subseteq Ordinals /\ \A o \in DOMAIN turns : turns[o] \in Turn
  BY RowTyped DEF IInv
<1>2. \A p \in Passes : /\ pass[p].state \in {"idle", "decoding"}
                        /\ pass[p].heard \subseteq DOMAIN turns
  BY DEF IInv, Typed, PassState, ReadsStand
<1> QED BY <1>1, <1>2 DEF IInv, Typed, TypeOK

(* Every variable of the transcript stays in its range, and every stored   *)
(* turn has its offsets in order, whichever calls, correction passes and   *)
(* mishaps there are (models/interview.py, InterviewTurn).                 *)
THEOREM TypeCorrect == Spec => []TypeOK
BY Invariance, InvTypeOK, PTL

(* A number that the checkpoint has passed is never given to another turn: *)
(* a rejoined call goes on above what was saved, and a call that saves is  *)
(* past all it published (session_manager.py:170-191, 414-435).            *)
THEOREM NumbersStand == Spec => CheckpointedNumbersStand
<1>1. IInv /\ [Next]_vars => [\A e \in emitted' \ emitted : e.ordinal >= checkpoint]_vars
  BY NextIInv
<1> QED BY <1>1, Invariance, PTL DEF Spec, CheckpointedNumbersStand

(* The invariant says what was recorded of a turn whose number is its own. *)
LEMMA InvRecorded == IInv => UncontestedTurnsRecorded
<1> SUFFICES ASSUME IInv, NEW e \in emitted \ (bus \cup lost),
                    \A f \in emitted : f.ordinal = e.ordinal => f.call = e.call
             PROVE  /\ e.ordinal \in DOMAIN turns
                    /\ LET row == turns[e.ordinal]
                       IN  /\ <<row.content, row.speaker, row.started, row.ended>>
                                = <<e.call, e.speaker, e.started, e.ended>>
                           /\ row.corrected => e.speaker = CANDIDATE
  BY DEF UncontestedTurnsRecorded
<1>1. e.ordinal \in DOMAIN turns
  BY DEF IInv, Recorded
<1>2. \A f \in emitted : f.ordinal = e.ordinal => f = e
  BY DEF IInv, NumberedOnce
<1>3. /\ e.call = turns[e.ordinal].content /\ e.ended = turns[e.ordinal].ended
      /\ e.speaker = turns[e.ordinal].speaker /\ e.started = turns[e.ordinal].started
      /\ turns[e.ordinal].corrected => turns[e.ordinal].speaker = CANDIDATE
  BY <1>1, <1>2 DEF IInv, Sourced
<1> QED BY <1>1, <1>3

(* A published turn whose number no other call used stands in the          *)
(* transcript as it was published, unless its event is under way or was    *)
(* lost, and nobody but the candidate is ever corrected, for any number of *)
(* calls, correction passes and mishaps (interview/transcript.py:45-102,   *)
(* transcript_pass.py:180-268).                                            *)
THEOREM TurnsRecorded == Spec => []UncontestedTurnsRecorded
BY Invariance, InvRecorded, PTL

(* What a correction changes of a final turn: its text, where the pass had *)
(* read it as not final.                                                   *)
LEMMA FinalCorrected ==
  ASSUME IInv, NEW p \in Passes, NEW heard \in SUBSET DOMAIN pass[p].read,
         NEW rows, rows = apply(p, heard), NEW o \in DOMAIN turns, turns[o].is_final,
         o \in reconcile(pass[p].read, heard)
  PROVE  /\ rows[o] = [turns[o] EXCEPT !.corrected = TRUE]
         /\ turns[o].speaker = CANDIDATE
         /\ o \in DOMAIN pass[p].read /\ ~pass[p].read[o].is_final
<1>1. turns[o] \in Row
  BY RowTyped DEF IInv, Turn
<1>2. turns[o].is_final = TRUE
  BY <1>1 DEF Row
<1>3. rows[o] = [turns[o] EXCEPT !.corrected = TRUE, !.is_final = TRUE]
  BY <1>1 DEF apply
<1>4. [turns[o] EXCEPT !.corrected = TRUE, !.is_final = TRUE]
        = [turns[o] EXCEPT !.corrected = TRUE]
  BY <1>1, <1>2 DEF Row
<1>5. o \in DOMAIN pass[p].read /\ pass[p].read[o].speaker = CANDIDATE
      /\ ~pass[p].read[o].is_final
  BY DEF reconcile
<1> QED BY <1>3, <1>4, <1>5 DEF IInv, ReadsStand

(* Every step leaves a final turn as it is, or is the commit of a delivery *)
(* that read it before.                                                    *)
LEMMA NextFinality ==
  ASSUME IInv, [Next]_vars
  PROVE  \A o \in DOMAIN turns : turns[o].is_final =>
           /\ o \in DOMAIN turns'
           /\ \/ turns'[o] = turns[o]
              \/ /\ turns[o].speaker = CANDIDATE
                 /\ turns'[o] = [turns[o] EXCEPT !.corrected = TRUE]
                 /\ \E p \in Passes : CommitsUnaware(p, o)
<1> SUFFICES ASSUME NEW o \in DOMAIN turns, turns[o].is_final
             PROVE  /\ o \in DOMAIN turns'
                    /\ \/ turns'[o] = turns[o]
                       \/ /\ turns[o].speaker = CANDIDATE
                          /\ turns'[o] = [turns[o] EXCEPT !.corrected = TRUE]
                          /\ \E p \in Passes : CommitsUnaware(p, o)
  OBVIOUS
<1> DEFINE Stands == o \in DOMAIN turns' /\ turns'[o] = turns[o]
<1>1. ASSUME NEW e \in bus, _on_turn_completed(e)
      PROVE  Stands
  <2>1. turns' = record_turn(e) /\ offsets_ordered(turns') /\ emitted' = emitted
    BY <1>1 DEF _on_turn_completed
  <2> QED BY <2>1, TurnRecorded
<1>2. ASSUME NEW p \in Passes, correct_commits(p)
      PROVE  /\ o \in DOMAIN turns'
             /\ \/ turns'[o] = turns[o]
                \/ /\ turns[o].speaker = CANDIDATE
                   /\ turns'[o] = [turns[o] EXCEPT !.corrected = TRUE]
                   /\ CommitsUnaware(p, o)
  <2>1. PICK heard \in SUBSET DOMAIN pass[p].read :
          /\ turns' = apply(p, heard)
          /\ pass' = [pass EXCEPT ![p] = [state |-> "idle", read |-> NoTurns, heard |-> heard]]
    BY <1>2 DEF correct_commits, transcribe
  <2>2. PICK rows : rows = apply(p, heard)
    OBVIOUS
  <2>3. o \in DOMAIN rows
    BY <2>2, Applied
  <2>4. CASE o \notin reconcile(pass[p].read, heard)
    BY <2>1, <2>2, <2>3, <2>4, Applied
  <2>5. CASE o \in reconcile(pass[p].read, heard)
    <3>1. /\ rows[o] = [turns[o] EXCEPT !.corrected = TRUE]
          /\ turns[o].speaker = CANDIDATE
          /\ o \in DOMAIN pass[p].read /\ ~pass[p].read[o].is_final
      BY <2>2, <2>5, FinalCorrected
    <3>2. pass[p].state = "decoding" /\ pass'[p].state = "idle"
      BY <1>2, <2>1 DEF correct_commits, IInv, Typed
    <3> QED BY <2>1, <2>2, <2>3, <3>1, <3>2 DEF CommitsUnaware
  <2> QED BY <2>4, <2>5
<1>3. ASSUME NEW e \in bus, turn_raises(e)
      PROVE  Stands
  BY <1>3 DEF turn_raises
<1>4. ASSUME NEW p \in Passes, correct_reads(p) \/ correct_skips(p)
      PROVE  Stands
  BY <1>4 DEF correct_reads, correct_skips
<1>5. ASSUME NEW c \in Calls, CallNext(c)
      PROVE  Stands
  <2>1. UNCHANGED turns
    BY <1>5
    DEF CallNext, CandidateSaid, ReplyBegins, ReplyOver, start, _checkpoint_loop, save_raises,
        _run, _finalise, finalise_raises
  <2> QED BY <2>1
<1>6. InterviewCloses \/ ApiCrash \/ UNCHANGED vars => Stands
  BY DEF InterviewCloses, ApiCrash, vars
<1> QED BY <1>1, <1>2, <1>3, <1>4, <1>5, <1>6 DEF Next

(* Nothing changes a turn that is final but a delivery of the correction   *)
(* that was decoding since before it was final, and that one only corrects *)
(* the candidate's words: no late event does, and no delivery that read it *)
(* as final, for any number of deliveries beside each other                *)
(* (transcript_pass.py:180-268, interview/transcript.py:84).               *)
THEOREM FinalStand == Spec => FinalTurnsStand
<1>1. IInv /\ [Next]_vars =>
        [\A o \in DOMAIN turns : turns[o].is_final =>
           /\ o \in DOMAIN turns'
           /\ \/ turns'[o] = turns[o]
              \/ /\ turns[o].speaker = CANDIDATE
                 /\ turns'[o] = [turns[o] EXCEPT !.corrected = TRUE]
                 /\ \E p \in Passes : CommitsUnaware(p, o)]_vars
  BY NextFinality
<1> QED BY <1>1, Invariance, PTL DEF Spec, FinalTurnsStand

(***************************************************************************)
(* Scoring: sums.                                                          *)
(***************************************************************************)
(* The element a fold over s takes first.                                  *)
First(s) == CHOOSE x \in s : TRUE

(* Induction along the fold: what holds of the empty set, and of a set as  *)
(* soon as it holds of the set without its first element, holds of every   *)
(* finite set.                                                             *)
LEMMA FoldInduction ==
  ASSUME NEW S, IsFiniteSet(S), NEW Q,
         {} \in Q,
         \A s \in SUBSET S : s # {} /\ s \ {First(s)} \in Q => s \in Q
  PROVE  \A s \in SUBSET S : s \in Q
<1> DEFINE Bad == {s \in SUBSET S : s \notin Q}
           T == {n \in Nat : \E s \in Bad : Cardinality(s) = n}
<1>1. SUFFICES ASSUME Bad # {} PROVE FALSE
  OBVIOUS
<1>2. \A s \in SUBSET S : IsFiniteSet(s) /\ Cardinality(s) \in Nat
  BY FS_Subset, FS_CardinalityType
<1>3. T # {}
  BY <1>1, <1>2
<1>4. PICK n \in T : \A m \in T : n <= m
  <2>1. T \subseteq Nat
    OBVIOUS
  <2> HIDE DEF T
  <2> QED BY <1>3, <2>1, LeastNumber
<1>5. PICK s \in Bad : Cardinality(s) = n
  OBVIOUS
<1>6. s # {} /\ First(s) \in s
  BY <1>5 DEF First
<1> DEFINE r == s \ {First(s)}
<1>7. Cardinality(r) = n - 1 /\ IsFiniteSet(r)
  BY <1>2, <1>5, <1>6, FS_RemoveElement
<1>8. r \in Bad
  BY <1>5, <1>6
<1>9. n - 1 \in T
  BY <1>2, <1>7, <1>8
<1> QED BY <1>4, <1>9

(* The function a sum of f over S is read from.                            *)
IsIter(f, S, F) ==
  F = [s \in SUBSET S |-> IF s = {} THEN 0 ELSE f[First(s)] + F[s \ {First(s)}]]

(* A sum is read from a function on the subsets of S.                      *)
LEMMA SumIsIter ==
  ASSUME NEW f, NEW S
  PROVE  SumFunctionOnSet(f, S) = (CHOOSE F : IsIter(f, S, F))[S]
BY DEF SumFunctionOnSet, FoldFunctionOnSet, MapThenFoldSet, IsIter, First

(* There is one: it is built up to one more element at a time.             *)
UpTo(f, S, n, F) ==
  F = [s \in SUBSET S |-> IF s = {} \/ Cardinality(s) > n THEN 0
                          ELSE f[First(s)] + F[s \ {First(s)}]]

(* The sizes of the subsets a fold goes through.                           *)
LEMMA SubsetSizes ==
  ASSUME NEW S, IsFiniteSet(S), NEW s \in SUBSET S
  PROVE  /\ IsFiniteSet(s) /\ Cardinality(s) \in Nat /\ Cardinality(s) <= Cardinality(S)
         /\ s = {} \/ Cardinality(s) > 0
         /\ s # {} => Cardinality(s \ {First(s)}) = Cardinality(s) - 1
<1>1. IsFiniteSet(s) /\ Cardinality(s) \in Nat /\ Cardinality(s) <= Cardinality(S)
  BY FS_Subset, FS_CardinalityType
<1>2. s = {} \/ Cardinality(s) > 0
  <2>1. Cardinality(s) = 0 => s = {}
    BY <1>1, FS_EmptySet
  <2> QED BY <1>1, <2>1
<1>3. s # {} => First(s) \in s
  BY DEF First
<1> QED BY <1>1, <1>2, <1>3, FS_RemoveElement

(* The function for sets of n elements gives the one for n + 1.            *)
LEMMA UpToNext ==
  ASSUME NEW f, NEW S, IsFiniteSet(S), NEW n \in Nat, NEW F, UpTo(f, S, n, F)
  PROVE  \E G : UpTo(f, S, n + 1, G)
<1> DEFINE G == [s \in SUBSET S |-> IF s = {} \/ Cardinality(s) > n + 1 THEN 0
                                    ELSE f[First(s)] + F[s \ {First(s)}]]
<1>1. \A s \in SUBSET S : Cardinality(s) <= n => G[s] = F[s]
  <2> TAKE s \in SUBSET S
  <2>1. Cardinality(s) <= n => ~ (Cardinality(s) > n) /\ ~ (Cardinality(s) > n + 1)
    <3>1. Cardinality(s) \in Nat
      BY SubsetSizes
    <3> HIDE DEF G
    <3> QED BY <3>1
  <2>2. F[s] = IF s = {} \/ Cardinality(s) > n THEN 0 ELSE f[First(s)] + F[s \ {First(s)}]
    BY DEF UpTo
  <2>3. G[s] = IF s = {} \/ Cardinality(s) > n + 1 THEN 0 ELSE f[First(s)] + F[s \ {First(s)}]
    OBVIOUS
  <2> HIDE DEF G
  <2> QED BY <2>1, <2>2, <2>3
<1>2. \A s \in SUBSET S : ~ (s = {} \/ Cardinality(s) > n + 1)
        => F[s \ {First(s)}] = G[s \ {First(s)}]
  <2> SUFFICES ASSUME NEW s \in SUBSET S, ~ (s = {} \/ Cardinality(s) > n + 1)
               PROVE  F[s \ {First(s)}] = G[s \ {First(s)}]
    OBVIOUS
  <2>1. Cardinality(s \ {First(s)}) <= n /\ s \ {First(s)} \in SUBSET S
    BY SubsetSizes
  <2> HIDE DEF G
  <2> QED BY <1>1, <2>1
<1>3. UpTo(f, S, n + 1, G)
  BY <1>2 DEF UpTo
<1> HIDE DEF G
<1> QED BY <1>3

(* The function a sum is read from exists.                                 *)
LEMMA IterExists ==
  ASSUME NEW f, NEW S, IsFiniteSet(S)
  PROVE  \E F : IsIter(f, S, F)
<1> DEFINE Out == {n \in Nat : ~ \E F : UpTo(f, S, n, F)}
<1>1. Out = {}
  <2>1. SUFFICES ASSUME Out # {} PROVE FALSE
    OBVIOUS
  <2>2. PICK n \in Out : \A m \in Out : n <= m
    <3>1. Out \subseteq Nat
      OBVIOUS
    <3> HIDE DEF Out
    <3> QED BY <2>1, <3>1, LeastNumber
  <2>3. CASE n = 0
    <3> DEFINE F == [s \in SUBSET S |-> 0]
    <3>1. \A s \in SUBSET S : s = {} \/ Cardinality(s) > 0
      BY SubsetSizes
    <3>2. UpTo(f, S, 0, F)
      BY <3>1 DEF UpTo
    <3> HIDE DEF F
    <3> QED BY <2>2, <2>3, <3>2
  <2>4. CASE n # 0
    <3>1. n - 1 \in Nat /\ (n - 1) + 1 = n /\ ~ (n <= n - 1)
      BY <2>2, <2>4
    <3>2. n - 1 \notin Out
      <4> HIDE DEF Out
      <4> QED BY <2>2, <3>1
    <3>3. PICK F : UpTo(f, S, n - 1, F)
      BY <3>1, <3>2
    <3>4. \E G : UpTo(f, S, (n - 1) + 1, G)
      BY <3>1, <3>3, UpToNext
    <3>5. \E G : UpTo(f, S, n, G)
      BY <3>1, <3>4
    <3> QED BY <2>2, <3>5
  <2> QED BY <2>3, <2>4
<1>2. Cardinality(S) \in Nat
  BY FS_CardinalityType
<1>3. PICK F : UpTo(f, S, Cardinality(S), F)
  BY <1>1, <1>2
<1>4. \A s \in SUBSET S : ~ (Cardinality(s) > Cardinality(S))
  <2> TAKE s \in SUBSET S
  <2>1. Cardinality(s) \in Nat /\ Cardinality(s) <= Cardinality(S)
    BY SubsetSizes
  <2> QED BY <1>2, <2>1
<1>5. IsIter(f, S, F)
  BY <1>3, <1>4 DEF IsIter, UpTo
<1> QED BY <1>5

(* What that function is at a set.                                         *)
LEMMA IterAt ==
  ASSUME NEW f, NEW S, NEW F, IsIter(f, S, F), NEW s \in SUBSET S
  PROVE  F[s] = IF s = {} THEN 0 ELSE f[First(s)] + F[s \ {First(s)}]
BY DEF IsIter

(* Two of them agree where both are defined.                               *)
LEMMA IterUnique ==
  ASSUME NEW f, NEW S, NEW T \in SUBSET S, IsFiniteSet(T), NEW F, NEW G,
         IsIter(f, S, F), IsIter(f, T, G)
  PROVE  \A s \in SUBSET T : F[s] = G[s]
<1> DEFINE Q == {s \in SUBSET T : F[s] = G[s]}
<1>1. {} \in Q
  BY IterAt
<1>2. \A s \in SUBSET T : s # {} /\ s \ {First(s)} \in Q => s \in Q
  BY IterAt
<1>3. \A s \in SUBSET T : s \in Q
  <2> HIDE DEF Q
  <2> QED BY <1>1, <1>2, FoldInduction
<1> QED BY <1>3

(* A sum is nothing, or its first term and the sum of the others.          *)
LEMMA SumStep ==
  ASSUME NEW f, NEW S, IsFiniteSet(S)
  PROVE  SumFunctionOnSet(f, S) =
           IF S = {} THEN 0 ELSE f[First(S)] + SumFunctionOnSet(f, S \ {First(S)})
<1> DEFINE T == S \ {First(S)}
           F == CHOOSE F : IsIter(f, S, F)
           G == CHOOSE G : IsIter(f, T, G)
<1>1. IsFiniteSet(T) /\ T \in SUBSET S
  BY FS_Subset
<1>2. IsIter(f, S, F)
  BY IterExists
<1>3. IsIter(f, T, G)
  BY <1>1, IterExists
<1>4. SumFunctionOnSet(f, S) = F[S] /\ SumFunctionOnSet(f, T) = G[T]
  BY SumIsIter
<1>5. F[S] = IF S = {} THEN 0 ELSE f[First(S)] + F[T]
  BY <1>2, IterAt
<1>6. F[T] = G[T]
  <2> HIDE DEF F, G, T
  <2> QED BY <1>1, <1>2, <1>3, IterUnique
<1> QED BY <1>4, <1>5, <1>6

(* What relates each two terms relates the two sums.                       *)
LEMMA SumInt ==
  ASSUME NEW S, IsFiniteSet(S), NEW f, \A i \in S : f[i] \in Int
  PROVE  SumFunctionOnSet(f, S) \in Int
<1> DEFINE Q == {s \in SUBSET S : SumFunctionOnSet(f, s) \in Int}
<1>1. {} \in Q
  <2>1. SumFunctionOnSet(f, {}) = 0
    BY SumStep, FS_EmptySet
  <2> QED BY <2>1
<1>2. \A s \in SUBSET S : s # {} /\ s \ {First(s)} \in Q => s \in Q
  <2> SUFFICES ASSUME NEW s \in SUBSET S, s # {}, s \ {First(s)} \in Q
               PROVE  SumFunctionOnSet(f, s) \in Int
    OBVIOUS
  <2>1. IsFiniteSet(s) /\ f[First(s)] \in Int
    BY FS_Subset DEF First
  <2>2. SumFunctionOnSet(f, s) = f[First(s)] + SumFunctionOnSet(f, s \ {First(s)})
    BY <2>1, SumStep
  <2> QED BY <2>1, <2>2
<1>3. \A s \in SUBSET S : s \in Q
  <2> HIDE DEF Q
  <2> QED BY <1>1, <1>2, FoldInduction
<1> QED BY <1>3

(* The step of SumLinear, over integers.                                   *)
LEMMA LinearStep ==
  ASSUME NEW a \in Int, NEW b \in Int, NEW c \in Int, NEW x \in Int, NEW y \in Int,
         NEW p \in Int, NEW q \in Int, NEW n \in Int,
         a * x <= b * y + c, a * p <= b * q + c * (n - 1)
  PROVE  a * (x + p) <= b * (y + q) + c * n
<1>1. a * (x + p) = a * x + a * p /\ b * (y + q) = b * y + b * q /\ c * (n - 1) = c * n - c
  OBVIOUS
<1>2. a * x \in Int /\ a * p \in Int /\ b * y \in Int /\ b * q \in Int /\ c * n \in Int
  OBVIOUS
<1> QED BY <1>1, <1>2

(* A linear bound on the terms is one on the sums.                         *)
LEMMA SumLinear ==
  ASSUME NEW S, IsFiniteSet(S), NEW f, NEW g, NEW a \in Int, NEW b \in Int, NEW c \in Int,
         \A i \in S : f[i] \in Int /\ g[i] \in Int /\ a * f[i] <= b * g[i] + c
  PROVE  a * SumFunctionOnSet(f, S) <= b * SumFunctionOnSet(g, S) + c * Cardinality(S)
<1> DEFINE P(s) == a * SumFunctionOnSet(f, s) <= b * SumFunctionOnSet(g, s) + c * Cardinality(s)
           Q == {s \in SUBSET S : P(s)}
<1>1. {} \in Q
  <2>1. SumFunctionOnSet(f, {}) = 0 /\ SumFunctionOnSet(g, {}) = 0 /\ Cardinality({}) = 0
    BY SumStep, FS_EmptySet
  <2> QED BY <2>1
<1>2. \A s \in SUBSET S : s # {} /\ s \ {First(s)} \in Q => s \in Q
  <2> SUFFICES ASSUME NEW s \in SUBSET S, s # {}, s \ {First(s)} \in Q
               PROVE  P(s)
    OBVIOUS
  <2> DEFINE r == s \ {First(s)}
  <2>1. IsFiniteSet(s) /\ First(s) \in S /\ IsFiniteSet(r)
    BY FS_Subset DEF First
  <2>2. /\ SumFunctionOnSet(f, s) = f[First(s)] + SumFunctionOnSet(f, r)
        /\ SumFunctionOnSet(g, s) = g[First(s)] + SumFunctionOnSet(g, r)
    BY <2>1, SumStep
  <2>3. SumFunctionOnSet(f, r) \in Int /\ SumFunctionOnSet(g, r) \in Int
    BY <2>1, SumInt
  <2>4. Cardinality(s) \in Int /\ Cardinality(r) = Cardinality(s) - 1
    <3>1. Cardinality(s) \in Nat /\ Cardinality(r) = Cardinality(s) - 1
      <4> HIDE DEF Q
      <4> QED BY SubsetSizes
    <3> QED BY <3>1
  <2>5. P(r)
    OBVIOUS
  <2>6. a * (f[First(s)] + SumFunctionOnSet(f, r))
          <= b * (g[First(s)] + SumFunctionOnSet(g, r)) + c * Cardinality(s)
    <3>1. a * f[First(s)] <= b * g[First(s)] + c /\ f[First(s)] \in Int /\ g[First(s)] \in Int
      BY <2>1
    <3>2. a * SumFunctionOnSet(f, r) <= b * SumFunctionOnSet(g, r) + c * (Cardinality(s) - 1)
      BY <2>4, <2>5
    <3> HIDE DEF r
    <3> QED BY <3>1, <3>2, <2>3, <2>4, LinearStep
  <2> QED BY <2>2, <2>6
<1>3. \A s \in SUBSET S : s \in Q
  <2> HIDE DEF Q
  <2> QED BY <1>1, <1>2, FoldInduction
<1> QED BY <1>3

(* A sum whose terms lie between multiples of another's lies between the   *)
(* multiples of it.                                                        *)
LEMMA SumBetween ==
  ASSUME NEW S, IsFiniteSet(S), NEW f, NEW g, NEW a \in Int, NEW b \in Int,
         \A i \in S : f[i] \in Int /\ g[i] \in Int /\ a * f[i] <= g[i] /\ g[i] <= b * f[i]
  PROVE  /\ a * SumFunctionOnSet(f, S) <= SumFunctionOnSet(g, S)
         /\ SumFunctionOnSet(g, S) <= b * SumFunctionOnSet(f, S)
<1> DEFINE one == 1
           none == 0
           F == SumFunctionOnSet(f, S)
           G == SumFunctionOnSet(g, S)
           n == Cardinality(S)
<1>1. one \in Int /\ none \in Int
  OBVIOUS
<1>2. \A i \in S : one * g[i] = g[i] /\ a * f[i] + none = a * f[i]
                  /\ b * f[i] + none = b * f[i] /\ g[i] + none = g[i]
  OBVIOUS
<1>3. F \in Int /\ G \in Int /\ n \in Int
  <2>1. n \in Nat
    BY FS_CardinalityType
  <2> HIDE DEF n
  <2> QED BY <2>1, SumInt
<1>4. one * G = G /\ none * n = 0
  <2> HIDE DEF F, G, n
  <2> QED BY <1>3
<1> HIDE DEF one, none
<1>5. \A i \in S : a * f[i] <= one * g[i] + none /\ one * g[i] <= b * f[i] + none
  <2> TAKE i \in S
  <2>1. /\ one * g[i] = g[i] /\ g[i] + none = g[i] /\ b * f[i] + none = b * f[i]
        /\ a * f[i] <= g[i] /\ g[i] <= b * f[i]
    BY <1>2
  <2> QED BY <2>1
<1>6. a * F <= one * G + none * n
  BY <1>1, <1>5, SumLinear
<1>7. one * G <= b * F + none * n
  BY <1>1, <1>5, SumLinear
<1> HIDE DEF F, G, n
<1>8. a * F \in Int /\ b * F \in Int
  BY <1>3
<1>9. a * F <= G /\ G <= b * F
  BY <1>3, <1>4, <1>6, <1>7, <1>8
<1> QED BY <1>9 DEF F, G

(* Equal terms, equal sums.                                                *)
LEMMA SumSame ==
  ASSUME NEW S, IsFiniteSet(S), NEW f, NEW g, \A i \in S : f[i] = g[i]
  PROVE  SumFunctionOnSet(f, S) = SumFunctionOnSet(g, S)
<1> DEFINE Q == {s \in SUBSET S : SumFunctionOnSet(f, s) = SumFunctionOnSet(g, s)}
<1>1. {} \in Q
  BY SumStep, FS_EmptySet
<1>2. \A s \in SUBSET S : s # {} /\ s \ {First(s)} \in Q => s \in Q
  <2> SUFFICES ASSUME NEW s \in SUBSET S, s # {}, s \ {First(s)} \in Q
               PROVE  SumFunctionOnSet(f, s) = SumFunctionOnSet(g, s)
    OBVIOUS
  <2>1. IsFiniteSet(s) /\ First(s) \in S
    BY FS_Subset DEF First
  <2>2. /\ SumFunctionOnSet(f, s) = f[First(s)] + SumFunctionOnSet(f, s \ {First(s)})
        /\ SumFunctionOnSet(g, s) = g[First(s)] + SumFunctionOnSet(g, s \ {First(s)})
    BY <2>1, SumStep
  <2> QED BY <2>1, <2>2
<1>3. \A s \in SUBSET S : s \in Q
  <2> HIDE DEF Q
  <2> QED BY <1>1, <1>2, FoldInduction
<1> QED BY <1>3

(* A sum does not depend on the order its terms are taken in.              *)
LEMMA SumRemove ==
  ASSUME NEW S, IsFiniteSet(S), NEW f, \A i \in S : f[i] \in Int
  PROVE  \A s \in SUBSET S : \A e \in s :
           SumFunctionOnSet(f, s) = f[e] + SumFunctionOnSet(f, s \ {e})
<1> DEFINE Holds(s) == \A e \in s : SumFunctionOnSet(f, s) = f[e] + SumFunctionOnSet(f, s \ {e})
           Bad == {s \in SUBSET S : ~ Holds(s)}
           T == {n \in Nat : \E s \in Bad : Cardinality(s) = n}
<1>1. SUFFICES ASSUME Bad # {} PROVE FALSE
  OBVIOUS
<1>2. \A s \in SUBSET S : IsFiniteSet(s) /\ Cardinality(s) \in Nat
  BY FS_Subset, FS_CardinalityType
<1>3. PICK n \in T : \A m \in T : n <= m
  <2>1. PICK s \in Bad : TRUE
    BY <1>1
  <2>2. s \in SUBSET S
    OBVIOUS
  <2>3. Cardinality(s) \in T
    <3> HIDE DEF Bad
    <3> QED BY <1>2, <2>1, <2>2
  <2>4. T \subseteq Nat /\ T # {}
    BY <2>3
  <2> HIDE DEF T
  <2> QED BY <2>4, LeastNumber
<1>4. PICK s \in Bad : Cardinality(s) = n
  OBVIOUS
<1>5. \A e \in s : Holds(s \ {e})
  <2> TAKE e \in s
  <2>1. Cardinality(s \ {e}) = n - 1 /\ s \ {e} \in SUBSET S
    BY <1>2, <1>4, FS_RemoveElement
  <2>2. n - 1 \in Nat /\ ~ (n <= n - 1)
    BY <1>2, <2>1, <1>3
  <2>3. n - 1 \notin T
    <3> HIDE DEF T
    <3> QED BY <1>3, <2>2
  <2>4. s \ {e} \notin Bad
    <3> HIDE DEF Bad
    <3> QED BY <2>1, <2>2, <2>3
  <2> HIDE DEF Holds
  <2> QED BY <2>1, <2>4
<1>6. PICK e \in s : SumFunctionOnSet(f, s) # f[e] + SumFunctionOnSet(f, s \ {e})
  BY <1>4
<1> DEFINE c == First(s)
<1>7. c \in s /\ c \in S /\ e \in S
  BY <1>4, <1>6 DEF First
<1> HIDE DEF c, Bad, T
<1>8. SumFunctionOnSet(f, s) = f[c] + SumFunctionOnSet(f, s \ {c})
  BY <1>2, <1>4, <1>7, SumStep DEF Bad, c
<1>9. c # e
  BY <1>6, <1>8
<1>10. SumFunctionOnSet(f, s \ {c}) = f[e] + SumFunctionOnSet(f, (s \ {c}) \ {e})
  BY <1>5, <1>6, <1>7, <1>9
<1>11. SumFunctionOnSet(f, s \ {e}) = f[c] + SumFunctionOnSet(f, (s \ {e}) \ {c})
  BY <1>5, <1>6, <1>7, <1>9
<1>12. (s \ {c}) \ {e} = (s \ {e}) \ {c}
  OBVIOUS
<1>13. SumFunctionOnSet(f, (s \ {c}) \ {e}) \in Int
  <2>1. (s \ {c}) \ {e} \in SUBSET S
    BY <1>4 DEF Bad
  <2>2. IsFiniteSet((s \ {c}) \ {e})
    BY <1>2, <2>1
  <2> QED BY <2>1, <2>2, SumInt
<1>14. f[c] \in Int /\ f[e] \in Int
  BY <1>7
<1> DEFINE x == SumFunctionOnSet(f, (s \ {c}) \ {e})
<1>15. /\ SumFunctionOnSet(f, s) = f[c] + (f[e] + x)
       /\ f[e] + SumFunctionOnSet(f, s \ {e}) = f[e] + (f[c] + x)
  BY <1>8, <1>10, <1>11, <1>12
<1>16. x \in Int
  BY <1>13
<1> HIDE DEF x
<1>17. f[c] + (f[e] + x) = f[e] + (f[c] + x)
  BY <1>14, <1>16
<1> QED BY <1>6, <1>15, <1>17

(* One term greater by d makes a sum greater by d.                         *)
LEMMA SumRaised ==
  ASSUME NEW S, IsFiniteSet(S), NEW f, NEW g, NEW e \in S, NEW d \in Int,
         \A i \in S : f[i] \in Int, \A i \in S \ {e} : g[i] = f[i], g[e] = f[e] + d
  PROVE  SumFunctionOnSet(g, S) = SumFunctionOnSet(f, S) + d
<1> DEFINE P(s) == SumFunctionOnSet(g, s) = SumFunctionOnSet(f, s) + (IF e \in s THEN d ELSE 0)
           Q == {s \in SUBSET S : P(s)}
<1>1. {} \in Q
  <2>1. SumFunctionOnSet(f, {}) = 0 /\ SumFunctionOnSet(g, {}) = 0
    BY SumStep, FS_EmptySet
  <2> QED BY <2>1
<1>2. \A s \in SUBSET S : s # {} /\ s \ {First(s)} \in Q => s \in Q
  <2> SUFFICES ASSUME NEW s \in SUBSET S, s # {}, s \ {First(s)} \in Q
               PROVE  P(s)
    OBVIOUS
  <2> DEFINE r == s \ {First(s)}
  <2>1. IsFiniteSet(s) /\ First(s) \in s /\ IsFiniteSet(r) /\ r \in SUBSET S
    BY FS_Subset DEF First
  <2>2. /\ SumFunctionOnSet(f, s) = f[First(s)] + SumFunctionOnSet(f, r)
        /\ SumFunctionOnSet(g, s) = g[First(s)] + SumFunctionOnSet(g, r)
    BY <2>1, SumStep
  <2>3. SumFunctionOnSet(f, r) \in Int
    BY <2>1, SumInt
  <2>4. SumFunctionOnSet(g, r) = SumFunctionOnSet(f, r) + (IF e \in r THEN d ELSE 0)
    OBVIOUS
  <2>5. f[First(s)] \in Int /\ g[First(s)] = f[First(s)] + (IF e = First(s) THEN d ELSE 0)
    BY <2>1
  <2>6. e \in s <=> e \in r \/ e = First(s)
    BY <2>1
  <2>7. ~ (e \in r /\ e = First(s))
    OBVIOUS
  <2> HIDE DEF r
  <2> QED BY <2>2, <2>3, <2>4, <2>5, <2>6, <2>7
<1>3. \A s \in SUBSET S : s \in Q
  <2> HIDE DEF Q
  <2> QED BY <1>1, <1>2, FoldInduction
<1> QED BY <1>3

(* No term outgrows a sum of naturals.                                     *)
LEMMA SumCovers ==
  ASSUME NEW S, IsFiniteSet(S), NEW f, NEW e \in S, \A i \in S : f[i] \in Nat
  PROVE  f[e] <= SumFunctionOnSet(f, S)
<1> DEFINE P(s) == /\ SumFunctionOnSet(f, s) \in Nat
                   /\ e \in s => f[e] <= SumFunctionOnSet(f, s)
           Q == {s \in SUBSET S : P(s)}
<1>1. {} \in Q
  <2>1. SumFunctionOnSet(f, {}) = 0
    BY SumStep, FS_EmptySet
  <2> QED BY <2>1
<1>2. \A s \in SUBSET S : s # {} /\ s \ {First(s)} \in Q => s \in Q
  <2> SUFFICES ASSUME NEW s \in SUBSET S, s # {}, s \ {First(s)} \in Q
               PROVE  P(s)
    OBVIOUS
  <2>1. IsFiniteSet(s) /\ First(s) \in s /\ f[First(s)] \in Nat /\ f[e] \in Nat
    BY FS_Subset DEF First
  <2>2. SumFunctionOnSet(f, s) = f[First(s)] + SumFunctionOnSet(f, s \ {First(s)})
    BY <2>1, SumStep
  <2>3. SumFunctionOnSet(f, s \ {First(s)}) \in Nat
    OBVIOUS
  <2>4. CASE e = First(s)
    BY <2>1, <2>2, <2>3, <2>4
  <2>5. CASE e # First(s)
    BY <2>1, <2>2, <2>3, <2>5
  <2> QED BY <2>4, <2>5
<1>3. \A s \in SUBSET S : s \in Q
  <2> HIDE DEF Q
  <2> QED BY <1>1, <1>2, FoldInduction
<1> QED BY <1>3

----------------------------------------------------------------------------
(* The places of a subset of a sequence, by their rank.                    *)
LEMMA BelowNext ==
  ASSUME NEW S, S \subseteq Nat, IsFiniteSet(S), NEW m \in Nat
  PROVE  /\ IsFiniteSet(Below(S, m)) /\ Cardinality(Below(S, m)) \in Nat
         /\ Cardinality(Below(S, m + 1)) = Cardinality(Below(S, m)) + (IF m \in S THEN 1 ELSE 0)
<1>1. IsFiniteSet(Below(S, m)) /\ Cardinality(Below(S, m)) \in Nat
  <2>1. Below(S, m) \subseteq S
    BY DEF Below
  <2> QED BY <2>1, FS_Subset, FS_CardinalityType
<1>0. \A j \in S : (j < m + 1) <=> (j < m \/ j = m)
  <2> TAKE j \in S
  <2>1. j \in Nat
    OBVIOUS
  <2> QED BY <2>1
<1>2. CASE m \in S
  <2>1. Below(S, m + 1) = Below(S, m) \cup {m}
    BY <1>0, <1>2, Zenon DEF Below
  <2>2. m \notin Below(S, m)
    BY DEF Below
  <2> QED BY <1>1, <1>2, <2>1, <2>2, FS_AddElement
<1>3. CASE m \notin S
  <2>1. Below(S, m + 1) = Below(S, m)
    BY <1>0, <1>3, Zenon DEF Below
  <2> QED BY <1>1, <1>3, <2>1
<1> QED BY <1>1, <1>2, <1>3

(* The element of rank k exists and has k - 1 below it.                    *)
LEMMA NthIn ==
  ASSUME NEW n \in Nat, NEW S \in SUBSET (1..n), NEW k \in 1..Cardinality(S)
  PROVE  Nth(S, k) \in S /\ Cardinality(Below(S, Nth(S, k))) = k - 1
<1>1. IsFiniteSet(S) /\ S \subseteq Nat /\ Cardinality(S) \in Nat /\ k \in Nat /\ k >= 1
  <2>1. IsFiniteSet(1..n)
    BY FS_Interval
  <2>2. IsFiniteSet(S)
    BY <2>1, FS_Subset
  <2> QED BY <2>2, FS_CardinalityType
<1> DEFINE T == {i \in Nat : Cardinality(Below(S, i)) >= k}
<1>2. n + 1 \in T
  <2>1. \A j \in S : j < n + 1
    OBVIOUS
  <2>2. Below(S, n + 1) = S
    BY <2>1, Zenon DEF Below
  <2> QED BY <1>1, <2>2
<1>3. PICK m \in T : \A i \in T : m <= i
  <2>1. T \subseteq Nat /\ T # {}
    BY <1>2
  <2> HIDE DEF T
  <2> QED BY <2>1, LeastNumber
<1>4. m # 0
  <2>0. \A j \in S : ~ (j < 0)
    OBVIOUS
  <2>1. Below(S, 0) = {}
    BY <2>0, Zenon DEF Below
  <2>2. Cardinality(Below(S, 0)) = 0
    BY <2>1, FS_EmptySet
  <2>3. 0 \notin T
    BY <1>1, <2>2
  <2> QED BY <1>3, <2>3
<1>5. m - 1 \in Nat /\ (m - 1) + 1 = m /\ ~ (m <= m - 1)
  BY <1>3, <1>4
<1>6. m - 1 \notin T
  <2> HIDE DEF T
  <2> QED BY <1>3, <1>5
<1>7. /\ Cardinality(Below(S, m - 1)) \in Nat
      /\ Cardinality(Below(S, m)) = Cardinality(Below(S, m - 1)) + (IF m - 1 \in S THEN 1 ELSE 0)
  <2> DEFINE p == m - 1
  <2>1. p \in Nat /\ p + 1 = m
    BY <1>5
  <2>2. /\ Cardinality(Below(S, p)) \in Nat
        /\ Cardinality(Below(S, p + 1)) = Cardinality(Below(S, p)) + (IF p \in S THEN 1 ELSE 0)
    <3> HIDE DEF p
    <3> QED BY <1>1, <2>1, BelowNext
  <2> QED BY <2>1, <2>2
<1>8. m - 1 \in S /\ Cardinality(Below(S, m - 1)) = k - 1
  BY <1>1, <1>3, <1>5, <1>6, <1>7
<1> QED BY <1>8 DEF Nth

(* A place further on has a greater rank.                                  *)
LEMMA BelowGrows ==
  ASSUME NEW n \in Nat, NEW S \in SUBSET (1..n), NEW i \in S, NEW j \in S
  PROVE  /\ Cardinality(Below(S, i)) \in Nat /\ Cardinality(Below(S, i)) < Cardinality(S)
         /\ i <= j => Cardinality(Below(S, i)) <= Cardinality(Below(S, j))
         /\ i < j => Cardinality(Below(S, i)) < Cardinality(Below(S, j))
<1>1. IsFiniteSet(S) /\ IsFiniteSet(Below(S, i)) /\ IsFiniteSet(Below(S, j))
  <2>1. IsFiniteSet(1..n)
    BY FS_Interval
  <2>2. IsFiniteSet(S)
    BY <2>1, FS_Subset
  <2>3. Below(S, i) \subseteq S /\ Below(S, j) \subseteq S
    BY DEF Below
  <2> QED BY <2>2, <2>3, FS_Subset
<1>2. /\ Cardinality(Below(S, i)) \in Nat /\ Cardinality(Below(S, j)) \in Nat
      /\ Cardinality(S) \in Nat
  BY <1>1, FS_CardinalityType
<1>3. i \notin Below(S, i)
  BY DEF Below
<1>4. Cardinality(Below(S, i) \cup {i}) = Cardinality(Below(S, i)) + 1
  BY <1>1, <1>3, FS_AddElement
<1>5. Below(S, i) \cup {i} \subseteq S
  BY DEF Below
<1>6. Cardinality(Below(S, i) \cup {i}) <= Cardinality(S)
  BY <1>1, <1>5, FS_Subset
<1>7. ASSUME i <= j PROVE Cardinality(Below(S, i)) <= Cardinality(Below(S, j))
  <2>0. \A x \in S : x < i => x < j
    BY <1>7
  <2>1. Below(S, i) \subseteq Below(S, j)
    BY <2>0, Zenon DEF Below
  <2> QED BY <1>1, <2>1, FS_Subset
<1>8. ASSUME i < j PROVE Cardinality(Below(S, i)) < Cardinality(Below(S, j))
  <2>0. \A x \in S : x < i => x < j
    BY <1>8
  <2>1. Below(S, i) \cup {i} \subseteq Below(S, j)
    BY <1>8, <2>0, Zenon DEF Below
  <2>2. Cardinality(Below(S, i) \cup {i}) <= Cardinality(Below(S, j))
    BY <1>1, <2>1, FS_Subset
  <2> QED BY <1>2, <1>4, <2>2
<1> QED BY <1>2, <1>4, <1>6, <1>7, <1>8

(* The ranks of a set number its places in their order, and all of them.   *)
LEMMA NthOrdered ==
  ASSUME NEW n \in Nat, NEW S \in SUBSET (1..n),
         NEW k \in 1..Cardinality(S), NEW l \in 1..Cardinality(S), k < l
  PROVE  Nth(S, k) < Nth(S, l)
<1>1. Nth(S, k) \in S /\ Cardinality(Below(S, Nth(S, k))) = k - 1
  BY NthIn
<1>2. Nth(S, l) \in S /\ Cardinality(Below(S, Nth(S, l))) = l - 1
  BY NthIn
<1>3. Nth(S, k) \in Int /\ Nth(S, l) \in Int /\ k \in Int /\ l \in Int
  <2>1. \A x \in S : x \in Int
    OBVIOUS
  <2>2. k \in Int /\ l \in Int
    OBVIOUS
  <2>3. Nth(S, k) \in S /\ Nth(S, l) \in S
    BY <1>1, <1>2
  <2> QED BY <2>1, <2>2, <2>3
<1>4. Nth(S, l) <= Nth(S, k) => l - 1 <= k - 1
  BY <1>1, <1>2, BelowGrows
<1> QED BY <1>3, <1>4

(* Every element has a rank.                                               *)
LEMMA NthReaches ==
  ASSUME NEW n \in Nat, NEW S \in SUBSET (1..n), NEW i \in S
  PROVE  \E k \in 1..Cardinality(S) : Nth(S, k) = i
<1> DEFINE k == Cardinality(Below(S, i)) + 1
<1>1. k \in 1..Cardinality(S)
  <2>1. IsFiniteSet(1..n)
    BY FS_Interval
  <2>2. Cardinality(S) \in Nat
    BY <2>1, FS_Subset, FS_CardinalityType
  <2>3. Cardinality(Below(S, i)) \in Nat /\ Cardinality(Below(S, i)) < Cardinality(S)
    BY BelowGrows
  <2> QED BY <2>2, <2>3
<1>2. Cardinality(Below(S, i)) \in Nat
  BY BelowGrows
<1>3. Nth(S, k) \in S /\ Cardinality(Below(S, Nth(S, k))) = k - 1
  <2> HIDE DEF k
  <2> QED BY <1>1, NthIn
<1>4. Cardinality(Below(S, Nth(S, k))) = Cardinality(Below(S, i))
  BY <1>2, <1>3
<1>5. Nth(S, k) = i
  <2>1. ~ (i < Nth(S, k)) /\ ~ (Nth(S, k) < i)
    <3> HIDE DEF k
    <3>1. i < Nth(S, k) => Cardinality(Below(S, i)) < Cardinality(Below(S, Nth(S, k)))
      BY <1>3, BelowGrows
    <3>2. Nth(S, k) < i => Cardinality(Below(S, Nth(S, k))) < Cardinality(Below(S, i))
      BY <1>3, BelowGrows
    <3> QED BY <1>2, <1>4, <3>1, <3>2
  <2>2. \A x \in S : x \in Int
    OBVIOUS
  <2>3. Nth(S, k) \in Int /\ i \in Int
    BY <1>3, <2>2
  <2> QED BY <2>1, <2>3
<1> QED BY <1>1, <1>5

(* What Pick takes from a sequence.                                        *)
LEMMA PickSeq ==
  ASSUME NEW X, NEW s \in Seq(X), NEW S \in SUBSET DOMAIN s
  PROVE  /\ Cardinality(S) \in Nat /\ Cardinality(S) <= Len(s)
         /\ Pick(s, S) \in Seq(X) /\ Len(Pick(s, S)) = Cardinality(S)
         /\ DOMAIN Pick(s, S) = 1..Cardinality(S)
         /\ \A k \in 1..Cardinality(S) : Pick(s, S)[k] = s[Nth(S, k)] /\ Nth(S, k) \in S
<1>1. DOMAIN s = 1..Len(s) /\ Len(s) \in Nat
  OBVIOUS
<1>2. IsFiniteSet(1..Len(s)) /\ Cardinality(1..Len(s)) = Len(s)
  <2>1. 1 \in Int /\ Len(s) \in Int /\ Len(s) >= 0
    BY <1>1
  <2>2. Cardinality(1..Len(s)) = IF 1 > Len(s) THEN 0 ELSE Len(s) - 1 + 1
    BY <2>1, FS_Interval
  <2> QED BY <2>1, <2>2, FS_Interval
<1>3. Cardinality(S) \in Nat /\ Cardinality(S) <= Len(s)
  BY <1>1, <1>2, FS_Subset, FS_CardinalityType
<1>4. \A k \in 1..Cardinality(S) : Nth(S, k) \in S
  BY <1>1, NthIn
<1>5. Pick(s, S) \in [1..Cardinality(S) -> X]
  BY <1>1, <1>4 DEF Pick
<1> QED BY <1>3, <1>4, <1>5 DEF Pick

----------------------------------------------------------------------------
(* Rounding: within half a unit of the quotient.                           *)
LEMMA HalfEvenNear ==
  ASSUME NEW n \in Nat, NEW d \in Nat, d > 0
  PROVE  /\ HalfEven(n, d) \in Nat
         /\ 2 * d * HalfEven(n, d) <= 2 * n + d
         /\ 2 * n <= 2 * d * HalfEven(n, d) + d
<1> DEFINE q == n \div d
           m == n % d
<1>1. q \in Nat /\ m \in 0..(d - 1) /\ n = d * q + m
  OBVIOUS
<1>2. HalfEven(n, d) = IF 2 * m > d \/ (2 * m = d /\ q % 2 = 1) THEN q + 1 ELSE q
  BY DEF HalfEven
<1> HIDE DEF q, m
<1>3. d * q \in Nat /\ 2 * d * q = 2 * (d * q) /\ 2 * d * (q + 1) = 2 * (d * q) + 2 * d
  BY <1>1
<1>4. CASE HalfEven(n, d) = q
  <2>1. 2 * m <= d
    BY <1>1, <1>2, <1>4
  <2> QED BY <1>1, <1>3, <1>4, <2>1
<1>5. CASE HalfEven(n, d) = q + 1
  <2>1. 2 * m >= d
    BY <1>1, <1>2, <1>5
  <2> QED BY <1>1, <1>3, <1>5, <2>1
<1> QED BY <1>2, <1>4, <1>5

(* Rounded half up, likewise.                                              *)
LEMMA HalfUpNear ==
  ASSUME NEW n \in Int, NEW d \in Nat, d > 0
  PROVE  /\ HalfUp(n, d) \in Int
         /\ 2 * d * HalfUp(n, d) <= 2 * n + d
         /\ 2 * n < 2 * d * HalfUp(n, d) + d
<1> DEFINE N == 2 * n + d
           D == 2 * d
           q == N \div D
           m == N % D
<1>0. N \in Int /\ D \in Nat /\ D > 0 /\ D = 2 * d /\ N = 2 * n + d
  OBVIOUS
<1>1. q \in Int /\ m \in 0..(D - 1) /\ N = D * q + m
  <2> HIDE DEF N, D
  <2> QED BY <1>0
<1>2. HalfUp(n, d) = q
  BY DEF HalfUp
<1> HIDE DEF q, m, N, D
<1>3. D * q \in Int /\ 2 * d * q = D * q
  BY <1>0, <1>1
<1> QED BY <1>0, <1>1, <1>2, <1>3

----------------------------------------------------------------------------
(* Trimming keeps places in their order, and none it drops outweighs one   *)
(* it keeps (generator.py, _trim_overlong_rubric).                         *)
LEMMA CriterionTyped ==
  ASSUME NEW c \in Seq(Criterion)
  PROVE  /\ Len(c) \in Nat /\ DOMAIN c = 1..Len(c) /\ IsFiniteSet(DOMAIN c)
         /\ Cardinality(DOMAIN c) = Len(c)
         /\ \A j \in DOMAIN c : j \in Nat /\ c[j] \in Criterion /\ c[j].weight \in Int
<1>1. Len(c) \in Nat /\ DOMAIN c = 1..Len(c)
  OBVIOUS
<1>2. IsFiniteSet(1..Len(c)) /\ Cardinality(1..Len(c)) = Len(c)
  <2>1. 1 \in Int /\ Len(c) \in Int /\ Len(c) >= 0
    BY <1>1
  <2>2. Cardinality(1..Len(c)) = IF 1 > Len(c) THEN 0 ELSE Len(c) - 1 + 1
    BY <2>1, FS_Interval
  <2> QED BY <2>1, <2>2, FS_Interval
<1>3. \A j \in DOMAIN c : c[j] \in Criterion
  OBVIOUS
<1>4. \A j \in DOMAIN c : c[j].weight \in Int
  BY <1>3 DEF Criterion
<1> QED BY <1>1, <1>2, <1>3, <1>4

(* Of two criteria the one that weighs more has fewer before it.           *)
LEMMA HeavierRanks ==
  ASSUME NEW c \in Seq(Criterion), NEW i \in DOMAIN c, NEW k \in DOMAIN c,
         c[i].weight > c[k].weight
  PROVE  /\ Cardinality({j \in DOMAIN c : Heavier(c, j, i)}) \in Nat
         /\ Cardinality({j \in DOMAIN c : Heavier(c, j, k)}) \in Nat
         /\ Cardinality({j \in DOMAIN c : Heavier(c, j, i)})
              < Cardinality({j \in DOMAIN c : Heavier(c, j, k)})
<1> DEFINE I == {j \in DOMAIN c : Heavier(c, j, i)}
           K == {j \in DOMAIN c : Heavier(c, j, k)}
<1>1. IsFiniteSet(DOMAIN c)
  BY CriterionTyped
<1>2. IsFiniteSet(I) /\ IsFiniteSet(K)
  <2>1. I \subseteq DOMAIN c /\ K \subseteq DOMAIN c
    OBVIOUS
  <2> QED BY <1>1, <2>1, FS_Subset
<1>3. \A j \in DOMAIN c : c[j].weight \in Int /\ j \in Int
  BY CriterionTyped
<1>4. i \notin I
  BY <1>3 DEF Heavier
<1>5. I \cup {i} \subseteq K
  <2>1. \A j \in DOMAIN c : Heavier(c, j, i) => Heavier(c, j, k)
    BY <1>3 DEF Heavier
  <2>2. Heavier(c, i, k)
    BY DEF Heavier
  <2> QED BY <2>1, <2>2
<1>6. Cardinality(I \cup {i}) = Cardinality(I) + 1
  <2> HIDE DEF I
  <2> QED BY <1>2, <1>4, FS_AddElement
<1>7. Cardinality(I \cup {i}) <= Cardinality(K)
  <2> HIDE DEF I, K
  <2> QED BY <1>2, <1>5, FS_Subset
<1>8. Cardinality(I) \in Nat /\ Cardinality(K) \in Nat
  <2> HIDE DEF I, K
  <2> QED BY <1>2, FS_CardinalityType
<1> HIDE DEF I, K
<1>9. Cardinality(I) < Cardinality(K)
  BY <1>6, <1>7, <1>8
<1> QED BY <1>8, <1>9 DEF I, K

Places(c, kept, place) ==
  /\ place \in [DOMAIN kept -> DOMAIN c]
  /\ \A k \in DOMAIN kept : kept[k] = c[place[k]]
  /\ \A k, l \in DOMAIN kept : k < l => place[k] < place[l]
  /\ \A i \in DOMAIN c \ {place[k] : k \in DOMAIN kept}, k \in DOMAIN kept :
       c[i].weight <= c[place[k]].weight

(* What trimming keeps has places in the reply, in its order, and what it  *)
(* drops weighs no more (generator.py, _trim_overlong_rubric).             *)
LEMMA TrimmedPlaces ==
  ASSUME NEW c \in Seq(Criterion)
  PROVE  Trimmed(c) \in Seq(Criterion) /\ \E place : Places(c, Trimmed(c), place)
<1>1. CASE Len(c) <= MAX_CRITERIA
  <2>1. Trimmed(c) = c
    BY <1>1 DEF Trimmed
  <2> DEFINE place == [k \in DOMAIN c |-> k]
  <2>2. Places(c, c, place)
    <3>1. \A i \in DOMAIN c : i \in {place[k] : k \in DOMAIN c}
      OBVIOUS
    <3> QED BY <3>1 DEF Places
  <2> HIDE DEF place
  <2> QED BY <2>1, <2>2
<1>2. CASE ~ (Len(c) <= MAX_CRITERIA)
  <2> DEFINE rank(i) == Cardinality({j \in DOMAIN c : Heavier(c, j, i)})
             ranked == {i \in DOMAIN c : rank(i) < MAX_CRITERIA}
             kept == {i \in DOMAIN c : \E k \in ranked : c[k] = c[i]}
             place == [k \in 1..Cardinality(kept) |-> Nth(kept, k)]
  <2>1. Trimmed(c) = Pick(c, kept)
    BY <1>2 DEF Trimmed
  <2>2. \A i \in DOMAIN c \ kept, k \in kept : c[i].weight <= c[k].weight
    <3> SUFFICES ASSUME NEW i \in DOMAIN c \ kept, NEW k \in kept, c[i].weight > c[k].weight
                 PROVE  FALSE
      <4>1. \A j \in DOMAIN c : c[j].weight \in Int
        BY CriterionTyped
      <4>2. \A j \in kept : j \in DOMAIN c
        OBVIOUS
      <4> HIDE DEF kept
      <4> QED BY <4>1, <4>2
    <3>1. PICK l \in ranked : c[l] = c[k]
      OBVIOUS
    <3>2. rank(i) < rank(l) /\ rank(i) \in Nat /\ rank(l) \in Nat
      BY <3>1, HeavierRanks
    <3>3. i \notin ranked
      OBVIOUS
    <3>4. ~ (rank(i) < MAX_CRITERIA) /\ rank(l) < MAX_CRITERIA
      BY <3>1, <3>3
    <3>5. MAX_CRITERIA \in Int
      BY ScoringAssumption
    <3> HIDE DEF rank, ranked, kept
    <3> QED BY <3>2, <3>4, <3>5
  <2>3. kept \in SUBSET DOMAIN c /\ kept \in SUBSET (1..Len(c)) /\ Len(c) \in Nat
    OBVIOUS
  <2> HIDE DEF kept
  <2>4. /\ Pick(c, kept) \in Seq(Criterion) /\ DOMAIN Pick(c, kept) = 1..Cardinality(kept)
        /\ \A k \in 1..Cardinality(kept) : Pick(c, kept)[k] = c[Nth(kept, k)] /\ Nth(kept, k) \in kept
    BY <2>3, PickSeq
  <2>5. \A k, l \in 1..Cardinality(kept) : k < l => Nth(kept, k) < Nth(kept, l)
    BY <2>3, NthOrdered
  <2>6. \A i \in kept : \E k \in 1..Cardinality(kept) : Nth(kept, k) = i
    BY <2>3, NthReaches
  <2>7. Places(c, Pick(c, kept), place)
    <3>1. /\ place \in [1..Cardinality(kept) -> DOMAIN c]
          /\ \A k \in 1..Cardinality(kept) : place[k] = Nth(kept, k)
      BY <2>3, <2>4
    <3>2. \A i \in DOMAIN c \ {place[k] : k \in 1..Cardinality(kept)} : i \in DOMAIN c \ kept
      BY <2>6, <3>1
    <3> DEFINE p == Pick(c, kept)
    <3> HIDE DEF place, p
    <3>3. DOMAIN p = 1..Cardinality(kept)
      BY <2>4 DEF p
    <3>4. \A k \in DOMAIN p : p[k] = c[place[k]] /\ place[k] \in kept
      BY <2>4, <3>1, <3>3 DEF p
    <3>5. \A k, l \in DOMAIN p : k < l => place[k] < place[l]
      BY <2>5, <3>1, <3>3
    <3>6. \A i \in DOMAIN c \ {place[k] : k \in DOMAIN p}, k \in DOMAIN p :
            c[i].weight <= c[place[k]].weight
      BY <2>2, <3>2, <3>3, <3>4
    <3>7. Places(c, p, place)
      BY <3>1, <3>3, <3>4, <3>5, <3>6 DEF Places
    <3> QED BY <3>7 DEF p
  <2> HIDE DEF place
  <2> QED BY <2>1, <2>4, <2>7
<1> QED BY <1>1, <1>2

(* The total of a rubric is the sum over its criteria.                     *)
LEMMA TotalTyped ==
  ASSUME NEW c \in Seq(Criterion)
  PROVE  /\ Total(c) = SumFunctionOnSet(WeightsOf(c), DOMAIN c)
         /\ DOMAIN WeightsOf(c) = DOMAIN c
         /\ \A i \in DOMAIN c : WeightsOf(c)[i] = c[i].weight
         /\ Total(c) \in Int
<1>1. DOMAIN WeightsOf(c) = DOMAIN c /\ \A i \in DOMAIN c : WeightsOf(c)[i] = c[i].weight
  BY DEF WeightsOf
<1>2. Total(c) = SumFunctionOnSet(WeightsOf(c), DOMAIN c)
  BY <1>1 DEF Total, SumFunction
<1>3. Total(c) \in Int
  BY <1>1, <1>2, CriterionTyped, SumInt
<1> QED BY <1>1, <1>2, <1>3

(* There is one heaviest criterion, the first of those that weigh most.    *)
LEMMA HeaviestExists ==
  ASSUME NEW c \in Seq(Criterion), Len(c) >= 1,
         \A j \in DOMAIN c : c[j].weight \in Nat
  PROVE  \E i \in DOMAIN c : \A j \in DOMAIN c \ {i} : Heavier(c, i, j)
<1> DEFINE B == Total(c)
<1>0. B \in Nat /\ \A j \in DOMAIN c : c[j].weight \in 0..B
  <2>1. \A j \in DOMAIN c : c[j].weight \in Nat /\ c[j].weight <= Total(c)
    <3> TAKE j \in DOMAIN c
    <3>1. Total(c) = SumFunctionOnSet(WeightsOf(c), DOMAIN c)
          /\ \A i \in DOMAIN c : WeightsOf(c)[i] = c[i].weight /\ WeightsOf(c)[i] \in Nat
      BY TotalTyped
    <3>2. WeightsOf(c)[j] <= Total(c)
      BY <3>1, CriterionTyped, SumCovers
    <3> QED BY <3>1, <3>2
  <2>2. 1 \in DOMAIN c /\ Total(c) \in Int
    BY CriterionTyped, TotalTyped
  <2> QED BY <2>1, <2>2
<1> HIDE DEF B
<1> DEFINE T == {n \in Nat : \E i \in DOMAIN c : c[i].weight = B - n}
<1>1. 1 \in DOMAIN c /\ \A j \in DOMAIN c : j \in Nat
  BY CriterionTyped
<1>2. PICK n \in T : \A m \in T : n <= m
  <2>1. T \subseteq Nat
    OBVIOUS
  <2>2. B - c[1].weight \in Nat /\ c[1].weight = B - (B - c[1].weight)
    BY <1>0, <1>1
  <2>3. T # {}
    BY <1>1, <2>2
  <2> HIDE DEF T
  <2> QED BY <2>1, <2>3, LeastNumber
<1> DEFINE M == {i \in DOMAIN c : c[i].weight = B - n}
<1>3. PICK i \in M : \A j \in M : i <= j
  <2>1. M \subseteq Nat /\ M # {}
    BY <1>1, <1>2
  <2> HIDE DEF M
  <2> QED BY <2>1, LeastNumber
<1>4. \A j \in DOMAIN c : c[j].weight <= c[i].weight
  <2> TAKE j \in DOMAIN c
  <2>1. B - c[j].weight \in Nat /\ c[j].weight = B - (B - c[j].weight)
    BY <1>0
  <2>2. B - c[j].weight \in T
    BY <2>1
  <2>3. n <= B - c[j].weight
    <3> HIDE DEF T
    <3> QED BY <1>2, <2>2
  <2>4. c[i].weight = B - n /\ n \in Nat
    BY <1>2, <1>3
  <2>5. c[j].weight \in Int
    BY CriterionTyped
  <2> HIDE DEF M, T
  <2> QED BY <1>0, <2>3, <2>4, <2>5
<1>5. \A j \in DOMAIN c \ {i} : Heavier(c, i, j)
  <2> TAKE j \in DOMAIN c \ {i}
  <2>1. c[j].weight \in Int /\ c[i].weight \in Int /\ i \in Nat /\ j \in Nat
    BY CriterionTyped
  <2>2. CASE c[j].weight = c[i].weight
    <3>1. j \in M
      BY <1>3, <2>2
    <3>2. i <= j
      <4> HIDE DEF M
      <4> QED BY <1>3, <3>1
    <3> QED BY <2>1, <2>2, <3>2 DEF Heavier
  <2>3. CASE c[j].weight # c[i].weight
    <3> HIDE DEF M
    <3> QED BY <1>4, <2>1, <2>3 DEF Heavier
  <2> QED BY <2>2, <2>3
<1> QED BY <1>3, <1>5

(* A positive factor cancels.                                              *)
LEMMA Cancel ==
  ASSUME NEW t \in Nat, t > 0, NEW x \in Int, NEW y \in Int, t * x <= t * y
  PROVE  x <= y
<1>1. SUFFICES ASSUME x >= y + 1 PROVE FALSE
  OBVIOUS
<1>2. t * (x - y) = t * x - t * y /\ t * x \in Int /\ t * y \in Int
  OBVIOUS
<1>3. t * (x - y) <= 0
  BY <1>2
<1>4. x - y \in Int /\ x - y >= 1
  BY <1>1
<1> DEFINE z == x - y
<1>5. z \in Int /\ z >= 1 /\ t * z <= 0
  BY <1>3, <1>4
<1> HIDE DEF z
<1>6. t * z >= t
  BY <1>5
<1> QED BY <1>5, <1>6

Raw(c) ==
  /\ c \in Seq(Criterion)
  /\ Len(c) \in 1..100
  /\ \A i \in DOMAIN c : c[i].weight \in Nat
  /\ Total(c) \in Nat /\ Total(c) > 0

Near(t, w, v) == v \in Nat /\ (2 * t) * v <= 20000 * w + t /\ 20000 * w <= (2 * t) * v + t

(* Each weight is within half a ten-thousandth of its share.               *)
LEMMA RescaledNear ==
  ASSUME NEW c, Raw(c)
  PROVE  /\ RescaledOnly(c) \in Seq(Criterion) /\ DOMAIN RescaledOnly(c) = DOMAIN c
         /\ Len(RescaledOnly(c)) = Len(c)
         /\ \A i \in DOMAIN c :
              /\ RescaledOnly(c)[i].name = c[i].name
              /\ Near(Total(c), c[i].weight, RescaledOnly(c)[i].weight)
<1> DEFINE t == Total(c)
           v(i) == HalfEven(c[i].weight * WEIGHT_SCALE, t)
<1>0. c \in Seq(Criterion) /\ t \in Nat /\ t > 0
  BY DEF Raw
<1> HIDE DEF t
<1>1. \A i \in DOMAIN c : v(i) \in Nat /\ Near(t, c[i].weight, v(i))
  <2> TAKE i \in DOMAIN c
  <2> DEFINE n == c[i].weight * WEIGHT_SCALE
  <2>0. c[i].weight \in Nat
    BY DEF Raw
  <2>1. n \in Nat /\ 2 * n = 20000 * c[i].weight
    BY <2>0 DEF WEIGHT_SCALE
  <2>2. /\ HalfEven(n, t) \in Nat /\ 2 * t * HalfEven(n, t) <= 2 * n + t
        /\ 2 * n <= 2 * t * HalfEven(n, t) + t
    <3>1. n \in Nat /\ t \in Nat /\ t > 0
      BY <1>0, <2>1
    <3> HIDE DEF n
    <3> QED BY <3>1, HalfEvenNear
  <2> QED BY <2>1, <2>2 DEF Near
<1>2. RescaledOnly(c) = [i \in DOMAIN c |-> [c[i] EXCEPT !.weight = v(i)]]
  BY DEF RescaledOnly, t
<1> HIDE DEF v
<1>3. \A i \in DOMAIN c : LET y == [c[i] EXCEPT !.weight = v(i)] IN
        y \in Criterion /\ y.name = c[i].name /\ y.weight = v(i)
  <2> TAKE i \in DOMAIN c
  <2>1. c[i] \in Criterion /\ v(i) \in Int
    BY <1>0, <1>1, CriterionTyped
  <2> QED BY <2>1 DEF Criterion
<1>4. RescaledOnly(c) \in [1..Len(c) -> Criterion] /\ Len(c) \in Nat
  <2>1. DOMAIN c = 1..Len(c) /\ Len(c) \in Nat
    BY <1>0, CriterionTyped
  <2>2. \A i \in DOMAIN c : [c[i] EXCEPT !.weight = v(i)] \in Criterion
    BY <1>3
  <2> QED BY <1>2, <2>1, <2>2
<1>5. /\ RescaledOnly(c) \in Seq(Criterion)
      /\ Len(RescaledOnly(c)) = Len(c) /\ DOMAIN RescaledOnly(c) = DOMAIN c
  BY <1>0, <1>4
<1>6. \A i \in DOMAIN c : RescaledOnly(c)[i].weight = v(i) /\ RescaledOnly(c)[i].name = c[i].name
  BY <1>2, <1>3
<1> QED BY <1>1, <1>5, <1>6 DEF t

(* What is left over is at most half a ten-thousandth a criterion.         *)
LEMMA LeftOver ==
  ASSUME NEW c, Raw(c)
  PROVE  LET rest == WEIGHT_SCALE - Total(RescaledOnly(c)) IN
         rest \in Int /\ 2 * rest <= Len(c) /\ -2 * rest <= Len(c)
<1> DEFINE s == RescaledOnly(c)
           t == Total(c)
           f == WeightsOf(s)
           g == WeightsOf(c)
           n == Len(c)
           x == Total(s)
<1>1. c \in Seq(Criterion) /\ s \in Seq(Criterion) /\ DOMAIN s = DOMAIN c
  BY RescaledNear DEF Raw
<1>2. t \in Nat /\ t > 0
  BY DEF Raw
<1>3. IsFiniteSet(DOMAIN c) /\ Cardinality(DOMAIN c) = n /\ n \in Nat
  BY <1>1, CriterionTyped
<1>4. /\ t = SumFunctionOnSet(g, DOMAIN c) /\ x = SumFunctionOnSet(f, DOMAIN c) /\ x \in Int
      /\ \A i \in DOMAIN c : f[i] = s[i].weight /\ g[i] = c[i].weight
  BY <1>1, TotalTyped
<1>5. \A i \in DOMAIN c : f[i] \in Int /\ g[i] \in Int /\ Near(t, g[i], f[i])
  <2> TAKE i \in DOMAIN c
  <2>1. Near(t, c[i].weight, s[i].weight)
    BY RescaledNear
  <2>2. c[i].weight \in Int /\ s[i].weight \in Int
    BY <1>1, CriterionTyped
  <2>3. f[i] = s[i].weight /\ g[i] = c[i].weight
    BY <1>4
  <2> HIDE DEF s, t, f, g
  <2> QED BY <2>1, <2>2, <2>3
<1> HIDE DEF s, t, f, g, n, x
<1> DEFINE a == 2 * t
           b == 20000
<1>6. a \in Int /\ b \in Int /\ t \in Int
  BY <1>2
<1>a. \A i \in DOMAIN c : /\ f[i] \in Int /\ g[i] \in Int
                          /\ a * f[i] <= b * g[i] + t /\ b * g[i] <= a * f[i] + t
  BY <1>5 DEF Near
<1>7. (2 * t) * x <= 20000 * t + t * n
  <2>1. a * x <= b * t + t * n
    <3> HIDE DEF a, b
    <3> QED BY <1>3, <1>4, <1>a, <1>6, SumLinear
  <2> QED BY <2>1
<1>8. 20000 * t <= (2 * t) * x + t * n
  <2>1. b * t <= a * x + t * n
    <3> HIDE DEF a, b
    <3> QED BY <1>3, <1>4, <1>a, <1>6, SumLinear
  <2> QED BY <2>1
<1>9. 2 * x <= 20000 + n
  <2>1. t * (2 * x) = (2 * t) * x /\ t * (20000 + n) = 20000 * t + t * n
    BY <1>2, <1>3, <1>4
  <2>2. 2 * x \in Int /\ 20000 + n \in Int
    BY <1>3, <1>4
  <2> QED BY <1>2, <1>7, <2>1, <2>2, Cancel
<1>10. 20000 <= 2 * x + n
  <2>1. t * (2 * x + n) = (2 * t) * x + t * n /\ t * 20000 = 20000 * t
    BY <1>2, <1>3, <1>4
  <2>2. 2 * x + n \in Int
    BY <1>3, <1>4
  <2> QED BY <1>2, <1>8, <2>1, <2>2, Cancel
<1>11. WEIGHT_SCALE - x \in Int /\ 2 * (WEIGHT_SCALE - x) <= n /\ -2 * (WEIGHT_SCALE - x) <= n
  BY <1>3, <1>4, <1>9, <1>10 DEF WEIGHT_SCALE
<1> QED BY <1>11 DEF s, n, x

(* A stored weight v that is its share of the reply's, w of t, to within   *)
(* half as many ten-thousandths as it took roundings.                      *)
Share(t, w, v, roundings) ==
  LET off == v * t - w * WEIGHT_SCALE IN
  2 * off <= roundings * t /\ -2 * off <= roundings * t

(* `kept` weighs as the rubric c does, and what rounding left over went    *)
(* onto one of the heaviest.                                               *)
Follows(c, kept, topped) ==
  \A k \in DOMAIN c :
    /\ (c[k].weight - c[topped].weight) * WEIGHT_SCALE <= Total(c)
    /\ Share(Total(c), c[k].weight, kept[k].weight, IF k = topped THEN Len(kept) - 1 ELSE 1)

(* What is near its share is one rounding from it, and the heavier of two  *)
(* such weights is not much the lighter in the reply.                      *)
LEMMA NearShare ==
  ASSUME NEW t \in Nat, NEW w \in Nat, NEW v, Near(t, w, v)
  PROVE  /\ Share(t, w, v, 1)
         /\ \A u \in Nat, z \in Nat : Near(t, u, z) /\ v <= z => (w - u) * WEIGHT_SCALE <= t
<1>1. v \in Nat /\ (2 * t) * v <= 20000 * w + t /\ 20000 * w <= (2 * t) * v + t
  BY DEF Near
<1>2. (2 * t) * v = 2 * (v * t) /\ v * t \in Nat
  BY <1>1
<1>3. Share(t, w, v, 1)
  <2> DEFINE x == v * t
  <2>1. x \in Nat /\ 2 * x <= 20000 * w + t /\ 20000 * w <= 2 * x + t
    BY <1>1, <1>2
  <2>2. 1 * t = t
    OBVIOUS
  <2> HIDE DEF x
  <2>3. 2 * (x - w * 10000) <= t /\ -2 * (x - w * 10000) <= t
    BY <2>1
  <2> QED BY <2>2, <2>3 DEF Share, WEIGHT_SCALE, x
<1>4. ASSUME NEW u \in Nat, NEW z \in Nat, Near(t, u, z), v <= z
      PROVE  (w - u) * WEIGHT_SCALE <= t
  <2>1. (2 * t) * z <= 20000 * u + t
    BY <1>4 DEF Near
  <2>2. (2 * t) * z = 2 * (t * z) /\ t * z \in Nat /\ (2 * t) * v = 2 * (t * v) /\ t * v \in Nat
    BY <1>1
  <2>3. t * v <= t * z
    BY <1>1, <1>4
  <2>4. 20000 * w <= 20000 * u + 2 * t
    BY <1>1, <2>1, <2>2, <2>3
  <2> QED BY <2>4 DEF WEIGHT_SCALE
<1> QED BY <1>3, <1>4

(* The criterion topped up ends where the roundings of the others leave it. *)
LEMMA ToppedShare ==
  ASSUME NEW c, Raw(c), NEW h \in DOMAIN c
  PROVE  Share(Total(c), c[h].weight,
               RescaledOnly(c)[h].weight + (WEIGHT_SCALE - Total(RescaledOnly(c))), Len(c) - 1)
<1> DEFINE s == RescaledOnly(c)
           t == Total(c)
           f == WeightsOf(s)
           g == WeightsOf(c)
           n == Len(c)
           S == DOMAIN c
           R == S \ {h}
           x == SumFunctionOnSet(f, R)
           y == SumFunctionOnSet(g, R)
<1>1. c \in Seq(Criterion) /\ s \in Seq(Criterion) /\ DOMAIN s = S /\ t \in Nat /\ t > 0
  BY RescaledNear DEF Raw
<1>2. IsFiniteSet(S) /\ Cardinality(S) = n /\ n \in Nat
  BY <1>1, CriterionTyped
<1>3. IsFiniteSet(R) /\ Cardinality(R) = n - 1
  BY <1>2, FS_RemoveElement
<1>4. /\ t = SumFunctionOnSet(g, S) /\ Total(s) = SumFunctionOnSet(f, S)
      /\ \A i \in S : f[i] = s[i].weight /\ g[i] = c[i].weight
  BY <1>1, TotalTyped
<1>5. \A i \in S : f[i] \in Int /\ g[i] \in Int /\ Near(t, g[i], f[i])
  <2> TAKE i \in S
  <2>1. Near(t, c[i].weight, s[i].weight)
    BY RescaledNear
  <2>2. c[i].weight \in Int /\ s[i].weight \in Int
    BY <1>1, CriterionTyped
  <2>3. f[i] = s[i].weight /\ g[i] = c[i].weight
    BY <1>4
  <2> HIDE DEF s, t, f, g
  <2> QED BY <2>1, <2>2, <2>3
<1> HIDE DEF s, f, g, n
<1>6. t = g[h] + y /\ Total(s) = f[h] + x
  <2>1. S \in SUBSET S /\ h \in S
    OBVIOUS
  <2>2. \A i \in S : f[i] \in Int /\ g[i] \in Int
    BY <1>5
  <2> HIDE DEF S, t
  <2> QED BY <1>2, <1>4, <2>1, <2>2, SumRemove
<1>7. \A i \in R : f[i] \in Int /\ g[i] \in Int
  BY <1>5
<1>8. x \in Int /\ y \in Int /\ f[h] \in Int /\ g[h] \in Int
  <2> HIDE DEF R
  <2> QED BY <1>3, <1>5, <1>7, SumInt
<1> HIDE DEF t
<1> DEFINE a == 2 * t
           b == 20000
<1>9. a \in Int /\ b \in Int /\ t \in Int
  BY <1>1
<1>10. \A i \in R : /\ f[i] \in Int /\ g[i] \in Int
                    /\ a * f[i] <= b * g[i] + t /\ b * g[i] <= a * f[i] + t
  BY <1>5 DEF Near
<1>11. a * x <= b * y + t * (n - 1) /\ b * y <= a * x + t * (n - 1)
  <2>1. a * x <= b * y + t * Cardinality(R)
    <3> HIDE DEF a, b, R
    <3> QED BY <1>3, <1>9, <1>10, SumLinear
  <2>2. b * y <= a * x + t * Cardinality(R)
    <3> HIDE DEF a, b, R
    <3> QED BY <1>3, <1>9, <1>10, SumLinear
  <2> HIDE DEF a, b, R, x, y
  <2> QED BY <1>3, <2>1, <2>2
<1> HIDE DEF x, y
<1> DEFINE v == f[h] + (WEIGHT_SCALE - Total(s))
           w == g[h]
           r == n - 1
           tx == t * x
           rt == r * t
<1>12. v = 10000 - x /\ w = t - y
  BY <1>1, <1>6, <1>8 DEF WEIGHT_SCALE
<1>13. tx \in Int /\ rt \in Int /\ a * x = 2 * tx /\ t * (n - 1) = rt
  BY <1>1, <1>2, <1>8
<1>14. v * t = 10000 * t - tx
  BY <1>1, <1>8, <1>12
<1>15. 2 * tx <= 20000 * y + rt /\ 20000 * y <= 2 * tx + rt
  BY <1>11, <1>13
<1> DEFINE off == v * t - w * WEIGHT_SCALE
<1>16. off = 10000 * y - tx
  <2> HIDE DEF v, w, tx
  <2> QED BY <1>1, <1>8, <1>12, <1>13, <1>14 DEF WEIGHT_SCALE
<1>17. 2 * off <= rt /\ -2 * off <= rt
  <2> HIDE DEF off, tx, rt
  <2> QED BY <1>8, <1>13, <1>15, <1>16
<1>18. Share(t, w, v, r)
  <2> HIDE DEF v, w, r
  <2> QED BY <1>17 DEF Share
<1>19. w = c[h].weight /\ v = s[h].weight + (WEIGHT_SCALE - Total(s)) /\ r = Len(c) - 1
  BY <1>4 DEF n
<1> QED BY <1>18, <1>19 DEF t, s

(* The heaviest of a rescaled rubric outweighs what rounding left over.    *)
LEMMA HeaviestHolds ==
  ASSUME NEW c, Raw(c), NEW h \in DOMAIN c,
         \A j \in DOMAIN c : RescaledOnly(c)[j].weight <= RescaledOnly(c)[h].weight
  PROVE  RescaledOnly(c)[h].weight + (WEIGHT_SCALE - Total(RescaledOnly(c))) \in Nat
<1> DEFINE s == RescaledOnly(c)
           f == WeightsOf(s)
           one == [i \in DOMAIN c |-> 1]
           m == f[h]
           n == Len(c)
           x == Total(s)
           S == DOMAIN c
<1>1. s \in Seq(Criterion) /\ DOMAIN s = S /\ c \in Seq(Criterion) /\ n \in 1..100
  BY RescaledNear DEF Raw
<1>2. IsFiniteSet(S) /\ Cardinality(S) = n
  BY <1>1, CriterionTyped
<1>3. /\ x = SumFunctionOnSet(f, S) /\ x \in Int
      /\ \A i \in S : f[i] = s[i].weight /\ f[i] \in Int
  BY <1>1, TotalTyped, CriterionTyped
<1>4. 2 * (WEIGHT_SCALE - x) <= n /\ -2 * (WEIGHT_SCALE - x) <= n
  BY LeftOver
<1>5. \A i \in S : f[i] <= m /\ m \in Int
  BY <1>3
<1> HIDE DEF s, f, m, n, x
<1> DEFINE zero == 0
           unit == 1
<1>6. unit * x <= zero * x + m * n
  <2>1. \A i \in S : f[i] \in Int /\ f[i] \in Int /\ unit * f[i] <= zero * f[i] + m
    BY <1>3, <1>5
  <2>2. unit \in Int /\ zero \in Int /\ m \in Int
    BY <1>5
  <2> HIDE DEF unit, zero, S
  <2> QED BY <1>2, <1>3, <2>1, <2>2, SumLinear
<1>7. x <= m * n /\ m \in Int /\ n \in 1..100
  <2>1. m \in Int /\ n \in Int /\ n \in 1..100
    BY <1>1, <1>5 DEF n
  <2> DEFINE mn == m * n
  <2>2. mn \in Int /\ 1 * x <= 0 * x + mn
    BY <1>6, <2>1
  <2> HIDE DEF mn
  <2>3. x <= mn
    BY <1>3, <2>2
  <2> QED BY <2>1, <2>3 DEF mn
<1>8. m > 50
  <2> SUFFICES ASSUME m <= 50 PROVE FALSE
    BY <1>7
  <2>1. m * n <= 50 * n
    BY <1>7
  <2> QED BY <1>3, <1>4, <1>7, <2>1 DEF WEIGHT_SCALE
<1>9. WEIGHT_SCALE - x \in Int /\ WEIGHT_SCALE - x >= -50
  BY <1>3, <1>4, <1>7 DEF WEIGHT_SCALE
<1>10. m + (WEIGHT_SCALE - x) \in Nat
  <2> DEFINE d == WEIGHT_SCALE - x
  <2>1. d \in Int /\ d >= -50
    BY <1>9
  <2> HIDE DEF d
  <2> QED BY <1>7, <1>8, <2>1 DEF d
<1> QED BY <1>3, <1>10 DEF m, x, s

(* Normalising a rubric: the same names in the same places, weights that   *)
(* sum to one, and each its share of the reply's (generator.py,            *)
(* _normalise_weights).                                                    *)
LEMMA NormalisedSound ==
  ASSUME NEW c, Raw(c)
  PROVE  /\ Normalised(c) \in Seq(Criterion)
         /\ Len(Normalised(c)) = Len(c) /\ DOMAIN Normalised(c) = DOMAIN c
         /\ Total(Normalised(c)) = WEIGHT_SCALE
         /\ \A i \in DOMAIN c : Normalised(c)[i].name = c[i].name /\ Normalised(c)[i].weight \in Nat
         /\ \E topped \in DOMAIN c : Follows(c, Normalised(c), topped)
<1> DEFINE s == RescaledOnly(c)
           h == CHOOSE i \in DOMAIN s : \A j \in DOMAIN s \ {i} : Heavier(s, i, j)
           d == WEIGHT_SCALE - Total(s)
           N == Normalised(c)
           t == Total(c)
<1>1. c \in Seq(Criterion) /\ Len(c) \in 1..100 /\ t \in Nat
      /\ \A i \in DOMAIN c : c[i].weight \in Nat
  BY DEF Raw
<1>2. s \in Seq(Criterion) /\ DOMAIN s = DOMAIN c /\ Len(s) = Len(c)
      /\ \A i \in DOMAIN c : s[i].name = c[i].name /\ Near(t, c[i].weight, s[i].weight)
  BY RescaledNear
<1>3. d \in Int
  BY LeftOver
<1>4. \A i \in DOMAIN c : s[i].weight \in Nat
  <2> HIDE DEF s, t
  <2> QED BY <1>2 DEF Near
<1>6. h \in DOMAIN c /\ \A j \in DOMAIN c \ {h} : Heavier(s, h, j)
  <2>1. Len(s) >= 1 /\ \A i \in DOMAIN s : s[i].weight \in Nat
    BY <1>1, <1>2, <1>4
  <2>2. \E i \in DOMAIN s : \A j \in DOMAIN s \ {i} : Heavier(s, i, j)
    <3> HIDE DEF s
    <3> QED BY <1>2, <2>1, HeaviestExists
  <2>3. h \in DOMAIN s /\ \A j \in DOMAIN s \ {h} : Heavier(s, h, j)
    <3> HIDE DEF s
    <3> QED BY <2>2
  <2> HIDE DEF s, h
  <2> QED BY <1>2, <2>3
<1>5. \A j \in DOMAIN c : s[j].weight <= s[h].weight
  <2> HIDE DEF s, h
  <2> TAKE j \in DOMAIN c
  <2>1. s[j].weight \in Nat /\ s[h].weight \in Nat
    BY <1>4, <1>6
  <2>2. CASE j = h
    BY <2>1, <2>2
  <2>3. CASE j # h
    <3>1. Heavier(s, h, j)
      BY <1>6, <2>3
    <3> QED BY <2>1, <3>1 DEF Heavier
  <2> QED BY <2>2, <2>3
<1>7. N = [s EXCEPT ![h].weight = s[h].weight + d]
  <2>1. N = [s EXCEPT ![h].weight = s[h].weight + WEIGHT_SCALE - Total(s)]
    BY DEF Normalised
  <2>2. s[h].weight + WEIGHT_SCALE - Total(s) = s[h].weight + d
    <3>1. Total(s) \in Int
      BY <1>2, TotalTyped
    <3>2. s[h].weight \in Int
      BY <1>2, <1>6, CriterionTyped
    <3> HIDE DEF s, h
    <3> QED BY <3>1, <3>2 DEF WEIGHT_SCALE
  <2> HIDE DEF s, h, d, N
  <2> QED BY <2>1, <2>2
<1> HIDE DEF s, h, d, N, t
<1>8. \A i \in DOMAIN c : /\ N[i] \in Criterion /\ N[i].name = c[i].name
                          /\ N[i].weight = s[i].weight + (IF i = h THEN d ELSE 0)
  <2> TAKE i \in DOMAIN c
  <2>1. s[i] \in Criterion /\ s[i].name = c[i].name /\ s[i].weight \in Int
    BY <1>2, CriterionTyped
  <2>2. CASE i = h
    <3> DEFINE y == [s[i] EXCEPT !.weight = s[i].weight + d]
    <3>1. N[i] = y
      BY <1>2, <1>7, <2>2
    <3>2. y \in Criterion /\ y.name = c[i].name /\ y.weight = s[i].weight + d
      BY <1>3, <2>1 DEF Criterion
    <3> HIDE DEF y
    <3> QED BY <2>2, <3>1, <3>2
  <2>3. CASE i # h
    <3>1. N[i] = s[i]
      BY <1>2, <1>7, <2>3
    <3> QED BY <2>1, <2>3, <3>1
  <2> QED BY <2>2, <2>3
<1>9. N \in Seq(Criterion) /\ Len(N) = Len(c) /\ DOMAIN N = DOMAIN c
  <2>1. DOMAIN N = DOMAIN s /\ N = [i \in DOMAIN s |-> N[i]]
    BY <1>7
  <2>2. DOMAIN c = 1..Len(c) /\ Len(c) \in Nat
    BY <1>1, CriterionTyped
  <2>3. N \in [1..Len(c) -> Criterion]
    BY <1>2, <1>8, <2>1, <2>2
  <2> QED BY <2>2, <2>3
<1>10. Total(N) = WEIGHT_SCALE
  <2>1. IsFiniteSet(DOMAIN c)
    BY <1>1, CriterionTyped
  <2>2. /\ Total(s) = SumFunctionOnSet(WeightsOf(s), DOMAIN c) /\ Total(s) \in Int
        /\ \A i \in DOMAIN c : WeightsOf(s)[i] = s[i].weight /\ s[i].weight \in Int
    BY <1>2, CriterionTyped, TotalTyped
  <2>3. /\ Total(N) = SumFunctionOnSet(WeightsOf(N), DOMAIN c)
        /\ \A i \in DOMAIN c : WeightsOf(N)[i] = N[i].weight
    BY <1>9, TotalTyped
  <2>4. \A i \in DOMAIN c \ {h} : WeightsOf(N)[i] = WeightsOf(s)[i]
    BY <1>8, <2>2, <2>3
  <2>5. WeightsOf(N)[h] = WeightsOf(s)[h] + d
    BY <1>6, <1>8, <2>2, <2>3
  <2>6. Total(N) = Total(s) + d
    <3> DEFINE f == WeightsOf(s)
               g == WeightsOf(N)
               S == DOMAIN c
    <3>1. \A i \in S : f[i] \in Int
      BY <2>2
    <3>2. \A i \in S \ {h} : g[i] = f[i]
      BY <2>4
    <3>3. g[h] = f[h] + d /\ h \in S /\ IsFiniteSet(S)
      BY <1>6, <2>1, <2>5
    <3> HIDE DEF f, g, S
    <3>4. SumFunctionOnSet(g, S) = SumFunctionOnSet(f, S) + d
      BY <1>3, <3>1, <3>2, <3>3, SumRaised
    <3> QED BY <2>2, <2>3, <3>4 DEF f, g, S
  <2>7. WEIGHT_SCALE \in Int
    BY DEF WEIGHT_SCALE
  <2> QED BY <2>2, <2>6, <2>7 DEF d
<1>11. s[h].weight + d \in Nat
  BY <1>5, <1>6, HeaviestHolds DEF s, d
<1>12. \A i \in DOMAIN c : N[i].weight \in Nat
  <2> TAKE i \in DOMAIN c
  <2>1. CASE i = h
    BY <1>8, <1>11, <2>1
  <2>2. CASE i # h
    <3>1. N[i].weight = s[i].weight + 0 /\ s[i].weight \in Nat
      BY <1>4, <1>8, <2>2
    <3> QED BY <3>1
  <2> QED BY <2>1, <2>2
<1>13. Follows(c, N, h)
  <2> SUFFICES ASSUME NEW k \in DOMAIN c
               PROVE  /\ (c[k].weight - c[h].weight) * WEIGHT_SCALE <= t
                      /\ Share(t, c[k].weight, N[k].weight, IF k = h THEN Len(N) - 1 ELSE 1)
    BY DEF Follows, t
  <2>1. /\ Near(t, c[k].weight, s[k].weight) /\ Near(t, c[h].weight, s[h].weight)
        /\ c[k].weight \in Nat /\ c[h].weight \in Nat /\ s[k].weight \in Nat /\ s[h].weight \in Nat
        /\ s[k].weight <= s[h].weight /\ t \in Nat
    BY <1>1, <1>2, <1>4, <1>5, <1>6
  <2>2. (c[k].weight - c[h].weight) * WEIGHT_SCALE <= t
    BY <2>1, NearShare
  <2>3. CASE k = h
    <3>1. N[h].weight = s[h].weight + d /\ Len(N) = Len(c)
      BY <1>6, <1>8, <1>9
    <3>2. Share(t, c[h].weight, s[h].weight + d, Len(c) - 1)
      BY <1>6, ToppedShare DEF t, s, d
    <3> QED BY <2>2, <2>3, <3>1, <3>2
  <2>4. CASE k # h
    <3>1. N[k].weight = s[k].weight
      BY <1>8, <2>1, <2>4
    <3>2. Share(t, c[k].weight, s[k].weight, 1)
      BY <2>1, NearShare
    <3> QED BY <2>2, <2>4, <3>1, <3>2
  <2> QED BY <2>3, <2>4
<1> QED BY <1>6, <1>8, <1>9, <1>10, <1>12, <1>13 DEF N

----------------------------------------------------------------------------
(* A plan as it is shaped; the table asks of its weights that none is 0.   *)
PlanOk(p) ==
  /\ p = [criteria |-> p.criteria, questions |-> p.questions]
  /\ p.criteria \in Seq(Criterion) /\ Len(p.criteria) \in MIN_CRITERIA..MAX_CRITERIA
  /\ \A i \in DOMAIN p.criteria : p.criteria[i].weight \in Nat
  /\ Total(p.criteria) = WEIGHT_SCALE
  /\ Cardinality(Names(p.criteria)) = Len(p.criteria)
  /\ p.questions \in Seq(Question)
  /\ \A i \in DOMAIN p.questions : p.questions[i].competency \in Names(p.criteria) \cup {NONE}

(* A reply has criteria and questions.                                     *)
LEMMA ReplyTyped ==
  ASSUME NEW reply \in Replies
  PROVE  reply.criteria \in Seq(Criterion) /\ reply.questions \in Seq(Question)
BY ScoringAssumption DEF Plan

(* A reply the schema accepts is a rubric that can be normalised.          *)
LEMMA AcceptedRaw ==
  ASSUME NEW reply \in Replies, PlanAccepted(reply)
  PROVE  /\ Raw(Trimmed(reply.criteria))
         /\ Len(Trimmed(reply.criteria)) \in MIN_CRITERIA..MAX_CRITERIA
         /\ Cardinality(Names(Trimmed(reply.criteria))) = Len(Trimmed(reply.criteria))
<1> DEFINE c == Trimmed(reply.criteria)
           n == Len(c)
<1>1. c \in Seq(Criterion)
  BY ReplyTyped, TrimmedPlaces
<1>2. /\ n \in MIN_CRITERIA..MAX_CRITERIA /\ \A i \in DOMAIN c : c[i].weight \in 1..REPLY_SCALE
      /\ Cardinality(Names(c)) = n /\ 2 * Total(c) \in REPLY_SCALE..(3 * REPLY_SCALE)
  BY DEF PlanAccepted
<1>0. REPLY_SCALE \in Nat \ {0}
  BY ScoringAssumption
<1>3. n \in 1..100
  <2> HIDE DEF n
  <2>1. MIN_CRITERIA \in Nat \ {0} /\ MAX_CRITERIA \in MIN_CRITERIA..100
    BY ScoringAssumption
  <2> QED BY <1>2, <2>1
<1>4. Total(c) \in Nat /\ Total(c) > 0
  <2> DEFINE t == Total(c)
  <2>1. t \in Int /\ 2 * t \in REPLY_SCALE..(3 * REPLY_SCALE)
    BY <1>1, <1>2, TotalTyped
  <2> HIDE DEF t
  <2>2. t \in Nat /\ t > 0
    BY <1>0, <2>1
  <2> QED BY <2>2 DEF t
<1>5. \A i \in DOMAIN c : c[i].weight \in Nat
  <2> HIDE DEF c
  <2> QED BY <1>0, <1>2
<1> QED BY <1>1, <1>2, <1>3, <1>4, <1>5 DEF Raw

(* Clearing tags leaves questions, each tagged with a criterion or not at  *)
(* all (_drop_unmatched_competencies).                                     *)
LEMMA MatchedTyped ==
  ASSUME NEW q \in Seq(Question), NEW names
  PROVE  /\ Matched(q, names) \in Seq(Question)
         /\ \A i \in DOMAIN Matched(q, names) : Matched(q, names)[i].competency \in names \cup {NONE}
<1> DEFINE tag(i) == IF q[i].competency \in names THEN q[i].competency ELSE NONE
           y(i) == [q[i] EXCEPT !.competency = tag(i)]
<1>1. \A i \in DOMAIN q : y(i) \in Question /\ y(i).competency = tag(i)
  <2> TAKE i \in DOMAIN q
  <2>1. q[i] \in Question
    OBVIOUS
  <2>2. tag(i) \in Labels \cup {NONE}
    BY <2>1 DEF Question
  <2> HIDE DEF tag
  <2> QED BY <2>1, <2>2 DEF Question
<1>2. Matched(q, names) = [i \in DOMAIN q |-> y(i)]
  BY DEF Matched
<1>3. DOMAIN q = 1..Len(q) /\ Len(q) \in Nat
  OBVIOUS
<1>4. \A i \in DOMAIN q : tag(i) \in names \cup {NONE}
  OBVIOUS
<1> HIDE DEF y, tag
<1>5. Matched(q, names) \in [1..Len(q) -> Question]
  BY <1>1, <1>2, <1>3
<1>6. DOMAIN Matched(q, names) = DOMAIN q
  BY <1>2
<1>7. \A i \in DOMAIN q : Matched(q, names)[i].competency = tag(i)
  BY <1>1, <1>2
<1> QED BY <1>3, <1>4, <1>5, <1>6, <1>7

(* What _shape makes of an accepted reply (generator.py:76-215).           *)
LEMMA ShapedSound ==
  ASSUME NEW reply \in Replies, PlanAccepted(reply)
  PROVE  PlanOk(Shaped(reply)) /\ RubricFollows(reply.criteria, Shaped(reply).criteria)
<1> DEFINE r == reply.criteria
           c == Trimmed(r)
           N == Normalised(c)
           p == Shaped(reply)
           Q == Matched(reply.questions, Names(N))
<1>1. Raw(c) /\ Len(c) \in MIN_CRITERIA..MAX_CRITERIA /\ Cardinality(Names(c)) = Len(c)
  BY AcceptedRaw
<1>2. /\ N \in Seq(Criterion) /\ Len(N) = Len(c) /\ DOMAIN N = DOMAIN c /\ Total(N) = WEIGHT_SCALE
      /\ \A i \in DOMAIN c : N[i].name = c[i].name /\ N[i].weight \in Nat
      /\ \E topped \in DOMAIN c : Follows(c, N, topped)
  <2> HIDE DEF c
  <2> QED BY <1>1, NormalisedSound
<1>3. p = [criteria |-> N, questions |-> Q]
  BY DEF Shaped
<1>4. Names(N) = Names(c)
  <2> HIDE DEF N, c
  <2> QED BY <1>2 DEF Names
<1>5. Q \in Seq(Question) /\ \A i \in DOMAIN Q : Q[i].competency \in Names(N) \cup {NONE}
  BY ReplyTyped, MatchedTyped
<1> HIDE DEF N, Q, p
<1>6. PlanOk(p)
  <2>1. p.criteria = N /\ p.questions = Q
    BY <1>3
  <2> HIDE DEF c
  <2> QED BY <1>1, <1>2, <1>3, <1>4, <1>5, <2>1 DEF PlanOk
<1>7. RubricFollows(r, N)
  <2>1. r \in Seq(Criterion) /\ c \in Seq(Criterion)
    BY ReplyTyped, TrimmedPlaces
  <2>2. PICK place : Places(r, c, place)
    <3> HIDE DEF r
    <3> QED BY <2>1, TrimmedPlaces
  <2> HIDE DEF r, c
  <2>3. PICK topped \in DOMAIN c : Follows(c, N, topped)
    BY <1>2
  <2> DEFINE raw == [k \in DOMAIN N |-> r[place[k]].weight]
             total == SumFunction(raw)
             off(k) == N[k].weight * total - raw[k] * WEIGHT_SCALE
             roundings(k) == IF k = topped THEN Len(N) - 1 ELSE 1
  <2>4. place \in [DOMAIN N -> DOMAIN r] /\ topped \in DOMAIN N
        /\ \A k \in DOMAIN N : c[k] = r[place[k]]
    BY <1>2, <2>3, <2>2 DEF Places
  <2>5. raw = WeightsOf(c) /\ \A k \in DOMAIN N : raw[k] = c[k].weight
    BY <1>2, <2>4 DEF WeightsOf
  <2>6. total = Total(c)
    BY <2>5 DEF Total
  <2>7. \A k \in DOMAIN N : r[place[k]].name = N[k].name
    BY <1>2, <2>4
  <2>8. /\ \A k, l \in DOMAIN N : k < l => place[k] < place[l]
        /\ \A i \in DOMAIN r \ {place[k] : k \in DOMAIN N}, k \in DOMAIN N : r[i].weight <= raw[k]
    BY <1>2, <2>2 DEF Places
  <2>9. \A k \in DOMAIN N :
          /\ (raw[k] - raw[topped]) * WEIGHT_SCALE <= total
          /\ 2 * off(k) <= roundings(k) * total /\ -2 * off(k) <= roundings(k) * total
    <3> TAKE k \in DOMAIN N
    <3>1. k \in DOMAIN c /\ raw[k] = c[k].weight /\ raw[topped] = c[topped].weight
      BY <1>2, <2>4, <2>5
    <3> QED BY <2>3, <2>6, <3>1 DEF Follows, Share
  <2> HIDE DEF raw
  <2>10. \E pl \in [DOMAIN N -> DOMAIN r], tp \in DOMAIN N : pl = place /\ tp = topped
    BY <2>4
  <2> QED BY <2>4, <2>7, <2>8, <2>9 DEF RubricFollows, raw
<1>8. p.criteria = N
  BY <1>3
<1> QED BY <1>6, <1>7, <1>8 DEF p

(* Dropping questions leaves a plan as good.                               *)
LEMMA RepairedSound ==
  ASSUME NEW p, PlanOk(p)
  PROVE  PlanOk(Repaired(p)) /\ Repaired(p).criteria = p.criteria
<1> DEFINE sound == DOMAIN p.questions \ Ungrounded(p)
           Q == Pick(p.questions, sound)
<1>1. CASE Cardinality(sound) >= MIN_GROUNDED_QUESTIONS
  <2>1. Repaired(p) = [p EXCEPT !.questions = Q]
    BY <1>1 DEF Repaired
  <2>2. p.questions \in Seq(Question) /\ sound \in SUBSET DOMAIN p.questions
    BY DEF PlanOk
  <2> HIDE DEF sound
  <2>3. /\ Q \in Seq(Question) /\ DOMAIN Q = 1..Cardinality(sound)
        /\ \A k \in DOMAIN Q : Q[k] = p.questions[Nth(sound, k)] /\ Nth(sound, k) \in sound
    BY <2>2, PickSeq
  <2> HIDE DEF Q
  <2>4. Repaired(p) = [criteria |-> p.criteria, questions |-> Q]
    BY <2>1 DEF PlanOk
  <2>5. Repaired(p).criteria = p.criteria /\ Repaired(p).questions = Q
    BY <2>4
  <2>6. \A k \in DOMAIN Q : Q[k].competency \in Names(p.criteria) \cup {NONE}
    BY <2>2, <2>3 DEF PlanOk
  <2> QED BY <2>3, <2>4, <2>5, <2>6 DEF PlanOk
<1>2. CASE ~ (Cardinality(sound) >= MIN_GROUNDED_QUESTIONS)
  BY <1>2 DEF Repaired
<1> QED BY <1>1, <1>2

----------------------------------------------------------------------------
(* One number of the grades: aggregator.py.                                *)
(* Rounded half up, what lies between two whole numbers stays there.       *)
LEMMA MeanBetween ==
  ASSUME NEW w \in Nat, w > 0, NEW p \in Int, NEW m \in Int, NEW x \in Int,
         m * w <= p, p <= x * w
  PROVE  /\ HalfUp(p, w) \in m..x
         /\ 2 * (HalfUp(p, w) * w - p) <= w /\ -2 * (HalfUp(p, w) * w - p) <= w
<1> DEFINE h == HalfUp(p, w)
<1>1. h \in Int /\ 2 * w * h <= 2 * p + w /\ 2 * p < 2 * w * h + w
  BY HalfUpNear
<1> HIDE DEF h
<1>2. 2 * w * h = 2 * (w * h) /\ w * h = h * w /\ w * h \in Int /\ m * w \in Int /\ x * w \in Int
      /\ m * w = w * m /\ x * w = w * x
  BY <1>1
<1>3. m <= h
  <2> SUFFICES ASSUME h + 1 <= m PROVE FALSE
    BY <1>1
  <2>1. w * (h + 1) <= w * m
    BY <1>1
  <2>2. w * (h + 1) = w * h + w
    BY <1>1
  <2> QED BY <1>1, <1>2, <2>1, <2>2
<1>4. h <= x
  <2> SUFFICES ASSUME x + 1 <= h PROVE FALSE
    BY <1>1
  <2>1. w * (x + 1) <= w * h
    BY <1>1
  <2>2. w * (x + 1) = w * x + w
    OBVIOUS
  <2> QED BY <1>1, <1>2, <2>1, <2>2
<1>5. 2 * (h * w - p) <= w /\ -2 * (h * w - p) <= w
  BY <1>1, <1>2
<1> QED BY <1>1, <1>3, <1>4, <1>5 DEF h

(* Clamping leaves what is in the band.                                    *)
LEMMA Clamped ==
  ASSUME NEW h \in MIN_BAND..MAX_BAND
  PROVE  Max({MIN_BAND, Min({MAX_BAND, h})}) = h
<1> USE DEF MIN_BAND, MAX_BAND
<1>1. {500, h} \subseteq Nat /\ {500, h} # {}
  OBVIOUS
<1>2. Min({500, h}) = h
  <2>1. Min({500, h}) \in {500, h} /\ \A x \in {500, h} : Min({500, h}) <= x
    BY <1>1, MinOfNaturals
  <2> QED BY <2>1
<1>3. {100, h} \subseteq 0..500 /\ {100, h} # {} /\ 500 \in Nat
  OBVIOUS
<1>4. Max({100, h}) = h
  <2>1. Max({100, h}) \in {100, h} /\ \A x \in {100, h} : Max({100, h}) >= x
    BY <1>3, MaxOfBounded
  <2> QED BY <2>1
<1> QED BY <1>2, <1>4

(* The rows of a scoring: weights that sum to one, scores in the band.     *)
RowsOk(rows) ==
  /\ DOMAIN rows = 1..Cardinality(DOMAIN rows) /\ IsFiniteSet(DOMAIN rows)
  /\ WeightOver(rows, DOMAIN rows) = WEIGHT_SCALE
  /\ \A i \in DOMAIN rows : /\ rows[i].weight \in Nat /\ rows[i].weight > 0
                            /\ rows[i].score \in (MIN_BAND..MAX_BAND) \cup {NONE}

(* What OverallIsTheMean says of rows, a number and a coverage.            *)
IsTheMean(rows, overall, coverage) ==
  LET graded == GradedRows(rows)  weight == WeightOver(rows, graded)
      scores == {rows[i].score : i \in graded}
      error == overall * weight - Weighted(rows, graded)
      uncounted == coverage * WEIGHT_SCALE - 100 * weight
  IN graded # {} =>
       /\ 2 * uncounted <= WEIGHT_SCALE /\ -2 * uncounted <= WEIGHT_SCALE
       /\ coverage >= MIN_COVERAGE => overall # NONE
       /\ overall # NONE =>
            /\ overall \in Min(scores)..Max(scores)
            /\ 2 * error <= weight /\ -2 * error <= weight

(* The number of a whole scoring is the mean of its grades: clamping it    *)
(* into the band changes nothing (aggregator.py).                          *)
LEMMA AggregateIsMean ==
  ASSUME NEW rows, RowsOk(rows)
  PROVE  /\ IsTheMean(rows, aggregate(rows, TRUE).overall, aggregate(rows, TRUE).coverage)
         /\ GradedRows(rows) # {} => aggregate(rows, TRUE).overall \in MIN_BAND..MAX_BAND
<1> DEFINE G == GradedRows(rows)
           W == WeightOver(rows, G)
           P == Weighted(rows, G)
           X == {rows[i].score : i \in G}
           m == Min(X)
           x == Max(X)
           f == WeightsOf(rows)
           g == [i \in G |-> rows[i].weight * rows[i].score]
<1>1. SUFFICES ASSUME G # {}
               PROVE  /\ aggregate(rows, TRUE).overall \in MIN_BAND..MAX_BAND
                      /\ aggregate(rows, TRUE).overall \in m..x
                      /\ 2 * (aggregate(rows, TRUE).overall * W - P) <= W
                      /\ -2 * (aggregate(rows, TRUE).overall * W - P) <= W
                      /\ 2 * (aggregate(rows, TRUE).coverage * WEIGHT_SCALE - 100 * W) <= WEIGHT_SCALE
                      /\ -2 * (aggregate(rows, TRUE).coverage * WEIGHT_SCALE - 100 * W) <= WEIGHT_SCALE
  <2>1. \A o \in MIN_BAND..MAX_BAND : o # NONE
    BY ScoringAssumption
  <2> QED BY <2>1 DEF IsTheMean
<1>2. IsFiniteSet(G) /\ G \subseteq DOMAIN rows
  <2>1. G \subseteq DOMAIN rows
    BY DEF GradedRows
  <2> HIDE DEF G
  <2> QED BY <2>1, FS_Subset DEF RowsOk
<1>3. \A i \in G : rows[i].score \in MIN_BAND..MAX_BAND
  BY DEF GradedRows, RowsOk
<1>4. X # {} /\ X \subseteq 0..500
  BY <1>1, <1>3 DEF MIN_BAND, MAX_BAND
<1>5. m \in X /\ x \in X /\ \A v \in X : m <= v /\ v <= x
  <2> HIDE DEF X
  <2>1. X \subseteq Nat /\ 500 \in Nat
    BY <1>4
  <2>2. m \in X /\ \A v \in X : m <= v
    BY <1>4, <2>1, MinOfNaturals
  <2>3. x \in X /\ \A v \in X : x >= v
    BY <1>4, <2>1, MaxOfBounded
  <2>0. \A v \in X : v \in Int
    BY <2>1
  <2>4. m \in Int /\ x \in Int /\ \A v \in X : v \in Int
    BY <2>0, <2>2, <2>3
  <2> HIDE DEF m, x
  <2> QED BY <2>2, <2>3, <2>4
<1> HIDE DEF m, x
<1>6. m \in 100..500 /\ x \in 100..500
  BY <1>3, <1>5 DEF MIN_BAND, MAX_BAND
<1>7. \A i \in G : f[i] = rows[i].weight /\ f[i] \in Nat /\ f[i] > 0
  <2> HIDE DEF G
  <2> QED BY <1>2 DEF RowsOk, WeightsOf
<1>8. W = SumFunctionOnSet(f, G) /\ P = SumFunctionOnSet(g, G)
  <2>1. DOMAIN g = G
    OBVIOUS
  <2> QED BY <2>1 DEF WeightOver, Weighted, SumFunction
<1> HIDE DEF f
<1>a. m \in Int /\ x \in Int
  BY <1>6
<1>9. \A i \in G : f[i] \in Int /\ g[i] \in Int /\ m * f[i] <= g[i] /\ g[i] <= x * f[i]
  <2> TAKE i \in G
  <2> DEFINE s == rows[i].score
             w == rows[i].weight
  <2>1. s \in X /\ s \in Int
    BY <1>3
  <2>2. m <= s /\ s <= x
    BY <1>5, <2>1
  <2>3. w \in Nat /\ f[i] = w
    BY <1>7
  <2>4. g[i] = w * s
    OBVIOUS
  <2> HIDE DEF s, w, g, X, G
  <2>5. m * w <= w * s /\ w * s <= x * w
    BY <1>a, <2>1, <2>2, <2>3
  <2>6. w * s \in Int /\ w \in Int
    BY <2>1, <2>3
  <2> QED BY <2>3, <2>4, <2>5, <2>6
<1> HIDE DEF g, X, G, W, P
<1>10. W \in Int /\ P \in Int
  BY <1>2, <1>8, <1>9, SumInt
<1>11. m * W <= P /\ P <= x * W
  BY <1>2, <1>a, <1>8, <1>9, SumBetween
<1>12. W \in Nat /\ W > 0
  <2>1. PICK e \in G : TRUE
    BY <1>1
  <2>2. f[e] <= W /\ f[e] \in Nat /\ f[e] > 0
    BY <1>2, <1>7, <1>8, <2>1, SumCovers
  <2> QED BY <1>10, <2>2
<1>13. HalfUp(P, W) \in m..x
       /\ 2 * (HalfUp(P, W) * W - P) <= W /\ -2 * (HalfUp(P, W) * W - P) <= W
  BY <1>a, <1>10, <1>11, <1>12, MeanBetween
<1>14. aggregate(rows, TRUE).overall = HalfUp(P, W)
  <2>1. Mean(rows) = HalfUp(P, W)
    BY DEF Mean, P, W, G
  <2>2. Max({MIN_BAND, Min({MAX_BAND, Mean(rows)})}) = Mean(rows)
    <3>1. Mean(rows) \in MIN_BAND..MAX_BAND
      BY <1>6, <1>13, <2>1 DEF MIN_BAND, MAX_BAND
    <3> QED BY <3>1, Clamped
  <2>3. ~ (WeightOver(rows, DOMAIN rows) <= 0)
    BY DEF RowsOk, WEIGHT_SCALE
  <2>4. GradedRows(rows) # {}
    BY <1>1 DEF G
  <2> QED BY <2>1, <2>2, <2>3, <2>4 DEF aggregate
<1>15. HalfUp(P, W) \in MIN_BAND..MAX_BAND
  BY <1>6, <1>13 DEF MIN_BAND, MAX_BAND
<1> DEFINE C == HalfEven(100 * W, WEIGHT_SCALE)
<1>16. aggregate(rows, TRUE).coverage = C
  <2>1. /\ WeightOver(rows, DOMAIN rows) = WEIGHT_SCALE
        /\ ~ (WeightOver(rows, DOMAIN rows) <= 0)
    BY DEF RowsOk, WEIGHT_SCALE
  <2>2. GradedRows(rows) # {} /\ W = WeightOver(rows, GradedRows(rows))
    BY <1>1 DEF G, W
  <2> QED BY <2>1, <2>2 DEF aggregate
<1>17. 2 * (C * WEIGHT_SCALE - 100 * W) <= WEIGHT_SCALE /\ -2 * (C * WEIGHT_SCALE - 100 * W) <= WEIGHT_SCALE
  <2> DEFINE n == 100 * W
  <2>1. n \in Nat /\ WEIGHT_SCALE \in Nat /\ WEIGHT_SCALE > 0
    BY <1>12 DEF WEIGHT_SCALE
  <2> HIDE DEF n
  <2>2. /\ HalfEven(n, WEIGHT_SCALE) \in Nat
        /\ 2 * WEIGHT_SCALE * HalfEven(n, WEIGHT_SCALE) <= 2 * n + WEIGHT_SCALE
        /\ 2 * n <= 2 * WEIGHT_SCALE * HalfEven(n, WEIGHT_SCALE) + WEIGHT_SCALE
    BY <2>1, HalfEvenNear
  <2>3. C = HalfEven(n, WEIGHT_SCALE)
    BY DEF n
  <2> HIDE DEF C
  <2>4. C \in Nat /\ 20000 * C <= 2 * n + 10000 /\ 2 * n <= 20000 * C + 10000
    BY <2>2, <2>3 DEF WEIGHT_SCALE
  <2>5. 2 * (C * 10000 - n) <= 10000 /\ -2 * (C * 10000 - n) <= 10000
    BY <2>1, <2>4
  <2> QED BY <2>5 DEF WEIGHT_SCALE, n
<1> HIDE DEF C
<1> QED BY <1>13, <1>14, <1>15, <1>16, <1>17

----------------------------------------------------------------------------
(* The inductive invariant *)

(* A citation names a turn of the candidate's that holds the quote.        *)
Cited(evidence) ==
  \A k \in DOMAIN evidence :
    /\ transcript[evidence[k].turn_ordinal].speaker = "CANDIDATE"
    /\ evidence[k].quote \in transcript[evidence[k].turn_ordinal].says

GradeOk(g) ==
  /\ g.score \in (MIN_BAND..MAX_BAND) \cup {NONE}
  /\ g.score # NONE => g.evidence # <<>>
  /\ Cited(g.evidence)

(* The plan from its acceptance on, and the reply it was read from until   *)
(* the interview.                                                          *)
Planned ==
  /\ stage \in {"planning", "repairing", "applying", "planned", "grading", "graded", "over"}
  /\ IF stage = "planning" THEN plan = NONE ELSE PlanOk(plan)
  /\ stage \notin {"planning", "repairing", "applying"} => Storable(plan.criteria)
  /\ IF stage \in {"repairing", "applying", "planned"}
     THEN \E reply \in Replies, resume \in BOOLEAN :
            /\ answer = [reply |-> reply, resume |-> resume]
            /\ RubricFollows(reply.criteria, plan.criteria)
     ELSE answer = NONE

(* Nothing is graded or written before the interview, and its turns stand. *)
Held ==
  /\ transcript \in Seq(Said)
  /\ stage \in {"planning", "repairing", "applying", "planned"} =>
       transcript = <<>> /\ score = Unscored /\ feedback = NoFeedback

(* The grades under way: none but in a scoring, and all of them at its end. *)
Grading ==
  /\ \E X : results \in Seq(X)
  /\ \A i \in DOMAIN results : GradeOk(results[i])
  /\ stage \notin {"grading", "graded"} => results = <<>>
  /\ stage = "grading" => Participated /\ Len(results) < Len(plan.criteria)
  /\ stage = "graded" =>
       IF Participated THEN Len(results) = Len(plan.criteria) ELSE results = <<>>

(* The row: one scoring's, and the number that goes with it.               *)
Scored ==
  /\ \E state, rows, overall, recommendation, coverage :
       score = [status |-> state, rows |-> rows, overall |-> overall,
                recommendation |-> recommendation, coverage |-> coverage]
  /\ \A i \in DOMAIN score.rows : GradeOk(score.rows[i])
  /\ IsTheMean(score.rows, score.overall, score.coverage)
  /\ score.rows = <<>> \/ WeightsOf(score.rows) = WeightsOf(plan.criteria)
  /\ ~ Participated => score.rows = <<>> /\ score.overall = NONE

(* The praise rests on the candidate's words.                              *)
Praised ==
  /\ Silent(transcript) => feedback.strengths = <<>>
  /\ \A k \in DOMAIN feedback.strengths :
       LET item == feedback.strengths[k]  vocabulary == Vocabulary(transcript) IN
       \/ vocabulary = {}
       \/ Cardinality(item.words) < MIN_STRENGTH_CONTENT_WORDS
       \/ item.words \cap vocabulary # {}

ScoringIInv == Planned /\ Held /\ Grading /\ Scored /\ Praised

(* Where nobody has spoken yet, no row and no praise has to be backed.     *)
LEMMA NothingYet ==
  ASSUME score = Unscored, feedback = NoFeedback
  PROVE  Scored /\ Praised
<1>1. score = [status |-> "PENDING", rows |-> <<>>, overall |-> NONE,
               recommendation |-> "INSUFFICIENT_EVIDENCE", coverage |-> 0]
  BY DEF Unscored, Score, Insufficient
<1>2. score.rows = <<>> /\ score.overall = NONE /\ DOMAIN score.rows = {}
  BY <1>1
<1>3. IsTheMean(score.rows, score.overall, score.coverage)
  BY <1>2 DEF IsTheMean, GradedRows
<1>4. Scored
  BY <1>1, <1>2, <1>3 DEF Scored
<1>5. feedback.strengths = <<>> /\ DOMAIN feedback.strengths = {}
  BY DEF NoFeedback
<1> QED BY <1>4, <1>5 DEF Praised

(* Before the plan there is nothing to keep.                               *)
LEMMA ScoringInitIInv == ScoringInit => ScoringIInv
<1> SUFFICES ASSUME ScoringInit PROVE ScoringIInv
  OBVIOUS
<1> USE DEF ScoringInit
<1>1. Planned
  BY DEF Planned
<1>2. transcript = <<>> /\ transcript \in Seq(Said) /\ DOMAIN transcript = {}
  OBVIOUS
<1>3. Held
  BY <1>2 DEF Held
<1>4. Grading
  <2>1. results \in Seq({}) /\ DOMAIN results = {} /\ stage = "planning"
    OBVIOUS
  <2> QED BY <2>1 DEF Grading
<1>5. Scored /\ Praised
  BY NothingYet
<1> QED BY <1>1, <1>3, <1>4, <1>5 DEF ScoringIInv

(* What shaping steps leave alone.                                         *)
LEMMA ShapingKeeps ==
  ASSUME ScoringIInv, stage \in {"planning", "repairing", "applying", "planned"},
         UNCHANGED <<results, score, feedback>>, transcript' \in Seq(Said),
         stage' \in {"planning", "repairing", "applying", "planned"} => transcript' = <<>>,
         stage' \in {"planning", "repairing", "applying", "planned", "over"}
  PROVE  Held' /\ Grading' /\ Scored' /\ Praised'
<1>1. score = Unscored /\ feedback = NoFeedback /\ results = <<>>
  BY DEF ScoringIInv, Held, Grading
<1>2. score' = Unscored /\ feedback' = NoFeedback /\ results' = <<>>
  BY <1>1
<1>3. Held'
  BY <1>2 DEF Held
<1>4. Grading'
  <2>1. results' \in Seq({}) /\ DOMAIN results' = {}
    BY <1>2
  <2> QED BY <1>2, <2>1 DEF Grading
<1>5. Scored'
  <2>1. score' = [status |-> "PENDING", rows |-> <<>>, overall |-> NONE,
                  recommendation |-> "INSUFFICIENT_EVIDENCE", coverage |-> 0]
    BY <1>2 DEF Unscored, Score, Insufficient
  <2>2. score'.rows = <<>> /\ score'.overall = NONE /\ DOMAIN score'.rows = {}
    BY <2>1
  <2>3. IsTheMean(score'.rows, score'.overall, score'.coverage)
    BY <2>2 DEF IsTheMean, GradedRows
  <2> QED BY <2>1, <2>2, <2>3 DEF Scored
<1>6. Praised'
  <2>1. feedback'.strengths = <<>> /\ DOMAIN feedback'.strengths = {}
    BY <1>2 DEF NoFeedback
  <2> QED BY <2>1 DEF Praised
<1> QED BY <1>3, <1>4, <1>5, <1>6

(* A reply the client returns is one the schema accepts.                   *)
LEMMA AcceptedReply ==
  ASSUME NEW reply \in PlanReplies \ {RAISED}
  PROVE  reply \in Replies /\ PlanAccepted(reply)
BY DEF PlanReplies, complete_structured

(* A plan is shaped from the first reply (generator.py, generate).         *)
LEMMA GenerateKeeps == ScoringIInv /\ generate => ScoringIInv'
<1> SUFFICES ASSUME ScoringIInv, generate PROVE ScoringIInv'
  OBVIOUS
<1>1. PICK reply \in PlanReplies \ {RAISED}, resume \in BOOLEAN :
        /\ answer' = [reply |-> reply, resume |-> resume] /\ plan' = Shaped(reply)
        /\ stage' = IF resume /\ Ungrounded(plan') # {} THEN "repairing" ELSE "applying"
  BY DEF generate
<1>2. PlanOk(plan') /\ RubricFollows(reply.criteria, plan'.criteria)
  BY <1>1, AcceptedReply, ShapedSound
<1>3. stage' \in {"repairing", "applying"} /\ stage = "planning"
  BY <1>1 DEF generate
<1>4. Planned'
  BY <1>1, <1>2, <1>3, AcceptedReply DEF Planned
<1>5. Held' /\ Grading' /\ Scored' /\ Praised'
  <2>1. transcript = <<>> /\ transcript \in Seq(Said)
    BY <1>3 DEF ScoringIInv, Held
  <2> QED BY <1>3, <2>1, ShapingKeeps DEF generate
<1> QED BY <1>4, <1>5 DEF ScoringIInv

(* The repair's reply replaces the plan whole.                             *)
LEMMA RepairsKeeps == ScoringIInv /\ generate_repairs => ScoringIInv'
<1> SUFFICES ASSUME ScoringIInv, generate_repairs PROVE ScoringIInv'
  OBVIOUS
<1>1. PICK reply \in PlanReplies \ {RAISED} :
        answer' = [answer EXCEPT !.reply = reply] /\ plan' = Repaired(Shaped(reply))
  BY DEF generate_repairs
<1>2. PlanOk(plan') /\ RubricFollows(reply.criteria, plan'.criteria)
  <2>1. PlanOk(Shaped(reply)) /\ RubricFollows(reply.criteria, Shaped(reply).criteria)
    BY AcceptedReply, ShapedSound
  <2>2. PlanOk(Repaired(Shaped(reply))) /\ Repaired(Shaped(reply)).criteria = Shaped(reply).criteria
    BY <2>1, RepairedSound
  <2> QED BY <1>1, <2>1, <2>2
<1>3. stage = "repairing" /\ stage' = "applying"
  BY DEF generate_repairs
<1>4. PICK old \in Replies, resume \in BOOLEAN : answer = [reply |-> old, resume |-> resume]
  BY <1>3 DEF ScoringIInv, Planned
<1>5. answer' = [reply |-> reply, resume |-> resume] /\ reply \in Replies
  BY <1>1, <1>4, AcceptedReply
<1>6. Planned'
  BY <1>2, <1>3, <1>5 DEF Planned
<1>7. Held' /\ Grading' /\ Scored' /\ Praised'
  <2>1. transcript = <<>> /\ transcript \in Seq(Said)
    BY <1>3 DEF ScoringIInv, Held
  <2> QED BY <1>3, <2>1, ShapingKeeps DEF generate_repairs
<1> QED BY <1>6, <1>7 DEF ScoringIInv

(* A repair that raises takes the plan with it.                            *)
LEMMA RaisesKeeps == ScoringIInv /\ generate_raises => ScoringIInv'
<1> SUFFICES ASSUME ScoringIInv, generate_raises PROVE ScoringIInv'
  OBVIOUS
<1>1. stage = "repairing" /\ stage' = "planning" /\ answer' = NONE /\ plan' = NONE
  BY DEF generate_raises
<1>2. Planned'
  BY <1>1 DEF Planned
<1>3. transcript = <<>> /\ transcript \in Seq(Said)
  BY <1>1 DEF ScoringIInv, Held
<1>4. Held' /\ Grading' /\ Scored' /\ Praised'
  BY <1>1, <1>3, ShapingKeeps DEF generate_raises
<1> QED BY <1>2, <1>4 DEF ScoringIInv

(* The plan is written, where the table takes its weights.                 *)
LEMMA AppliedKeeps == ScoringIInv /\ apply_generated => ScoringIInv'
<1> SUFFICES ASSUME ScoringIInv, apply_generated PROVE ScoringIInv'
  OBVIOUS
<1>1. /\ stage = "applying" /\ stage' = "planned" /\ Storable(plan.criteria)
      /\ UNCHANGED <<answer, plan, transcript>>
  BY DEF apply_generated
<1>2. PlanOk(plan') /\ Storable(plan'.criteria)
  BY <1>1 DEF ScoringIInv, Planned
<1>3. \E reply \in Replies, resume \in BOOLEAN :
        /\ answer' = [reply |-> reply, resume |-> resume]
        /\ RubricFollows(reply.criteria, plan'.criteria)
  BY <1>1 DEF ScoringIInv, Planned
<1>4. Planned'
  BY <1>1, <1>2, <1>3 DEF Planned
<1>5. transcript = <<>> /\ transcript \in Seq(Said)
  BY <1>1 DEF ScoringIInv, Held
<1>6. Held' /\ Grading' /\ Scored' /\ Praised'
  BY <1>1, <1>5, ShapingKeeps DEF apply_generated
<1> QED BY <1>4, <1>6 DEF ScoringIInv

(* A write that raises takes the plan with it.                             *)
LEMMA UnappliedKeeps == ScoringIInv /\ apply_raises => ScoringIInv'
<1> SUFFICES ASSUME ScoringIInv, apply_raises PROVE ScoringIInv'
  OBVIOUS
<1>1. stage = "applying" /\ stage' = "planning" /\ answer' = NONE /\ plan' = NONE
  BY DEF apply_raises
<1>2. Planned'
  BY <1>1 DEF Planned
<1>3. transcript = <<>> /\ transcript \in Seq(Said)
  BY <1>1 DEF ScoringIInv, Held
<1>4. Held' /\ Grading' /\ Scored' /\ Praised'
  BY <1>1, <1>3, ShapingKeeps DEF apply_raises
<1> QED BY <1>2, <1>4 DEF ScoringIInv

(* The interview leaves a transcript, and no grade of it yet.              *)
LEMMA InterviewedKeeps == ScoringIInv /\ Interviewed => ScoringIInv'
<1> SUFFICES ASSUME ScoringIInv, Interviewed PROVE ScoringIInv'
  OBVIOUS
<1>1. stage = "planned" /\ stage' = "over" /\ answer' = NONE /\ plan' = plan
  BY DEF Interviewed
<1>2. PlanOk(plan) /\ Storable(plan.criteria)
  BY <1>1 DEF ScoringIInv, Planned
<1>3. Planned'
  BY <1>1, <1>2 DEF Planned
<1>4. transcript' \in Seq(Said)
  BY ScoringAssumption DEF Interviewed
<1>5. Held' /\ Grading' /\ Scored' /\ Praised'
  BY <1>1, <1>4, ShapingKeeps DEF Interviewed
<1> QED BY <1>3, <1>5 DEF ScoringIInv

(* Evidence that survived verification is the candidate's                  *)
(* (rubric_scorer.py, verify_evidence).                                    *)
LEMMA VerifiedCited ==
  ASSUME transcript \in Seq(Said), NEW X, NEW citations \in Seq(X)
  PROVE  /\ Cited(verify_evidence(citations, transcript))
         /\ verify_evidence(citations, transcript)
              \in Seq([quote : X, turn_ordinal : DOMAIN transcript])
         /\ Len(verify_evidence(citations, transcript)) <= Len(citations)
<1> DEFINE S == {k \in DOMAIN citations :
                   citations[k].chars >= MIN_QUOTE_CHARS /\ Citable(transcript, citations[k]) # {}}
           found == Pick(citations, S)
           e == verify_evidence(citations, transcript)
<1>1. e = [k \in DOMAIN found |->
             [quote |-> found[k], turn_ordinal |-> Min(Citable(transcript, found[k]))]]
  BY DEF verify_evidence
<1>2. /\ \A k \in DOMAIN found : Citable(transcript, found[k]) # {}
      /\ found \in Seq(X) /\ Len(found) <= Len(citations)
  <2>1. S \in SUBSET DOMAIN citations /\ \A k \in S : Citable(transcript, citations[k]) # {}
    OBVIOUS
  <2> HIDE DEF S
  <2>2. /\ DOMAIN found = 1..Cardinality(S) /\ found \in Seq(X)
        /\ Len(found) = Cardinality(S) /\ Cardinality(S) <= Len(citations)
        /\ \A k \in 1..Cardinality(S) : found[k] = citations[Nth(S, k)] /\ Nth(S, k) \in S
    BY <2>1, PickSeq
  <2> HIDE DEF found
  <2> QED BY <2>1, <2>2
<1> HIDE DEF found, e
<1>3. \A k \in DOMAIN found : Min(Citable(transcript, found[k])) \in Citable(transcript, found[k])
  <2> TAKE k \in DOMAIN found
  <2> DEFINE C == Citable(transcript, found[k])
  <2>1. C \subseteq Nat
    <3>1. DOMAIN transcript = 1..Len(transcript) /\ Len(transcript) \in Nat
      OBVIOUS
    <3>2. C \subseteq DOMAIN transcript
      BY DEF Citable
    <3> HIDE DEF C
    <3> QED BY <3>1, <3>2
  <2>2. C # {}
    BY <1>2
  <2> HIDE DEF C
  <2>3. Min(C) \in C
    BY <2>1, <2>2, MinOfNaturals
  <2> QED BY <2>3 DEF C
<1>4. /\ DOMAIN e = DOMAIN found
      /\ \A k \in DOMAIN found : /\ e[k].quote = found[k]
                                /\ e[k].turn_ordinal = Min(Citable(transcript, found[k]))
  BY <1>1
<1>5. \A k \in DOMAIN e : e[k].turn_ordinal \in Citable(transcript, e[k].quote)
  BY <1>3, <1>4
<1>6. Cited(e)
  BY <1>5 DEF Cited, Citable
<1>7. e \in Seq([quote : X, turn_ordinal : DOMAIN transcript]) /\ Len(e) = Len(found)
  <2>1. found \in [1..Len(found) -> X] /\ Len(found) \in Nat /\ DOMAIN found = 1..Len(found)
    BY <1>2
  <2>2. \A k \in DOMAIN found : Min(Citable(transcript, found[k])) \in DOMAIN transcript
    BY <1>3 DEF Citable
  <2> DEFINE R == [quote : X, turn_ordinal : DOMAIN transcript]
             n == Len(found)
  <2>3. e \in [1..n -> R]
    BY <1>1, <2>1, <2>2
  <2>4. n \in Nat
    BY <2>1
  <2> HIDE DEF R, n
  <2>5. e \in Seq(R) /\ Len(e) = n
    BY <2>3, <2>4
  <2> QED BY <2>5 DEF R, n
<1> QED BY <1>2, <1>6, <1>7 DEF e

(* A grade is in the band, and a score has words under it                  *)
(* (rubric_scorer.py, score_criterion).                                    *)
LEMMA GradedOk ==
  ASSUME transcript \in Seq(Said),
         NEW verdict \in complete_structured({v \in Verdicts : InBand(v)})
  PROVE  GradeOk(GradedAs(verdict, transcript))
<1> DEFINE g == GradedAs(verdict, transcript)
           e == verify_evidence(verdict.evidence, transcript)
<1>1. ASSUME NEW r, g = Ungraded(r) PROVE GradeOk(g)
  <2>1. g.score = NONE /\ g.evidence = <<>> /\ DOMAIN g.evidence = {}
    BY <1>1 DEF Ungraded
  <2> HIDE DEF g
  <2> QED BY <2>1 DEF GradeOk, Cited
<1>2. CASE verdict = RAISED
  BY <1>1, <1>2 DEF GradedAs
<1>3. CASE verdict # RAISED
  <2>1. verdict \in Verdicts /\ InBand(verdict)
    BY <1>3 DEF complete_structured
  <2>2. verdict.score \in (MIN_BAND..MAX_BAND) \cup {NONE}
    BY <2>1 DEF InBand
  <2>3. verdict.evidence \in Seq(Quotes)
    <3>1. verdict.evidence = <<>> \/ \E q \in Quotes : verdict.evidence = <<q>>
      BY <2>1 DEF Verdicts
    <3>2. <<>> \in Seq(Quotes) /\ \A q \in Quotes : <<q>> \in Seq(Quotes)
      OBVIOUS
    <3> QED BY <3>1, <3>2
  <2>4. Cited(e)
    BY <2>3, VerifiedCited
  <2>5. CASE verdict.score # NONE /\ e = <<>>
    BY <1>1, <1>3, <2>5 DEF GradedAs
  <2>6. CASE ~ (verdict.score # NONE /\ e = <<>>)
    <3>1. g = [score |-> verdict.score, rationale |-> "model", evidence |-> e]
      BY <1>3, <2>6 DEF GradedAs
    <3> HIDE DEF e, g
    <3>2. g.score = verdict.score /\ g.evidence = e
      BY <3>1
    <3>3. g.score \in (MIN_BAND..MAX_BAND) \cup {NONE} /\ Cited(g.evidence)
      BY <2>2, <2>4, <3>2
    <3>4. g.score # NONE => g.evidence # <<>>
      BY <2>6, <3>2
    <3> QED BY <3>3, <3>4 DEF GradeOk, g
  <2> QED BY <2>5, <2>6
<1> QED BY <1>2, <1>3

(* A step that writes neither the row nor the feedback.                    *)
LEMMA RowKept ==
  ASSUME ScoringIInv, UNCHANGED <<plan, transcript, feedback>>,
         score' = score \/ score' = [score EXCEPT !.status = "SCORING"]
  PROVE  Scored' /\ Praised'
<1>1. PICK state, rows, overall, recommendation, coverage :
        score = [status |-> state, rows |-> rows, overall |-> overall,
                 recommendation |-> recommendation, coverage |-> coverage]
  BY DEF ScoringIInv, Scored
<1>2. \E s : score' = [status |-> s, rows |-> rows, overall |-> overall,
                       recommendation |-> recommendation, coverage |-> coverage]
  <2>1. CASE score' = score
    BY <1>1, <2>1
  <2>2. CASE score' = [score EXCEPT !.status = "SCORING"]
    BY <1>1, <2>2
  <2> QED BY <2>1, <2>2
<1>3. /\ score.rows = rows /\ score'.rows = rows
      /\ score.overall = overall /\ score'.overall = overall
      /\ score.coverage = coverage /\ score'.coverage = coverage
  BY <1>1, <1>2
<1>4. Scored'
  <2>1. \A i \in DOMAIN rows : GradeOk(rows[i])'
    BY <1>3 DEF ScoringIInv, Scored, GradeOk, Cited
  <2>2. IsTheMean(score'.rows, score'.overall, score'.coverage)
    BY <1>3 DEF ScoringIInv, Scored
  <2>3. score'.rows = <<>> \/ WeightsOf(score'.rows) = WeightsOf(plan'.criteria)
    BY <1>3 DEF ScoringIInv, Scored
  <2>4. ~ Participated' => score'.rows = <<>> /\ score'.overall = NONE
    BY <1>3 DEF ScoringIInv, Scored, Participated
  <2> QED BY <1>2, <1>3, <2>1, <2>2, <2>3, <2>4 DEF Scored
<1>5. Praised'
  BY DEF ScoringIInv, Praised
<1> QED BY <1>4, <1>5

(* A scoring's own steps leave the plan and the transcript.                *)
LEMMA ScoringLeaves ==
  ASSUME ScoringIInv, UNCHANGED <<answer, plan, transcript>>,
         stage \in {"grading", "graded", "over"}, stage' \in {"grading", "graded", "over"}
  PROVE  Planned' /\ Held' /\ PlanOk(plan')
<1>1. PlanOk(plan) /\ answer = NONE /\ Storable(plan.criteria)
  BY DEF ScoringIInv, Planned
<1>2. Planned'
  BY <1>1 DEF Planned
<1>3. Held'
  BY DEF ScoringIInv, Held
<1> QED BY <1>1, <1>2, <1>3

(* A scoring begins; the last one's result stays.                          *)
LEMMA ScoreBeginsKeeps == ScoringIInv /\ score_begins => ScoringIInv'
<1> SUFFICES ASSUME ScoringIInv, score_begins PROVE ScoringIInv'
  OBVIOUS
<1> USE DEF score_begins
<1>1. stage = "over" /\ stage' \in {"grading", "graded"} /\ results' = <<>>
  OBVIOUS
<1>2. Planned' /\ Held' /\ PlanOk(plan')
  BY <1>1, ScoringLeaves
<1>3. Scored' /\ Praised'
  BY RowKept
<1>4. Grading'
  <2>1. \E X : results' \in Seq(X)
    <3>1. results' \in Seq({})
      BY <1>1
    <3> QED BY <3>1
  <2>2. DOMAIN results' = {} /\ Len(results') = 0
    BY <1>1
  <2>3. 0 < Len(plan'.criteria)
    <3>1. MIN_CRITERIA \in Nat \ {0} /\ MAX_CRITERIA \in MIN_CRITERIA..100
      BY ScoringAssumption
    <3>2. Len(plan'.criteria) \in MIN_CRITERIA..MAX_CRITERIA
      BY <1>2 DEF PlanOk
    <3> DEFINE n == Len(plan'.criteria)
    <3> HIDE DEF n
    <3> QED BY <3>1, <3>2 DEF n
  <2>4. stage' = "grading" => Participated'
    BY DEF Participated
  <2>5. stage' = "graded" => ~ Participated'
    BY DEF Participated
  <2> QED BY <1>1, <2>1, <2>2, <2>3, <2>4, <2>5 DEF Grading
<1> QED BY <1>2, <1>3, <1>4 DEF ScoringIInv

(* One more criterion is graded (rubric_scorer.py, score_all).             *)
LEMMA CriterionKeeps == ScoringIInv /\ score_criterion => ScoringIInv'
<1> SUFFICES ASSUME ScoringIInv, score_criterion PROVE ScoringIInv'
  OBVIOUS
<1> USE DEF score_criterion
<1>1. stage = "grading" /\ stage' \in {"grading", "graded"}
  OBVIOUS
<1>2. Planned' /\ Held' /\ PlanOk(plan')
  BY <1>1, ScoringLeaves
<1>3. Scored' /\ Praised'
  BY RowKept
<1>4. PICK verdict \in complete_structured({v \in Verdicts : InBand(v)}) :
        results' = Append(results, GradedAs(verdict, transcript))
  OBVIOUS
<1>5. PICK g : g = GradedAs(verdict, transcript)
  OBVIOUS
<1>6. GradeOk(g)
  BY <1>5, GradedOk DEF ScoringIInv, Held
<1>7. PICK X : results \in Seq(X)
  BY DEF ScoringIInv, Grading
<1>8. results \in Seq(X \cup {g}) /\ results' = Append(results, g)
  <2>1. Len(results) \in Nat /\ results \in [1..Len(results) -> X]
    BY <1>7
  <2>2. results \in [1..Len(results) -> X \cup {g}]
    BY <2>1
  <2>3. results \in Seq(X \cup {g})
    BY <2>1, <2>2
  <2> QED BY <1>4, <1>5, <2>3
<1>9. /\ results' \in Seq(X \cup {g}) /\ Len(results') = Len(results) + 1
      /\ Len(results) \in Nat /\ DOMAIN results = 1..Len(results)
      /\ DOMAIN results' = 1..(Len(results) + 1)
      /\ \A i \in 1..Len(results) : results'[i] = results[i]
      /\ results'[Len(results) + 1] = g
  BY <1>8
<1>10. Grading'
  <2>1. \A i \in DOMAIN results' : results'[i] = g \/ \E j \in DOMAIN results : results'[i] = results[j]
    <3> TAKE i \in DOMAIN results'
    <3>1. i = Len(results) + 1 \/ i \in 1..Len(results)
      BY <1>9
    <3> QED BY <1>9, <3>1
  <2>2. GradeOk(g)' /\ \A j \in DOMAIN results : GradeOk(results[j])
    BY <1>6 DEF ScoringIInv, Grading, GradeOk, Cited
  <2>3. \A y : GradeOk(y) => GradeOk(y)'
    BY DEF GradeOk, Cited
  <2>4. \A y : (y = g \/ \E j \in DOMAIN results : y = results[j]) => GradeOk(y)'
    BY <1>6, <2>2, <2>3
  <2>5. Participated /\ Participated'
    BY <1>1 DEF ScoringIInv, Grading, Participated
  <2>6. Len(results) < Len(plan.criteria) /\ Len(plan.criteria) \in Nat /\ plan' = plan
    <3>1. plan.criteria \in Seq(Criterion)
      BY <1>2 DEF PlanOk
    <3> QED BY <1>1, <3>1 DEF ScoringIInv, Grading
  <2>7. IF stage' = "graded" THEN Len(results') = Len(plan'.criteria)
                             ELSE Len(results') < Len(plan'.criteria)
    <3>1. stage' = IF Len(results') = Len(plan.criteria) THEN "graded" ELSE "grading"
      OBVIOUS
    <3> DEFINE m == Len(plan.criteria)
               n == Len(results)
    <3>2. n \in Nat /\ m \in Nat /\ n < m /\ Len(results') = n + 1
      BY <1>9, <2>6
    <3>3. n + 1 = m \/ n + 1 < m
      <4> HIDE DEF m, n
      <4> QED BY <3>2
    <3> QED BY <2>6, <3>1, <3>2, <3>3
  <2>8. \A i \in DOMAIN results' : GradeOk(results[i])'
    BY <2>1, <2>4
  <2> QED BY <1>1, <1>9, <2>5, <2>7, <2>8 DEF Grading
<1> QED BY <1>2, <1>3, <1>10 DEF ScoringIInv

(* A scoring is abandoned: its grades are lost, the row keeps its own.     *)
LEMMA RaiseKeeps == ScoringIInv /\ score_raises => ScoringIInv'
<1> SUFFICES ASSUME ScoringIInv, score_raises PROVE ScoringIInv'
  OBVIOUS
<1> USE DEF score_raises
<1>1. stage \in {"grading", "graded"} /\ stage' = "over" /\ results' = <<>>
  OBVIOUS
<1>2. Planned' /\ Held'
  BY <1>1, ScoringLeaves
<1>3. Scored' /\ Praised'
  BY RowKept
<1>4. Grading'
  <2>1. results' \in Seq({}) /\ DOMAIN results' = {}
    BY <1>1
  <2> QED BY <1>1, <2>1 DEF Grading
<1> QED BY <1>2, <1>3, <1>4 DEF ScoringIInv

(* The rows of a whole scoring weigh what the rubric weighs.               *)
LEMMA StoredRowsOk ==
  ASSUME ScoringIInv, stage = "graded", Participated,
         NEW rows, rows = weights_and_scores
  PROVE  RowsOk(rows) /\ WeightsOf(rows) = WeightsOf(plan.criteria)
<1>1. DOMAIN rows = DOMAIN results
      /\ \A i \in DOMAIN results : /\ rows[i].weight = plan.criteria[i].weight
                                   /\ rows[i].score = results[i].score
  BY DEF weights_and_scores
<1>2. PlanOk(plan) /\ Storable(plan.criteria)
  BY DEF ScoringIInv, Planned
<1>3. plan.criteria \in Seq(Criterion) /\ Total(plan.criteria) = WEIGHT_SCALE
      /\ \A i \in DOMAIN plan.criteria : plan.criteria[i].weight \in Nat /\ plan.criteria[i].weight > 0
  BY <1>2 DEF PlanOk, Storable
<1>4. DOMAIN rows = DOMAIN plan.criteria
  <2>1. PICK X : results \in Seq(X)
    BY DEF ScoringIInv, Grading
  <2>2. Len(results) = Len(plan.criteria)
    BY DEF ScoringIInv, Grading
  <2> QED BY <1>1, <1>3, <2>1, <2>2
<1>5. WeightsOf(rows) = WeightsOf(plan.criteria)
  BY <1>1, <1>4 DEF WeightsOf
<1>6. RowsOk(rows)
  <2>1. /\ DOMAIN plan.criteria = 1..Len(plan.criteria) /\ IsFiniteSet(DOMAIN plan.criteria)
        /\ Cardinality(DOMAIN plan.criteria) = Len(plan.criteria)
    BY <1>3, CriterionTyped
  <2>2. WeightOver(rows, DOMAIN rows) = WEIGHT_SCALE
    <3>1. Total(plan.criteria) = SumFunctionOnSet(WeightsOf(plan.criteria), DOMAIN plan.criteria)
      BY <1>3, TotalTyped
    <3> QED BY <1>3, <1>4, <1>5, <3>1 DEF WeightOver
  <2>3. \A i \in DOMAIN rows : rows[i].score \in (MIN_BAND..MAX_BAND) \cup {NONE}
    BY <1>1 DEF ScoringIInv, Grading, GradeOk
  <2> QED BY <1>1, <1>3, <1>4, <2>1, <2>2, <2>3 DEF RowsOk
<1> QED BY <1>5, <1>6

(* Storing a scoring (scoring/service.py, store; aggregator.py).           *)
LEMMA StoreKeeps == ScoringIInv /\ store => ScoringIInv'
<1> SUFFICES ASSUME ScoringIInv, store PROVE ScoringIInv'
  OBVIOUS
<1> USE DEF store
<1>1. stage = "graded" /\ stage' = "over" /\ results' = <<>>
      /\ UNCHANGED <<answer, plan, transcript, feedback>>
  OBVIOUS
<1>2. Planned' /\ Held' /\ PlanOk(plan)
  BY <1>1, ScoringLeaves DEF ScoringIInv, Planned
<1>3. Grading'
  <2>1. results' \in Seq({}) /\ DOMAIN results' = {}
    BY <1>1
  <2> QED BY <1>1, <2>1 DEF Grading
<1>4. Praised'
  BY <1>1 DEF ScoringIInv, Praised
<1>5. PICK rows : rows = weights_and_scores
  OBVIOUS
<1>6. PICK outcome : outcome = aggregate(rows, Participated)
  OBVIOUS
<1>7. score' = [status |-> "READY", rows |-> rows, overall |-> outcome.overall,
                recommendation |-> outcome.recommendation, coverage |-> outcome.coverage]
  BY <1>5, <1>6 DEF Rows, Score
<1>8. score'.rows = rows /\ score'.overall = outcome.overall /\ score'.coverage = outcome.coverage
  BY <1>7
<1>9. DOMAIN rows = DOMAIN results
      /\ \A i \in DOMAIN results : /\ rows[i].weight = plan.criteria[i].weight
                                   /\ rows[i].score = results[i].score
                                   /\ rows[i].evidence = results[i].evidence
  BY <1>5 DEF weights_and_scores
<1>10. \A i \in DOMAIN rows : GradeOk(rows[i])'
  <2> TAKE i \in DOMAIN rows
  <2>1. GradeOk(results[i])
    BY <1>9 DEF ScoringIInv, Grading
  <2>2. PICK y, z : y = rows[i] /\ z = results[i]
    OBVIOUS
  <2>3. y.score = z.score /\ y.evidence = z.evidence /\ GradeOk(z)
    BY <1>9, <2>1, <2>2
  <2>4. GradeOk(y)
    BY <2>3 DEF GradeOk
  <2>5. GradeOk(y)'
    BY <1>1, <2>4 DEF GradeOk, Cited
  <2> QED BY <2>2, <2>5
<1>11. CASE Participated
  <2>1. RowsOk(rows) /\ WeightsOf(rows) = WeightsOf(plan.criteria)
    BY <1>1, <1>5, <1>11, StoredRowsOk
  <2>4. IsTheMean(rows, outcome.overall, outcome.coverage)
    <3>1. outcome = aggregate(rows, TRUE)
      BY <1>6, <1>11
    <3> QED BY <2>1, <3>1, AggregateIsMean
  <2>5. Participated'
    BY <1>1, <1>11 DEF Participated
  <2>6. Scored'
    BY <1>1, <1>7, <1>8, <1>10, <2>1, <2>4, <2>5 DEF Scored
  <2> QED BY <1>2, <1>3, <1>4, <2>6 DEF ScoringIInv
<1>12. CASE ~ Participated
  <2>1. results = <<>>
    BY <1>1, <1>12 DEF ScoringIInv, Grading
  <2>2. DOMAIN rows = {} /\ rows = <<>>
    BY <1>5, <1>9, <2>1 DEF weights_and_scores
  <2>3. GradedRows(rows) = {}
    BY <2>2 DEF GradedRows
  <2>4. outcome.overall = NONE
    <3>1. outcome = aggregate(rows, FALSE)
      BY <1>6, <1>12 DEF Participated
    <3>2. aggregate(rows, FALSE) = Insufficient(0)
      BY <2>3 DEF aggregate
    <3>3. Insufficient(0).overall = NONE
      BY DEF Insufficient
    <3> QED BY <3>1, <3>2, <3>3
  <2>5. IsTheMean(rows, outcome.overall, outcome.coverage)
    BY <2>3 DEF IsTheMean
  <2>6. Scored'
    BY <1>1, <1>7, <1>8, <1>10, <2>2, <2>4, <2>5 DEF Scored
  <2> QED BY <1>2, <1>3, <1>4, <2>6 DEF ScoringIInv
<1> QED BY <1>11, <1>12

(* Rendering the candidate's report (reports/candidate.py).                *)
LEMMA RenderKeeps == ScoringIInv /\ render_candidate => ScoringIInv'
<1> SUFFICES ASSUME ScoringIInv, render_candidate PROVE ScoringIInv'
  OBVIOUS
<1>1. stage \in {"over", "grading", "graded"}
      /\ UNCHANGED <<stage, answer, plan, transcript, results, score, scorings>>
  BY DEF render_candidate
<1>2. PICK praise \in complete_structured(Praises) : feedback' = FeedbackOf(praise, transcript)
  BY DEF render_candidate
<1>3. Planned' /\ Held'
  BY <1>1, ScoringLeaves
<1>4. Grading'
  BY <1>1 DEF ScoringIInv, Grading, GradeOk, Cited, Participated
<1>5. Scored'
  BY <1>1 DEF ScoringIInv, Scored, GradeOk, Cited, Participated
<1>6. Praised'
  <2>1. CASE Silent(transcript) \/ praise = RAISED
    <3>1. feedback' = Apology
      BY <1>2, <2>1 DEF FeedbackOf
    <3>2. feedback'.strengths = <<>> /\ DOMAIN feedback'.strengths = {}
      BY <3>1 DEF Apology
    <3> QED BY <3>2 DEF Praised
  <2>2. CASE ~ (Silent(transcript) \/ praise = RAISED)
    <3> DEFINE vocabulary == Vocabulary(transcript)
               S == {k \in DOMAIN praise :
                       \/ Cardinality(praise[k].words) < MIN_STRENGTH_CONTENT_WORDS
                       \/ praise[k].words \cap vocabulary # {}}
    <3>1. feedback'.strengths = WithoutInvented(praise, vocabulary)
      BY <1>2, <2>2 DEF FeedbackOf
    <3>2. ~ Silent(transcript)' /\ Vocabulary(transcript)' = vocabulary
      BY <1>1, <2>2 DEF Silent, Vocabulary
    <3>3. CASE vocabulary = {}
      BY <3>2, <3>3 DEF Praised
    <3>4. CASE vocabulary # {}
      <4>1. feedback'.strengths = Pick(praise, S)
        BY <3>1, <3>4 DEF WithoutInvented
      <4>2. \E X : praise \in Seq(X)
        BY <2>2, ScoringAssumption DEF complete_structured
      <4>3. PICK X : praise \in Seq(X)
        BY <4>2
      <4>4. S \in SUBSET DOMAIN praise
        OBVIOUS
      <4>5. \A k \in S : \/ Cardinality(praise[k].words) < MIN_STRENGTH_CONTENT_WORDS
                         \/ praise[k].words \cap vocabulary # {}
        OBVIOUS
      <4> HIDE DEF S, vocabulary
      <4>6. /\ DOMAIN Pick(praise, S) = 1..Cardinality(S)
            /\ \A k \in 1..Cardinality(S) : Pick(praise, S)[k] = praise[Nth(S, k)] /\ Nth(S, k) \in S
        BY <4>3, <4>4, PickSeq
      <4>7. \A k \in DOMAIN feedback'.strengths :
              \/ Cardinality(feedback'.strengths[k].words) < MIN_STRENGTH_CONTENT_WORDS
              \/ feedback'.strengths[k].words \cap vocabulary # {}
        BY <4>1, <4>5, <4>6
      <4> QED BY <3>2, <4>7 DEF Praised
    <3> QED BY <3>3, <3>4
  <2> QED BY <2>1, <2>2
<1> QED BY <1>3, <1>4, <1>5, <1>6 DEF ScoringIInv

----------------------------------------------------------------------------
(* Every step keeps the invariant.                                         *)
LEMMA ScoringNextIInv == ScoringIInv /\ [ScoringNext]_scoringVars => ScoringIInv'
<1> SUFFICES ASSUME ScoringIInv, [ScoringNext]_scoringVars PROVE ScoringIInv'
  OBVIOUS
<1>1. CASE generate
  BY <1>1, GenerateKeeps
<1>2. CASE generate_repairs
  BY <1>2, RepairsKeeps
<1>3. CASE generate_raises
  BY <1>3, RaisesKeeps
<1>4. CASE Interviewed
  BY <1>4, InterviewedKeeps
<1>5. CASE score_begins
  BY <1>5, ScoreBeginsKeeps
<1>6. CASE score_criterion
  BY <1>6, CriterionKeeps
<1>7. CASE store
  BY <1>7, StoreKeeps
<1>8. CASE score_raises
  BY <1>8, RaiseKeeps
<1>9. CASE render_candidate
  BY <1>9, RenderKeeps
<1>11. CASE apply_generated
  BY <1>11, AppliedKeeps
<1>12. CASE apply_raises
  BY <1>12, UnappliedKeeps
<1>10. CASE UNCHANGED scoringVars
  <2>1. UNCHANGED <<stage, answer, plan, transcript, results, score, feedback>>
    BY <1>10 DEF scoringVars
  <2>2. Planned' /\ Held' /\ Praised'
    BY <2>1 DEF ScoringIInv, Planned, Held, Praised
  <2>3. Grading'
    BY <2>1 DEF ScoringIInv, Grading, GradeOk, Cited, Participated
  <2>4. Scored'
    BY <2>1 DEF ScoringIInv, Scored, GradeOk, Cited, Participated
  <2> QED BY <2>2, <2>3, <2>4 DEF ScoringIInv
<1> QED BY <1>1, <1>2, <1>3, <1>4, <1>5, <1>6, <1>7, <1>8, <1>9, <1>10, <1>11, <1>12 DEF ScoringNext

(* The invariant holds in every state reached.                             *)
LEMMA ScoringInvariance == ScoringSpec => []ScoringIInv
BY ScoringInitIInv, ScoringNextIInv, PTL DEF ScoringSpec

(* The invariant says of the plan what RubricSound asks.                   *)
LEMMA InvRubric == ScoringIInv => RubricSound
<1> SUFFICES ASSUME ScoringIInv, plan # NONE PROVE RubricSound
  BY DEF RubricSound
<1>1. PlanOk(plan) /\ stage # "planning"
  BY DEF ScoringIInv, Planned
<1>2. answer # NONE => RubricFollows(answer.reply.criteria, plan.criteria)
  <2> SUFFICES ASSUME answer # NONE
               PROVE  RubricFollows(answer.reply.criteria, plan.criteria)
    OBVIOUS
  <2>1. PICK reply \in Replies, resume \in BOOLEAN :
          /\ answer = [reply |-> reply, resume |-> resume]
          /\ RubricFollows(reply.criteria, plan.criteria)
    BY DEF ScoringIInv, Planned
  <2>2. answer.reply = reply
    BY <2>1
  <2> QED BY <2>1, <2>2
<1> QED BY <1>1, <1>2 DEF RubricSound, PlanOk

(* However badly the model counts and however finely, the rubric weighs    *)
(* exactly one, names no criterion twice, is what every kept tag refers    *)
(* to, and follows the reply's weights to the nearest ten-thousandth, but  *)
(* for the one that takes up the rounding (generator.py:76-219).           *)
THEOREM SoundRubric == ScoringSpec => []RubricSound
BY ScoringInvariance, InvRubric, PTL

(* The invariant says of the row and the praise what GradesRestOnSpeech    *)
(* asks.                                                                   *)
LEMMA InvSpeech == ScoringIInv => GradesRestOnSpeech
<1> SUFFICES ASSUME ScoringIInv PROVE GradesRestOnSpeech
  OBVIOUS
<1> DEFINE theirs == {q \in Quotes : Citable(transcript, q) # {}}
<1>1. \A i \in DOMAIN score.rows :
        /\ score.rows[i].score # NONE => score.rows[i].evidence # <<>>
        /\ \A k \in DOMAIN score.rows[i].evidence :
             LET cited == score.rows[i].evidence[k] IN
             /\ transcript[cited.turn_ordinal].speaker = "CANDIDATE"
             /\ cited.quote \in transcript[cited.turn_ordinal].says
  BY DEF ScoringIInv, Scored, GradeOk, Cited
<1>2. Silent(transcript) => feedback.strengths = <<>>
  BY DEF ScoringIInv, Praised
<1>3. \A x \in Vocabulary(transcript) : \E q \in theirs : x \in q.words
  <2> TAKE x \in Vocabulary(transcript)
  <2>1. PICK i, q :
          /\ i \in DOMAIN transcript /\ transcript[i].speaker = "CANDIDATE"
          /\ q \in transcript[i].says /\ x \in q.words
    BY DEF Vocabulary
  <2>2. transcript[i] \in Said
    BY <2>1 DEF ScoringIInv, Held
  <2>3. q \in Quotes
    BY <2>1, <2>2 DEF Said
  <2>4. i \in Citable(transcript, q)
    BY <2>1 DEF Citable
  <2> QED BY <2>1, <2>3, <2>4
<1>4. \A q \in theirs : q.words \subseteq Vocabulary(transcript)
  <2> TAKE q \in theirs
  <2>1. PICK i \in DOMAIN transcript : transcript[i].speaker = "CANDIDATE" /\ q \in transcript[i].says
    BY DEF Citable
  <2> QED BY <2>1 DEF Vocabulary
<1> HIDE DEF theirs
<1>5. \A k \in DOMAIN feedback.strengths :
        \/ Cardinality(feedback.strengths[k].words) < MIN_STRENGTH_CONTENT_WORDS
        \/ \E q \in theirs : q.words \cap feedback.strengths[k].words # {}
        \/ \A q \in theirs : q.words = {}
  <2> TAKE k \in DOMAIN feedback.strengths
  <2>1. \/ Vocabulary(transcript) = {}
        \/ Cardinality(feedback.strengths[k].words) < MIN_STRENGTH_CONTENT_WORDS
        \/ feedback.strengths[k].words \cap Vocabulary(transcript) # {}
    BY DEF ScoringIInv, Praised
  <2>2. CASE Vocabulary(transcript) = {}
    BY <1>4, <2>2
  <2>3. CASE feedback.strengths[k].words \cap Vocabulary(transcript) # {}
    BY <1>3, <2>3
  <2> QED BY <2>1, <2>2, <2>3
<1> QED BY <1>1, <1>2, <1>5 DEF GradesRestOnSpeech, theirs

(* Every stored grade, and the praise the candidate reads, rests on words  *)
(* the candidate said (rubric_scorer.py:125-158, 197-213;                  *)
(* reports/candidate.py:34-49).                                            *)
THEOREM GradesRest == ScoringSpec => []GradesRestOnSpeech
BY ScoringInvariance, InvSpeech, PTL

(* The invariant says of the number what OverallIsTheMean asks.            *)
LEMMA InvMean == ScoringIInv => OverallIsTheMean
BY DEF ScoringIInv, Scored, IsTheMean, OverallIsTheMean

(* The number on the row is the mean of the grades beside it, rounded to   *)
(* the nearest hundredth, and the coverage the share it rests on           *)
(* (aggregator.py:1-22, scoring/service.py:87-119).                        *)
THEOREM MeanOnTheRow == ScoringSpec => []OverallIsTheMean
BY ScoringInvariance, InvMean, PTL

(* The invariant says of the rows what RowsAreOneScoring asks.             *)
LEMMA InvRows == ScoringIInv => RowsAreOneScoring
BY DEF ScoringIInv, Scored, RowsAreOneScoring

(* The rows are one scoring's, whole, and a silent candidate has neither   *)
(* rows nor a number (scoring/service.py:1-9, scoring_tasks.py:155-178).   *)
THEOREM OneScoring == ScoringSpec => []RowsAreOneScoring
BY ScoringInvariance, InvRows, PTL

(* A part of a sum of naturals is at most the whole.                       *)
LEMMA SumOfPart ==
  ASSUME NEW S, IsFiniteSet(S), NEW f, \A i \in S : f[i] \in Nat, NEW G \in SUBSET S
  PROVE  SumFunctionOnSet(f, G) <= SumFunctionOnSet(f, S)
<1> DEFINE R == S \ G
           P(s) == SumFunctionOnSet(f, G) <= SumFunctionOnSet(f, G \cup s)
           Q == {s \in SUBSET R : P(s)}
<1>0. /\ IsFiniteSet(R)
      /\ \A s \in SUBSET S : IsFiniteSet(s) /\ SumFunctionOnSet(f, s) \in Int
  <2>1. \A i \in S : f[i] \in Int
    OBVIOUS
  <2>2. \A s \in SUBSET S : IsFiniteSet(s)
    BY FS_Subset
  <2> QED BY <2>1, <2>2, SumInt
<1>1. {} \in Q
  <2>1. G \cup {} = G
    OBVIOUS
  <2> QED BY <1>0, <2>1
<1>2. \A s \in SUBSET R : s # {} /\ s \ {First(s)} \in Q => s \in Q
  <2> SUFFICES ASSUME NEW s \in SUBSET R, s # {}, s \ {First(s)} \in Q
               PROVE  P(s)
    OBVIOUS
  <2> DEFINE c == First(s)
             r == s \ {c}
  <2>1. c \in s /\ c \in S /\ c \notin G
    BY DEF First
  <2>2. G \cup s \in SUBSET S /\ c \in G \cup s /\ (G \cup s) \ {c} = G \cup r
    BY <2>1
  <2>3. P(r)
    OBVIOUS
  <2>4. \A i \in S : f[i] \in Int
    OBVIOUS
  <2> HIDE DEF c, r, R, Q
  <2>5. SumFunctionOnSet(f, G \cup s) = f[c] + SumFunctionOnSet(f, (G \cup s) \ {c})
    BY <2>2, <2>4, SumRemove
  <2>6. SumFunctionOnSet(f, G \cup s) = f[c] + SumFunctionOnSet(f, G \cup r)
    BY <2>2, <2>5
  <2>7. SumFunctionOnSet(f, G \cup r) \in Int /\ SumFunctionOnSet(f, G) \in Int /\ f[c] \in Nat
    <3>1. G \cup r \in SUBSET S
      BY <2>2 DEF r
    <3> QED BY <1>0, <2>1, <3>1
  <2> QED BY <2>3, <2>6, <2>7
<1>3. \A s \in SUBSET R : s \in Q
  <2> HIDE DEF Q, R
  <2> QED BY <1>0, <1>1, <1>2, FoldInduction
<1>4. R \in Q
  <2> HIDE DEF Q, R
  <2> QED BY <1>3
<1>5. G \cup R = S
  OBVIOUS
<1> QED BY <1>4, <1>5

----------------------------------------------------------------------------
(* The types *)

(* A grade is in the band or none, with at most one citation.              *)
LEMMA GradedTyped ==
  ASSUME transcript \in Seq(Said),
         NEW verdict \in complete_structured({v \in Verdicts : InBand(v)})
  PROVE  GradedAs(verdict, transcript) \in Grades
<1> DEFINE e == verify_evidence(verdict.evidence, transcript)
           Citation == [quote : Quotes, turn_ordinal : DOMAIN transcript]
<1>1. Ungraded("failed") \in Grades /\ Ungraded("discarded") \in Grades
  BY DEF Ungraded, Grades
<1>2. CASE verdict = RAISED
  BY <1>1, <1>2 DEF GradedAs
<1>3. CASE verdict # RAISED
  <2>1. verdict \in Verdicts /\ InBand(verdict)
    BY <1>3 DEF complete_structured
  <2>2. verdict.score \in (Scores \cap (MIN_BAND..MAX_BAND)) \cup {NONE}
    BY <2>1 DEF InBand, Verdicts
  <2>3. verdict.evidence \in Seq(Quotes) /\ Len(verdict.evidence) <= 1
    <3>1. verdict.evidence = <<>> \/ \E q \in Quotes : verdict.evidence = <<q>>
      BY <2>1 DEF Verdicts
    <3>2. <<>> \in Seq(Quotes) /\ \A q \in Quotes : <<q>> \in Seq(Quotes)
      OBVIOUS
    <3>3. Len(<<>>) <= 1 /\ \A q \in Quotes : Len(<<q>>) <= 1
      OBVIOUS
    <3> QED BY <3>1, <3>2, <3>3
  <2>4. e \in Seq(Citation) /\ Len(e) <= Len(verdict.evidence)
    BY <2>3, VerifiedCited
  <2> HIDE DEF e
  <2>5. e \in {<<>>} \cup [1..1 -> Citation]
    <3> DEFINE v == verdict.evidence
               n == Len(e)
    <3>1. v \in Seq(Quotes) /\ Len(v) <= 1 /\ n <= Len(v)
      BY <2>3, <2>4
    <3> HIDE DEF Citation, v
    <3>2. n \in Nat /\ Len(v) \in Nat /\ e \in [1..n -> Citation]
      BY <2>4, <3>1
    <3>3. Len(e) = 0 => e = <<>>
      BY <2>4
    <3> HIDE DEF n
    <3>4. n = 0 \/ n = 1
      <4> DEFINE m == Len(v)
      <4>1. m \in Nat /\ m <= 1 /\ n <= m /\ n \in Nat
        BY <3>1, <3>2
      <4> HIDE DEF m
      <4> QED BY <4>1
    <3> QED BY <3>2, <3>3, <3>4 DEF n
  <2>6. [score |-> verdict.score, rationale |-> "model", evidence |-> e] \in Grades
    BY <2>2, <2>5 DEF Grades
  <2>7. GradedAs(verdict, transcript) = IF verdict.score # NONE /\ e = <<>> THEN Ungraded("discarded")
          ELSE [score |-> verdict.score, rationale |-> "model", evidence |-> e]
    BY <1>3 DEF GradedAs, e
  <2> QED BY <1>1, <2>6, <2>7
<1> QED BY <1>2, <1>3

OutcomeOk(outcome) ==
  /\ outcome.overall \in (MIN_BAND..MAX_BAND) \cup {NONE} /\ outcome.coverage \in 0..100
  /\ outcome.recommendation \in Bands
  /\ outcome.overall = NONE <=> outcome.recommendation = "INSUFFICIENT_EVIDENCE"

(* The number, the band and the coverage of a scoring's rows.              *)
LEMMA AggregateTyped ==
  ASSUME NEW rows, RowsOk(rows)
  PROVE  OutcomeOk(aggregate(rows, TRUE))
<1> DEFINE total == WeightOver(rows, DOMAIN rows)
           G == GradedRows(rows)
           coverage == HalfEven(100 * WeightOver(rows, G), total)
           out == aggregate(rows, TRUE)
<1>1. total = WEIGHT_SCALE /\ ~ (total <= 0) /\ total > 0
  BY DEF RowsOk, WEIGHT_SCALE
<1>2. NONE \notin Int
  BY ScoringAssumption
<1>3. CASE G = {}
  <2>1. out = [overall |-> MIN_BAND, recommendation |-> "NO_HIRE", coverage |-> 0]
    BY <1>1, <1>3 DEF aggregate
  <2> HIDE DEF out, coverage
  <2>2. out.overall = MIN_BAND /\ out.recommendation = "NO_HIRE" /\ out.coverage = 0
    BY <2>1
  <2>3. MIN_BAND \in MIN_BAND..MAX_BAND /\ MIN_BAND \in Int /\ "NO_HIRE" \in Bands
    BY DEF MIN_BAND, MAX_BAND, Bands
  <2>4. OutcomeOk(out)
    BY <1>2, <2>2, <2>3 DEF OutcomeOk
  <2> QED BY <2>4 DEF out
<1>4. CASE G # {}
  <2> DEFINE overall == Max({MIN_BAND, Min({MAX_BAND, Mean(rows)})})
  <2>1. out = [overall |-> overall, recommendation |-> band_for(overall), coverage |-> coverage]
    BY <1>1, <1>4 DEF aggregate
  <2>2. out.overall = overall /\ out.recommendation = band_for(overall) /\ out.coverage = coverage
    <3> HIDE DEF out, overall, coverage
    <3> QED BY <2>1
  <2>3. out.overall \in MIN_BAND..MAX_BAND
    BY <1>4, AggregateIsMean
  <2>4. coverage \in 0..100
    <3> DEFINE f == WeightsOf(rows)
               W == WeightOver(rows, G)
    <3>1. W = SumFunctionOnSet(f, G) /\ total = SumFunctionOnSet(f, DOMAIN rows)
      BY DEF WeightOver
    <3>2. \A i \in DOMAIN rows : f[i] \in Nat /\ f[i] > 0
      BY DEF RowsOk, WeightsOf
    <3>3. G \in SUBSET DOMAIN rows /\ IsFiniteSet(DOMAIN rows)
      BY DEF GradedRows, RowsOk
    <3>4. IsFiniteSet(G)
      BY <3>3, FS_Subset
    <3> HIDE DEF f, W, G, total
    <3>5. W <= total
      BY <3>1, <3>2, <3>3, SumOfPart
    <3>6. W \in Nat
      <4>1. PICK e \in G : TRUE
        BY <1>4
      <4>2. f[e] <= W /\ f[e] \in Nat
        BY <3>1, <3>2, <3>3, <3>4, <4>1, SumCovers
      <4>3. W \in Int
        <5>1. \A i \in G : f[i] \in Int
          BY <3>2, <3>3
        <5> QED BY <3>1, <3>4, <5>1, SumInt
      <4> QED BY <4>2, <4>3
    <3>7. total \in Nat /\ total > 0
      BY <1>1 DEF WEIGHT_SCALE
    <3>8. HalfEven(100 * W, total) \in Nat
          /\ 2 * total * HalfEven(100 * W, total) <= 2 * (100 * W) + total
      <4> DEFINE n == 100 * W
      <4>1. n \in Nat
        BY <3>6
      <4> HIDE DEF n
      <4>2. HalfEven(n, total) \in Nat /\ 2 * total * HalfEven(n, total) <= 2 * n + total
        BY <3>7, <4>1, HalfEvenNear
      <4> QED BY <4>2 DEF n
    <3> DEFINE h == HalfEven(100 * W, total)
    <3>9. h \in Nat /\ total * (2 * h) <= total * 201
      <4> HIDE DEF h
      <4>1. h \in Nat /\ 2 * total * h <= 200 * W + total
        BY <3>6, <3>8 DEF h
      <4>2. 2 * total * h = total * (2 * h)
        BY <3>7, <4>1
      <4> QED BY <3>5, <3>6, <3>7, <4>1, <4>2
    <3>10. 2 * h <= 201
      <4> HIDE DEF h
      <4>1. 2 * h \in Int /\ 201 \in Int
        BY <3>9
      <4> QED BY <3>7, <3>9, <4>1, Cancel
    <3>11. h \in 0..100
      <4> HIDE DEF h
      <4> QED BY <3>9, <3>10
    <3>12. coverage = h
      BY DEF W, total
    <3> HIDE DEF h, coverage
    <3> QED BY <3>11, <3>12
  <2>5. band_for(overall) \in Bands \ {"INSUFFICIENT_EVIDENCE"}
    BY DEF band_for, Bands
  <2>6. overall \in Int
    <3> HIDE DEF overall, out
    <3> QED BY <2>2, <2>3 DEF MIN_BAND, MAX_BAND
  <2> HIDE DEF overall, coverage, out
  <2>7. OutcomeOk(out)
    BY <1>2, <2>2, <2>3, <2>4, <2>5, <2>6 DEF OutcomeOk
  <2> QED BY <2>7 DEF out
<1> QED BY <1>3, <1>4

(* All the strengths of a reply are some of them.                          *)
LEMMA PickAll ==
  ASSUME NEW X, NEW s \in Seq(X)
  PROVE  Pick(s, DOMAIN s) = s
<1> DEFINE n == Len(s)
<1>1. n \in Nat /\ DOMAIN s = 1..n /\ s = [k \in 1..n |-> s[k]]
  OBVIOUS
<1> HIDE DEF n
<1>2. IsFiniteSet(1..n) /\ Cardinality(1..n) = n
  BY <1>1, PickSeq, FS_Interval
<1>3. \A k \in 1..n : Nth(1..n, k) = k
  <2> TAKE k \in 1..n
  <2>1. Nth(1..n, k) \in 1..n /\ Cardinality(Below(1..n, Nth(1..n, k))) = k - 1
    BY <1>1, <1>2, NthIn
  <2> DEFINE j == Nth(1..n, k)
  <2>2. j \in 1..n /\ k \in 1..n /\ j - 1 \in Int
    BY <1>1, <2>1
  <2>3. Below(1..n, j) = 1..(j - 1)
    <3> HIDE DEF j
    <3>1. \A i \in 1..n : i < j <=> i \in 1..(j - 1)
      BY <1>1, <2>2
    <3>2. \A i \in 1..(j - 1) : i \in 1..n
      BY <1>1, <2>2
    <3> QED BY <3>1, <3>2, Zenon DEF Below
  <2>4. Cardinality(1..(j - 1)) = j - 1
    <3> HIDE DEF j
    <3>1. Cardinality(1..(j - 1)) = IF 1 > j - 1 THEN 0 ELSE j - 1 - 1 + 1
      BY <2>2, FS_Interval
    <3> QED BY <1>1, <2>2, <3>1
  <2>5. j - 1 = k - 1
    BY <2>1, <2>3, <2>4
  <2> HIDE DEF j
  <2>6. j = k
    BY <1>1, <2>2, <2>5
  <2> QED BY <2>6 DEF j
<1> QED BY <1>1, <1>2, <1>3 DEF Pick

(* What is left of the types when the invariant has said its part.         *)
Ranges ==
  /\ answer \in [reply : Replies, resume : BOOLEAN] \cup {NONE} /\ scorings \in 0..MaxScorings
  /\ \A i \in DOMAIN results : results[i] \in Grades
  /\ score.status \in {"PENDING", "SCORING", "READY"} /\ OutcomeOk(score)
  /\ feedback \in Feedback
  /\ feedback.strengths # <<>> => feedback.summary = "model"

(* An outcome without a number says so.                                    *)
LEMMA NoOutcome ==
  ASSUME NEW outcome, outcome.overall = NONE, outcome.coverage = 0,
         outcome.recommendation = "INSUFFICIENT_EVIDENCE"
  PROVE  OutcomeOk(outcome)
BY DEF OutcomeOk, Bands

(* No strengths are some strengths, whoever wrote the summary.             *)
LEMMA NoStrengths == NoFeedback \in Feedback /\ Apology \in Feedback
BY DEF NoFeedback, Apology, Feedback

(* The ranges hold before the plan.                                        *)
LEMMA RangesInit == ScoringInit => Ranges
<1> SUFFICES ASSUME ScoringInit PROVE Ranges
  OBVIOUS
<1> USE DEF ScoringInit
<1>1. score = [status |-> "PENDING", rows |-> <<>>, overall |-> NONE,
               recommendation |-> "INSUFFICIENT_EVIDENCE", coverage |-> 0]
  BY DEF Unscored, Score, Insufficient
<1>2. /\ score.status = "PENDING" /\ score.overall = NONE /\ score.coverage = 0
      /\ score.recommendation = "INSUFFICIENT_EVIDENCE"
  BY <1>1
<1>3. OutcomeOk(score)
  BY <1>2, NoOutcome
<1>4. feedback \in Feedback /\ feedback.strengths = <<>>
  BY NoStrengths DEF NoFeedback
<1>5. answer = NONE /\ scorings \in 0..MaxScorings /\ DOMAIN results = {}
  BY ScoringAssumption
<1> QED BY <1>2, <1>3, <1>4, <1>5 DEF Ranges

(* The row a scoring writes has its number, its band and its coverage      *)
(* (scoring/service.py, store).                                            *)
LEMMA StoreRanges ==
  ASSUME ScoringIInv, Ranges, store
  PROVE  Ranges'
<1> USE DEF store
<1>1. PICK rows : rows = weights_and_scores
  OBVIOUS
<1>2. PICK outcome : outcome = aggregate(rows, Participated)
  OBVIOUS
<1>3. score' = [status |-> "READY", rows |-> rows, overall |-> outcome.overall,
                recommendation |-> outcome.recommendation, coverage |-> outcome.coverage]
  BY <1>1, <1>2 DEF Rows, Score
<1>4. /\ score'.status = "READY" /\ score'.overall = outcome.overall
      /\ score'.recommendation = outcome.recommendation /\ score'.coverage = outcome.coverage
  BY <1>3
<1>5. OutcomeOk(outcome)
  <2>1. CASE Participated
    <3>1. RowsOk(rows)
      BY <1>1, <2>1, StoredRowsOk
    <3> QED BY <1>2, <2>1, <3>1, AggregateTyped
  <2>2. CASE ~ Participated
    <3>1. results = <<>> /\ DOMAIN results = {}
      BY <2>2 DEF ScoringIInv, Grading
    <3>2. GradedRows(rows) = {}
      BY <1>1, <3>1 DEF weights_and_scores, GradedRows
    <3>3. outcome = aggregate(rows, FALSE)
      BY <1>2, <2>2 DEF Participated
    <3>4. aggregate(rows, FALSE) = Insufficient(0)
      BY <3>2 DEF aggregate
    <3>5. outcome = [overall |-> NONE, recommendation |-> "INSUFFICIENT_EVIDENCE", coverage |-> 0]
      BY <3>3, <3>4 DEF Insufficient
    <3>6. outcome.overall = NONE /\ outcome.coverage = 0
          /\ outcome.recommendation = "INSUFFICIENT_EVIDENCE"
      BY <3>5
    <3> QED BY <3>6, NoOutcome
  <2> QED BY <2>1, <2>2
<1>6. OutcomeOk(score')
  BY <1>4, <1>5 DEF OutcomeOk
<1>7. DOMAIN results' = {}
  OBVIOUS
<1> QED BY <1>4, <1>6, <1>7 DEF Ranges

(* A scoring begins, is abandoned or grades one more criterion.            *)
LEMMA BeginRanges ==
  ASSUME ScoringIInv, Ranges, score_begins
  PROVE  Ranges'
<1> USE DEF score_begins
<1>1. PICK state, rows, overall, recommendation, coverage :
        score = [status |-> state, rows |-> rows, overall |-> overall,
                 recommendation |-> recommendation, coverage |-> coverage]
  BY DEF ScoringIInv, Scored
<1>2. score' = [status |-> "SCORING", rows |-> rows, overall |-> overall,
                recommendation |-> recommendation, coverage |-> coverage]
  BY <1>1
<1>3. /\ score'.status = "SCORING" /\ score'.overall = score.overall
      /\ score'.recommendation = score.recommendation /\ score'.coverage = score.coverage
  BY <1>1, <1>2
<1>4. OutcomeOk(score')
  BY <1>3 DEF Ranges, OutcomeOk
<1>5. scorings' \in 0..MaxScorings
  BY ScoringAssumption DEF Ranges
<1>6. DOMAIN results' = {}
  OBVIOUS
<1> QED BY <1>3, <1>4, <1>5, <1>6 DEF Ranges

(* One more grade is a grade.                                              *)
LEMMA CriterionRanges ==
  ASSUME ScoringIInv, Ranges, score_criterion
  PROVE  Ranges'
<1> USE DEF score_criterion
<1>1. PICK verdict \in complete_structured({v \in Verdicts : InBand(v)}) :
        results' = Append(results, GradedAs(verdict, transcript))
  OBVIOUS
<1>2. PICK g : g = GradedAs(verdict, transcript)
  OBVIOUS
<1>3. g \in Grades /\ g \in Grades'
  BY <1>2, GradedTyped DEF ScoringIInv, Held, Grades
<1>4. PICK X : results \in Seq(X)
  BY DEF ScoringIInv, Grading
<1>5. results' = Append(results, g)
  BY <1>1, <1>2
<1>6. /\ Len(results) \in Nat /\ DOMAIN results = 1..Len(results)
      /\ DOMAIN results' = 1..(Len(results) + 1)
      /\ \A i \in 1..Len(results) : results'[i] = results[i]
      /\ results'[Len(results) + 1] = g
  BY <1>4, <1>5
<1>7. \A i \in DOMAIN results' : results'[i] \in Grades'
  <2> TAKE i \in DOMAIN results'
  <2>1. i = Len(results) + 1 \/ i \in DOMAIN results
    BY <1>6
  <2>2. \A j \in DOMAIN results : results[j] \in Grades'
    BY DEF Ranges, Grades
  <2> QED BY <1>3, <1>6, <2>1, <2>2
<1> QED BY <1>7 DEF Ranges, OutcomeOk

(* What a render writes is some of what the model praised, and only under  *)
(* the model's own summary (reports/candidate.py).                         *)
LEMMA RenderRanges ==
  ASSUME ScoringIInv, Ranges, render_candidate
  PROVE  Ranges'
<1>1. UNCHANGED <<stage, answer, plan, transcript, results, score, scorings>>
  BY DEF render_candidate
<1>2. PICK praise \in complete_structured(Praises) : feedback' = FeedbackOf(praise, transcript)
  BY DEF render_candidate
<1>3. feedback' \in Feedback /\ (feedback'.strengths # <<>> => feedback'.summary = "model")
  <2>1. CASE Silent(transcript) \/ praise = RAISED
    <3>1. feedback' = Apology
      BY <1>2, <2>1 DEF FeedbackOf
    <3> QED BY <3>1, NoStrengths DEF Apology
  <2>2. CASE ~ (Silent(transcript) \/ praise = RAISED)
    <3>1. PICK kept : kept = WithoutInvented(praise, Vocabulary(transcript))
      OBVIOUS
    <3>2. feedback' = [summary |-> "model", strengths |-> kept]
      BY <1>2, <2>2, <3>1 DEF FeedbackOf
    <3>3. praise \in Praises /\ praise \in Seq({praise[k] : k \in DOMAIN praise})
      BY <2>2, ScoringAssumption DEF complete_structured
    <3>4. \E S \in SUBSET DOMAIN praise : kept = Pick(praise, S)
      <4>1. CASE Vocabulary(transcript) = {}
        <5>1. kept = praise
          BY <3>1, <4>1 DEF WithoutInvented
        <5>2. Pick(praise, DOMAIN praise) = praise
          BY <3>3, PickAll
        <5> QED BY <5>1, <5>2
      <4>2. CASE Vocabulary(transcript) # {}
        BY <3>1, <4>2 DEF WithoutInvented
      <4> QED BY <4>1, <4>2
    <3>5. kept \in UNION {{Pick(p, S) : S \in SUBSET DOMAIN p} : p \in Praises}
      BY <3>3, <3>4
    <3> QED BY <3>2, <3>5 DEF Feedback
  <2> QED BY <2>1, <2>2
<1>4. \A i \in DOMAIN results' : results'[i] \in Grades'
  BY <1>1 DEF Ranges, Grades
<1> QED BY <1>1, <1>3, <1>4 DEF Ranges, OutcomeOk

(* Every step keeps the ranges.                                            *)
LEMMA RangesNext == ScoringIInv /\ Ranges /\ [ScoringNext]_scoringVars => Ranges'
<1> SUFFICES ASSUME ScoringIInv, Ranges, [ScoringNext]_scoringVars PROVE Ranges'
  OBVIOUS
<1>1. ASSUME UNCHANGED <<score, feedback, scorings>>,
             \A i \in DOMAIN results' : results'[i] \in Grades',
             answer' \in [reply : Replies, resume : BOOLEAN] \cup {NONE}
      PROVE  Ranges'
  BY <1>1 DEF Ranges, OutcomeOk
<1>2. CASE generate
  <2>1. PICK reply \in PlanReplies \ {RAISED}, resume \in BOOLEAN :
          answer' = [reply |-> reply, resume |-> resume]
    BY <1>2 DEF generate
  <2>2. reply \in Replies
    BY AcceptedReply
  <2>3. results = <<>>
    BY <1>2 DEF generate, ScoringIInv, Grading
  <2>4. DOMAIN results' = {}
    BY <1>2, <2>3 DEF generate
  <2> QED BY <1>1, <1>2, <2>1, <2>2, <2>4 DEF generate
<1>3. CASE generate_repairs
  <2>1. PICK reply \in PlanReplies \ {RAISED} : answer' = [answer EXCEPT !.reply = reply]
    BY <1>3 DEF generate_repairs
  <2>2. reply \in Replies
    BY AcceptedReply
  <2>3. /\ results = <<>>
        /\ \E old \in Replies, resume \in BOOLEAN : answer = [reply |-> old, resume |-> resume]
    BY <1>3 DEF generate_repairs, ScoringIInv, Grading, Planned
  <2>4. DOMAIN results' = {}
    BY <1>3, <2>3 DEF generate_repairs
  <2>5. answer' \in [reply : Replies, resume : BOOLEAN]
    BY <2>1, <2>2, <2>3
  <2> QED BY <1>1, <1>3, <2>4, <2>5 DEF generate_repairs
<1>4. CASE generate_raises
  <2>1. results = <<>>
    BY <1>4 DEF generate_raises, ScoringIInv, Grading
  <2>2. DOMAIN results' = {}
    BY <1>4, <2>1 DEF generate_raises
  <2> QED BY <1>1, <1>4, <2>2 DEF generate_raises
<1>5. CASE Interviewed
  <2>1. results = <<>>
    BY <1>5 DEF Interviewed, ScoringIInv, Grading
  <2>2. DOMAIN results' = {}
    BY <1>5, <2>1 DEF Interviewed
  <2> QED BY <1>1, <1>5, <2>2 DEF Interviewed
<1>12. CASE apply_generated
  <2>1. results = <<>>
    BY <1>12 DEF apply_generated, ScoringIInv, Grading
  <2>2. DOMAIN results' = {}
    BY <1>12, <2>1 DEF apply_generated
  <2> QED BY <1>1, <1>12, <2>2 DEF apply_generated, Ranges
<1>13. CASE apply_raises
  <2>1. results = <<>>
    BY <1>13 DEF apply_raises, ScoringIInv, Grading
  <2>2. DOMAIN results' = {}
    BY <1>13, <2>1 DEF apply_raises
  <2> QED BY <1>1, <1>13, <2>2 DEF apply_raises
<1>6. CASE score_begins
  BY <1>6, BeginRanges
<1>7. CASE score_criterion
  BY <1>7, CriterionRanges
<1>8. CASE store
  BY <1>8, StoreRanges
<1>9. CASE score_raises
  <2>1. DOMAIN results' = {}
    BY <1>9 DEF score_raises
  <2> QED BY <1>1, <1>9, <2>1 DEF score_raises, Ranges
<1>10. CASE render_candidate
  BY <1>10, RenderRanges
<1>11. CASE UNCHANGED scoringVars
  <2>1. \A i \in DOMAIN results' : results'[i] \in Grades'
    BY <1>11 DEF scoringVars, Ranges, Grades
  <2> QED BY <1>1, <1>11, <2>1 DEF scoringVars, Ranges
<1> QED BY <1>2, <1>3, <1>4, <1>5, <1>6, <1>7, <1>8, <1>9, <1>10, <1>11, <1>12, <1>13 DEF ScoringNext

(* The invariant and the ranges are the types.                             *)
LEMMA InvTypes == ScoringIInv /\ Ranges => ScoringTypeOK
<1> SUFFICES ASSUME ScoringIInv, Ranges PROVE ScoringTypeOK
  OBVIOUS
<1>1. stage # "planning" => PlanOk(plan) /\ plan # NONE
  <2> SUFFICES ASSUME stage # "planning" PROVE PlanOk(plan) /\ plan # NONE
    OBVIOUS
  <2>1. PlanOk(plan)
    BY DEF ScoringIInv, Planned
  <2>2. plan \in Plan
    <3>1. plan.criteria \in Seq(Criterion) /\ plan.questions \in Seq(Question)
          /\ plan = [criteria |-> plan.criteria, questions |-> plan.questions]
      BY <2>1 DEF PlanOk
    <3> QED BY <3>1 DEF Plan
  <2> QED BY <2>1, <2>2, ScoringAssumption
<1>2. stage = "planning" => plan = NONE
  BY DEF ScoringIInv, Planned
<1>3. plan # NONE =>
        /\ Len(plan.criteria) \in MIN_CRITERIA..MAX_CRITERIA
        /\ \A i \in DOMAIN plan.criteria : plan.criteria[i].weight \in 0..WEIGHT_SCALE
  <2> SUFFICES ASSUME plan # NONE
               PROVE  /\ Len(plan.criteria) \in MIN_CRITERIA..MAX_CRITERIA
                      /\ \A i \in DOMAIN plan.criteria : plan.criteria[i].weight \in 0..WEIGHT_SCALE
    OBVIOUS
  <2>1. PlanOk(plan)
    BY <1>1, <1>2
  <2> DEFINE c == plan.criteria
             f == WeightsOf(c)
  <2>2. c \in Seq(Criterion) /\ Total(c) = WEIGHT_SCALE
        /\ \A i \in DOMAIN c : c[i].weight \in Nat
    BY <2>1 DEF PlanOk
  <2>3. \A i \in DOMAIN c : f[i] = c[i].weight
    BY DEF WeightsOf
  <2>4. IsFiniteSet(DOMAIN c)
    <3> HIDE DEF c
    <3> QED BY <2>2, CriterionTyped
  <2>5. SumFunctionOnSet(f, DOMAIN c) = WEIGHT_SCALE
    <3> HIDE DEF c
    <3> QED BY <2>2, TotalTyped
  <2>6. \A i \in DOMAIN c : f[i] <= WEIGHT_SCALE
    <3> HIDE DEF c, f
    <3> QED BY <2>2, <2>3, <2>4, <2>5, SumCovers
  <2>7. \A i \in DOMAIN c : c[i].weight \in 0..WEIGHT_SCALE
    <3>1. \A B \in Nat, w \in Nat : w <= B => w \in 0..B
      OBVIOUS
    <3>2. WEIGHT_SCALE \in Nat
      BY DEF WEIGHT_SCALE
    <3> HIDE DEF c, f
    <3> TAKE i \in DOMAIN c
    <3>3. c[i].weight \in Nat
      BY <2>2
    <3>4. c[i].weight <= WEIGHT_SCALE
      BY <2>3, <2>6
    <3> QED BY <3>1, <3>2, <3>3, <3>4
  <2> QED BY <2>1, <2>7 DEF PlanOk
<1>4. stage \in {"planning", "repairing", "applying", "planned", "over", "grading", "graded"}
  BY DEF ScoringIInv, Planned
<1>5. plan # NONE /\ stage \notin {"repairing", "applying"} => Storable(plan.criteria)
  BY <1>2 DEF ScoringIInv, Planned
<1> QED BY <1>1, <1>2, <1>3, <1>4, <1>5 DEF ScoringTypeOK, Ranges, OutcomeOk

(* Every variable stays in its range: the stages of the pipeline, a rubric *)
(* of the size the schema asks for, a stored number and band that agree.   *)
THEOREM ScoringTypeCorrect == ScoringSpec => []ScoringTypeOK
<1>1. ScoringIInv /\ Ranges => ScoringTypeOK
  BY InvTypes
<1> QED BY <1>1, ScoringInvariance, RangesInit, RangesNext, PTL DEF ScoringSpec
=============================================================================
