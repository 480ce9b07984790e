----------------------------- MODULE Transcript -----------------------------
(***************************************************************************)
(* How what is said in an interview becomes its transcript: the observer   *)
(* that numbers the turns (modules/voice/observers.py), the checkpoint a   *)
(* rejoining call numbers on from (modules/interview/checkpoint.py and     *)
(* session_manager.py), the bus handler that records a turn                *)
(* (modules/interview/transcript.py) and the offline pass that corrects    *)
(* the text afterwards (modules/scoring/transcript_pass.py).               *)
(*                                                                         *)
(* The calls of one interview come one at a time: LiveIsRegistered of      *)
(* VoiceSession says when they do.  A text is abstracted to the call it    *)
(* was said in.                                                            *)
(***************************************************************************)
EXTENDS Integers, FiniteSets, FiniteSetsExt

CONSTANTS
  Calls,       \* the candidate's connections, the first and the rejoins
  Passes,      \* messages to the correction task
  MaxTurns,    \* bounds the turns of the interview
  MaxClock,    \* bounds the clock of a call
  MaxMishaps   \* bounds the crashes and the failures of Redis and the database

ASSUME TranscriptAssumption ==
  /\ MaxTurns \in Nat \ {0}
  /\ MaxClock \in Nat
  /\ MaxMishaps \in Nat

VARIABLES
  call,        \* the calls and their observers
  checkpoint,  \* the Redis snapshot: where the next turn would be numbered
  bus,         \* TurnCompleted events published and not yet handled
  turns,       \* the rows of interview_turns, by ordinal
  status,      \* the interview: live, its end announced, or over
  pass,        \* the correction task's deliveries
  mishaps,     \* how many of those there were
  emitted,     \* history: every turn ever published
  lost         \* history: the turns whose event or write was lost

vars == <<call, checkpoint, bus, turns, status, pass, mishaps, emitted, lost>>
-----------------------------------------------------------------------------
CANDIDATE == "CANDIDATE"

INTERVIEWER == "INTERVIEWER"

Speaker == {CANDIDATE, INTERVIEWER}

Ordinals == 0 .. MaxTurns - 1

Clock == 0 .. MaxClock

NotYet == -1

(* bot_started is when the reply that is being spoken began, and saving    *)
(* whether the checkpoint loop runs.                                       *)
Call == [phase : {"none", "live", "uploading", "over"}, superseded : BOOLEAN,
         ordinal : 0 .. MaxTurns, clock : Clock, bot_started : Clock \cup {NotYet},
         saving : BOOLEAN]

TurnCompleted == [call : Calls, ordinal : Ordinals, speaker : Speaker,
                  started : Clock, ended : Clock]

Turn == {row \in [content : Calls, corrected : BOOLEAN, speaker : Speaker,
                  started : Clock, ended : Clock, is_final : BOOLEAN] :
           row.ended >= row.started}

NoTurns == [o \in {} |-> 0]

NewCall == [phase |-> "none", superseded |-> FALSE, ordinal |-> 0, clock |-> 0,
            bot_started |-> NotYet, saving |-> FALSE]

EndedCall == [NewCall EXCEPT !.phase = "over"]

Init ==
  /\ call = [c \in Calls |-> NewCall]
  /\ checkpoint = NotYet
  /\ bus = {}
  /\ turns = NoTurns
  /\ status = "live"
  /\ pass = [p \in Passes |-> [state |-> "idle", read |-> NoTurns, heard |-> {}]]
  /\ mishaps = 0
  /\ emitted = {} /\ lost = {}

Mishap == mishaps < MaxMishaps /\ mishaps' = mishaps + 1
-----------------------------------------------------------------------------
(* The observer.                                                           *)

(* A turn is numbered by the observer and timed since its call began.  The *)
(* guard bounds the turns.                                                 *)
_emit(c, speaker, started, now) ==
  LET turn == [call |-> c, ordinal |-> call[c].ordinal, speaker |-> speaker,
               started |-> started, ended |-> now]
  IN  /\ Cardinality(emitted) < MaxTurns
      /\ bus' = bus \cup {turn}
      /\ emitted' = emitted \cup {turn}

Counted(observer, now) == [observer EXCEPT !.ordinal = @ + 1, !.clock = now]

Later(c) == call[c].clock .. MaxClock

(* A TranscriptionFrame: one utterance, stamped when it was understood.    *)
CandidateSaid(c) ==
  /\ call[c].phase = "live"
  /\ \E now \in Later(c) :
       /\ _emit(c, CANDIDATE, now, now)
       /\ call' = [call EXCEPT ![c] = Counted(@, now)]
  /\ UNCHANGED <<checkpoint, turns, status, pass, mishaps, lost>>

(* The first TTSTextFrame of a reply.                                      *)
ReplyBegins(c) ==
  /\ call[c].phase = "live" /\ call[c].bot_started = NotYet
  /\ \E now \in Later(c) : call' = [call EXCEPT ![c].clock = now, ![c].bot_started = now]
  /\ UNCHANGED <<checkpoint, bus, turns, status, pass, mishaps, emitted, lost>>

(* The reply becomes a turn, and the call goes on in its next phase.       *)
flush_bot_turn(c, next) ==
  IF call[c].bot_started = NotYet
  THEN /\ call' = [call EXCEPT ![c] = next]
       /\ UNCHANGED <<bus, emitted>>
  ELSE \E now \in Later(c) :
         /\ _emit(c, INTERVIEWER, call[c].bot_started, now)
         /\ call' = [call EXCEPT ![c] = [Counted(next, now) EXCEPT !.bot_started = NotYet]]

(* BotStoppedSpeakingFrame.                                                *)
ReplyOver(c) ==
  /\ call[c].phase = "live" /\ call[c].bot_started # NotYet
  /\ flush_bot_turn(c, call[c])
  /\ UNCHANGED <<checkpoint, turns, status, pass, mishaps, lost>>
-----------------------------------------------------------------------------
(* The call.                                                               *)

next_ordinal == IF turns = NoTurns THEN 0 ELSE Max(DOMAIN turns) + 1

(* Mutant: a rejoin numbers on from the rows alone.                        *)
resume_from_rows == next_ordinal

(* No checkpoint, and one that says 0, fall back to the rows.              *)
resume_from == IF checkpoint > 0 THEN checkpoint ELSE next_ordinal

(* An offer; the call it replaces has been finalised by then.              *)
start(c) ==
  /\ call[c].phase = "none" /\ status # "over"
  /\ \A d \in Calls : call[d].phase \in {"none", "over"}
  /\ call' = [call EXCEPT ![c].phase = "live", ![c].saving = TRUE,
                          ![c].ordinal = resume_from]
  /\ UNCHANGED <<checkpoint, bus, turns, status, pass, mishaps, emitted, lost>>

(* What the loop saved last is what the checkpoint says.                   *)
Unsaved(c) ==
  /\ call[c].phase = "live" /\ call[c].saving
  /\ call[c].ordinal # checkpoint

_checkpoint_loop(c) ==
  /\ Unsaved(c)
  /\ checkpoint' = call[c].ordinal
  /\ UNCHANGED <<call, bus, turns, status, pass, mishaps, emitted, lost>>

(* Redis fails a save: the loop's task ends, and nothing starts another.   *)
save_raises(c) ==
  /\ Unsaved(c) /\ Mishap
  /\ call' = [call EXCEPT ![c].saving = FALSE]
  /\ UNCHANGED <<checkpoint, bus, turns, status, pass, emitted, lost>>

(* The pipeline returns: the loop is cancelled, _finalise flushes and goes *)
(* on to the upload.                                                       *)
_run(c, superseded) ==
  /\ call[c].phase = "live"
  /\ flush_bot_turn(c, [call[c] EXCEPT !.phase = "uploading", !.superseded = superseded])
  /\ UNCHANGED <<checkpoint, turns, status, pass, mishaps, lost>>

(* The rest of _finalise: a replaced call leaves its checkpoint.           *)
_finalise(c) ==
  /\ call[c].phase = "uploading"
  /\ IF call[c].superseded THEN UNCHANGED <<checkpoint, status>>
     ELSE /\ checkpoint' = NotYet
          /\ status' = IF status = "live" THEN "announced" ELSE status
  /\ call' = [call EXCEPT ![c] = EndedCall]
  /\ UNCHANGED <<bus, turns, pass, mishaps, emitted, lost>>

(* Clearing the checkpoint fails: it stays, and no end is announced.       *)
finalise_raises(c) ==
  /\ call[c].phase = "uploading" /\ ~call[c].superseded
  /\ Mishap
  /\ call' = [call EXCEPT ![c] = EndedCall]
  /\ UNCHANGED <<checkpoint, bus, turns, status, pass, emitted, lost>>

(* The interview service hears of the end, and sets the correction off.    *)
InterviewCloses ==
  /\ status = "announced"
  /\ status' = "over"
  /\ UNCHANGED <<call, checkpoint, bus, turns, pass, mishaps, emitted, lost>>

(* The process dies with its calls and what the bus held.                  *)
ApiCrash ==
  /\ Mishap
  /\ call' = [c \in Calls |-> IF call[c].phase = "none" THEN NewCall ELSE EndedCall]
  /\ bus' = {}
  /\ lost' = lost \cup bus
  /\ status' = IF status = "announced" THEN "live" ELSE status
  /\ UNCHANGED <<checkpoint, turns, pass, emitted>>
-----------------------------------------------------------------------------
(* The bus handler.                                                        *)

With(row, o) == [x \in DOMAIN turns \cup {o} |-> IF x = o THEN row ELSE turns[x]]

Inserted(e) ==
  With([content |-> e.call, corrected |-> FALSE, speaker |-> e.speaker,
        started |-> e.started, ended |-> e.ended, is_final |-> FALSE], e.ordinal)

(* ON CONFLICT: the speaker and the start stay those of the row.           *)
Updated(e) ==
  With([turns[e.ordinal] EXCEPT !.content = e.call, !.corrected = FALSE,
                                !.ended = e.ended], e.ordinal)

(* Mutant: without the check of is_final.                                  *)
record_turn_replayed(e) ==
  IF e.ordinal \notin DOMAIN turns THEN Inserted(e) ELSE Updated(e)

record_turn(e) ==
  IF e.ordinal \notin DOMAIN turns THEN Inserted(e)
  ELSE IF turns[e.ordinal].is_final THEN turns ELSE Updated(e)

(* The table's constraint offsets_ordered.                                 *)
offsets_ordered(rows) == \A o \in DOMAIN rows : rows[o].ended >= rows[o].started

_on_turn_completed(e) ==
  /\ e \in bus
  /\ bus' = bus \ {e}
  /\ offsets_ordered(record_turn(e))
  /\ turns' = record_turn(e)
  /\ UNCHANGED <<call, checkpoint, status, pass, mishaps, emitted, lost>>

(* The write violates the constraint, or the database fails it.            *)
turn_raises(e) ==
  /\ e \in bus
  /\ bus' = bus \ {e}
  /\ lost' = lost \cup {e}
  /\ \/ ~offsets_ordered(record_turn(e)) /\ UNCHANGED mishaps
     \/ Mishap
  /\ UNCHANGED <<call, checkpoint, turns, status, pass, emitted>>
-----------------------------------------------------------------------------
(* The correction task, delivered at least once.  Between its read and its *)
(* commit lie the download and the decoding of the recording.              *)

correct_reads(p) ==
  /\ pass[p].state # "decoding" /\ status = "over" /\ turns # NoTurns
  /\ pass' = [pass EXCEPT ![p] = [state |-> "decoding", read |-> turns, heard |-> {}]]
  /\ UNCHANGED <<call, checkpoint, bus, turns, status, mishaps, emitted, lost>>

(* transcribe: the turns whose span holds enough decoded words, none of    *)
(* them if the recording, the model or the decoding fails.                 *)
transcribe(rows) == SUBSET DOMAIN rows

(* Mutant: both speakers are corrected, whether final or not.              *)
reconcile_all(rows, heard) == {o \in heard : rows[o].ended > rows[o].started}

reconcile(rows, heard) ==
  {o \in heard : /\ rows[o].speaker = CANDIDATE /\ ~rows[o].is_final
                 /\ rows[o].ended > rows[o].started}

apply(p, heard) ==
  LET corrections == reconcile(pass[p].read, heard)
  IN  [o \in DOMAIN turns |->
        [turns[o] EXCEPT !.corrected = @ \/ o \in corrections,
                         !.is_final = @ \/ o \in corrections \/ turns[o].speaker = CANDIDATE]]

correct_commits(p) ==
  /\ pass[p].state = "decoding"
  /\ \E heard \in transcribe(pass[p].read) :
       /\ turns' = apply(p, heard)
       /\ pass' = [pass EXCEPT ![p] = [state |-> "idle", read |-> NoTurns, heard |-> heard]]
  /\ UNCHANGED <<call, checkpoint, bus, status, mishaps, emitted, lost>>

(* Nothing was decoded, or the task raised.                                *)
correct_skips(p) ==
  /\ pass[p].state = "decoding"
  /\ pass' = [pass EXCEPT ![p].state = "idle", ![p].read = NoTurns]
  /\ UNCHANGED <<call, checkpoint, bus, turns, status, mishaps, emitted, lost>>
-----------------------------------------------------------------------------
CallNext(c) ==
  \/ CandidateSaid(c) \/ ReplyBegins(c) \/ ReplyOver(c)
  \/ start(c) \/ _checkpoint_loop(c) \/ save_raises(c)
  \/ \E superseded \in BOOLEAN : _run(c, superseded)
  \/ _finalise(c) \/ finalise_raises(c)

Next ==
  \/ \E c \in Calls : CallNext(c)
  \/ \E e \in bus : _on_turn_completed(e) \/ turn_raises(e)
  \/ InterviewCloses \/ ApiCrash
  \/ \E p \in Passes : correct_reads(p) \/ correct_commits(p) \/ correct_skips(p)

Spec == Init /\ [][Next]_vars
-----------------------------------------------------------------------------
TypeOK ==
  /\ call \in [Calls -> Call]
  /\ checkpoint \in {NotYet} \cup 0 .. MaxTurns
  /\ bus \cup lost \subseteq emitted /\ emitted \subseteq TurnCompleted
  /\ DOMAIN turns \subseteq Ordinals /\ \A o \in DOMAIN turns : turns[o] \in Turn
  /\ status \in {"live", "announced", "over"}
  /\ \A p \in Passes : /\ pass[p].state \in {"idle", "decoding"}
                        /\ pass[p].heard \subseteq DOMAIN turns
  /\ mishaps \in 0 .. MaxMishaps
-----------------------------------------------------------------------------

(* A number that the checkpoint has passed is never given to another turn. *)
CheckpointedNumbersStand ==
  [][\A e \in emitted' \ emitted : e.ordinal >= checkpoint]_vars

(* A turn whose number no other call used stands in the transcript as it   *)
(* was published, unless its event is under way or was lost; nobody but the*)
(* candidate is ever corrected.                                            *)
UncontestedTurnsRecorded ==
  \A e \in emitted \ (bus \cup lost) :
    (\A f \in emitted : f.ordinal = e.ordinal => f.call = e.call) =>
      /\ e.ordinal \in DOMAIN turns
      /\ LET row == turns[e.ordinal]
         IN  /\ <<row.content, row.speaker, row.started, row.ended>>
                  = <<e.call, e.speaker, e.started, e.ended>>
             /\ row.corrected => e.speaker = CANDIDATE

(* The delivery p of the correction was decoding since before turn o was   *)
(* final, and commits.                                                     *)
CommitsUnaware(p, o) ==
  /\ pass[p].state = "decoding" /\ pass'[p].state = "idle"
  /\ o \in DOMAIN pass[p].read /\ ~pass[p].read[o].is_final

(* What the correction has made final no late event changes, and no        *)
(* delivery of the correction that read the turn as final.  One that read  *)
(* it before may correct the candidate's words, and changes no more.       *)
FinalTurnsStand ==
  [][\A o \in DOMAIN turns : turns[o].is_final =>
       /\ o \in DOMAIN turns'
       /\ \/ turns'[o] = turns[o]
          \/ /\ turns[o].speaker = CANDIDATE
             /\ turns'[o] = [turns[o] EXCEPT !.corrected = TRUE]
             /\ \E p \in Passes : CommitsUnaware(p, o)]_vars

=============================================================================
