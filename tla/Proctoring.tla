----------------------------- MODULE Proctoring -----------------------------
(***************************************************************************)
(* The proctoring of one interview: the event sockets                      *)
(* (app/api/v1/proctoring.py) with their counters and rules                *)
(* (app/modules/proctoring/collector.py, rules.py), the acoustic signals   *)
(* (voice_signals.py) and the verdict on all of it (verdict.py).           *)
(*                                                                         *)
(* A candidate may have several sockets open.  A socket counts in memory   *)
(* what it records and primes its counts from the stored events when it    *)
(* opens.  An event is one transaction, which also terminates the          *)
(* interview if the policy says so; any error in it closes the socket.     *)
(*                                                                         *)
(* An event's payload is left out.                                         *)
(***************************************************************************)
EXTENDS Naturals, Sequences, FiniteSets

CONSTANTS
  Sockets,       \* connections
  Types,         \* the event types of this instance
  Policies,      \* the policies the job may have
  MaxEvents      \* bound: events ever recorded

ReportedTypes == {"TAB_BLUR", "FULLSCREEN_EXIT", "PASTE", "DEVTOOLS_OPEN", "TAB_FOCUS",
                  "WINDOW_RESIZE", "COPY", "FACE_FRAME"}

DerivedTypes == {"SECOND_SPEAKER", "ANOMALOUS_SILENCE"}

Policy == [blur_limit : Nat, fullscreen_required : BOOLEAN, paste_blocked : BOOLEAN,
           auto_terminate : BOOLEAN]

ASSUME ProctoringAssumption ==
  /\ MaxEvents \in Nat
  /\ Types \subseteq ReportedTypes \cup DerivedTypes
  /\ Policies \subseteq Policy

VARIABLES
  policy,      \* the policy of the interview's job
  interview,   \* "live", "over", or "terminated" by a socket
  events,      \* the stored events, in the order of their commits
  socket,      \* the connections
  history      \* what the properties need to know of the past

vars == <<policy, interview, events, socket, history>>
-----------------------------------------------------------------------------
(* Rules.                                                                  *)

Severity == {"INFO", "WARN", "CRITICAL"}

NoWorse(severity, than) ==
  severity = than \/ severity = "INFO" \/ than = "CRITICAL"

Event == [type : Types, severity : Severity]

NoEvent == [type |-> "none", severity |-> "INFO"]

Count(log, type) == Cardinality({k \in 1 .. Len(log) : log[k].type = type})

Graded(log, severity) == Cardinality({k \in 1 .. Len(log) : log[k].severity = severity})

(* The severity of a type that does not depend on how often it happened.   *)
BASE_SEVERITY(type) ==
  CASE type = "SECOND_SPEAKER" -> "CRITICAL"
    [] type = "DEVTOOLS_OPEN" -> "WARN"
    [] OTHER -> "INFO"

Escalating == {"TAB_BLUR", "FULLSCREEN_EXIT", "PASTE"}

severity_for(type, prior, thresholds) ==
  LET occurrence == prior + 1
      limit == thresholds.blur_limit
  IN  CASE type \notin Escalating -> BASE_SEVERITY(type)
        [] type = "TAB_BLUR" -> IF occurrence <= limit THEN "INFO"
                                ELSE IF occurrence > limit * 2 THEN "CRITICAL" ELSE "WARN"
        [] type = "FULLSCREEN_EXIT" -> IF ~thresholds.fullscreen_required THEN "INFO"
                                       ELSE IF occurrence = 1 THEN "WARN" ELSE "CRITICAL"
        [] OTHER -> IF thresholds.paste_blocked THEN "WARN" ELSE "INFO"

should_terminate(severity, thresholds) == thresholds.auto_terminate /\ severity = "CRITICAL"
-----------------------------------------------------------------------------
(* The verdict: worst last.                                                *)

Verdicts == <<"NO_DATA", "CLEAN", "SUSPICIOUS", "FLAGGED">>

FLAG_ON_WARNINGS == 4

(* Mutant: warnings are weighed against everything that was reported.      *)
assess_by_share(log) ==
  IF Len(log) = 0 THEN 1
  ELSE IF Graded(log, "CRITICAL") >= 1 \/ Graded(log, "WARN") >= FLAG_ON_WARNINGS THEN 4
  ELSE IF 2 * Graded(log, "WARN") >= Len(log) THEN 3 ELSE 2

(* What kind of verdict, as its place in Verdicts.                         *)
assess(log) ==
  IF Len(log) = 0 THEN 1
  ELSE IF Graded(log, "CRITICAL") >= 1 \/ Graded(log, "WARN") >= FLAG_ON_WARNINGS THEN 4
  ELSE IF Graded(log, "WARN") >= 1 THEN 3 ELSE 2
-----------------------------------------------------------------------------
NoThresholds == [blur_limit |-> 0, fullscreen_required |-> FALSE, paste_blocked |-> FALSE,
                 auto_terminate |-> FALSE]

Closed == [step |-> "closed", thresholds |-> NoThresholds, counts |-> [type \in Types |-> 0],
           event |-> NoEvent]

Socket == [step : {"closed", "open", "recording", "terminating", "committing"},
           thresholds : Policies \cup {NoThresholds}, counts : [Types -> 0 .. MaxEvents],
           event : Event \cup {NoEvent}]

Connected(s) == socket[s].step # "closed"

Init ==
  /\ policy \in Policies
  /\ interview = "live"
  /\ events = <<>>
  /\ socket = [s \in Sockets |-> Closed]
  /\ history = [parallel |-> FALSE, edited |-> FALSE, struck |-> FALSE]

(* upsert_policy: sockets that are open do not hear of it.                 *)
upsert_policy ==
  /\ ~history.edited
  /\ policy' \in Policies \ {policy}
  /\ history' = [history EXCEPT !.edited = TRUE]
  /\ UNCHANGED <<interview, events, socket>>

(* The session ends, a recruiter terminates it, or the reaper expires it.  *)
InterviewEnds ==
  /\ interview = "live"
  /\ interview' = "over"
  /\ UNCHANGED <<policy, events, socket, history>>
-----------------------------------------------------------------------------
(* A socket.                                                               *)

(* Mutant: a connection starts counting from nothing.                      *)
connect_unprimed(s) ==
  /\ ~Connected(s) /\ interview = "live"
  /\ socket' = [socket EXCEPT ![s] = [Closed EXCEPT !.step = "open", !.thresholds = policy]]
  /\ history' = [history EXCEPT !.parallel = @ \/ \E r \in Sockets : Connected(r)]
  /\ UNCHANGED <<policy, interview, events>>

connect(s) ==
  /\ ~Connected(s) /\ interview = "live"
  /\ socket' = [socket EXCEPT ![s] = [Closed EXCEPT !.step = "open", !.thresholds = policy,
                                        !.counts = [type \in Types |-> Count(events, type)]]]
  /\ history' = [history EXCEPT !.parallel = @ \/ \E r \in Sockets : Connected(r)]
  /\ UNCHANGED <<policy, interview, events>>

Disconnected(s) == socket' = [socket EXCEPT ![s] = Closed]

(* The sockets whose event is written and not committed.                   *)
Flushed == {s \in Sockets : socket[s].event # NoEvent}

(* What a browser sends: a type, and whether the limiter lets it through.  *)
Message == [type : Types, allowed : BOOLEAN]

(* The types a client may report; any other is nothing at all.             *)
parse_event_type(type) == {type} \cap ReportedTypes

(* What a message comes to: one event or, rejected, none.                  *)
Accepted(message) == IF message.allowed THEN parse_event_type(message.type) ELSE {}

(* record: counted at once, flushed, not committed yet.                    *)
record(s, type) ==
  LET prior == socket[s].counts[type]
      severity == severity_for(type, prior, socket[s].thresholds)
  IN  /\ socket[s].step = "open"
      /\ Len(events) + Cardinality(Flushed) < MaxEvents
      /\ socket' = [socket EXCEPT ![s].counts[type] = prior + 1,
                                  ![s].event = [type |-> type, severity |-> severity],
                                  ![s].step = IF should_terminate(severity,
                                                                  socket[s].thresholds)
                                              THEN "terminating" ELSE "recording"]
      /\ UNCHANGED <<policy, interview, events, history>>

Stores(s) == Append(events, socket[s].event)

record_commits(s) ==
  /\ socket[s].step = "recording"
  /\ events' = Stores(s)
  /\ socket' = [socket EXCEPT ![s].step = "open", ![s].event = NoEvent]
  /\ UNCHANGED <<policy, interview, history>>

terminate_reads(s) ==
  /\ socket[s].step = "terminating" /\ interview = "live"
  /\ socket' = [socket EXCEPT ![s].step = "committing"]
  /\ UNCHANGED <<policy, interview, events, history>>

(* An interview that is over raises, and the event goes with the           *)
(* transaction.                                                            *)
terminate_raises(s) ==
  /\ socket[s].step = "terminating" /\ interview # "live"
  /\ history' = [history EXCEPT !.struck = TRUE]
  /\ Disconnected(s)
  /\ UNCHANGED <<policy, interview, events>>

(* Mutant: the evidence is committed first, the interview ended next.      *)
terminate_after_commit(s) ==
  /\ socket[s].step = "committing"
  /\ events' = Stores(s)
  /\ history' = [history EXCEPT !.struck = TRUE]
  /\ socket' = [socket EXCEPT ![s].step = "terminating", ![s].event = NoEvent]
  /\ UNCHANGED <<policy, interview>>

(* Mutant: the interview is ended first, the evidence committed next.      *)
terminate_before_commit(s) ==
  /\ socket[s].step = "committing"
  /\ interview' = "terminated"
  /\ socket' = [socket EXCEPT ![s].step = "recording"]
  /\ UNCHANGED <<policy, events, history>>

(* The evidence and the end are one commit.                                *)
terminate(s) ==
  /\ socket[s].step = "committing"
  /\ events' = Stores(s)
  /\ interview' = "terminated"
  /\ history' = [history EXCEPT !.struck = TRUE]
  /\ Disconnected(s)
  /\ UNCHANGED policy

(* The candidate leaves, the database fails or the process dies: what is   *)
(* not committed is rolled back and the counts are gone.                   *)
SocketCloses(s) ==
  /\ Connected(s)
  /\ Disconnected(s)
  /\ UNCHANGED <<policy, interview, events, history>>
-----------------------------------------------------------------------------
(* Acoustic signals.                                                       *)

MIN_UTTERANCES_FOR_SECOND_SPEAKER == 2

(* Two diarized speakers and how many words each produced: the one with    *)
(* more is the candidate.                                                  *)
assess_speakers(words) ==
  LET other == IF words[1] < words[2] THEN words[1] ELSE words[2]
  IN  other >= MIN_UTTERANCES_FOR_SECOND_SPEAKER

(* What the call reports of an utterance: who spoke how many words, and    *)
(* whether the pause before it was a long one (assess_silence).            *)
VoiceSignal == [words : (1 .. 2) \X (1 .. 2), silent : BOOLEAN]

(* _on_voice_signal: its findings are one transaction and end nothing.     *)
_on_voice_signal(signal) ==
  LET findings == (IF assess_speakers(signal.words)
                   THEN <<[type |-> "SECOND_SPEAKER", severity |-> "CRITICAL"]>> ELSE <<>>)
                  \o (IF signal.silent
                      THEN <<[type |-> "ANOMALOUS_SILENCE", severity |-> "INFO"]>> ELSE <<>>)
  IN  /\ DerivedTypes \subseteq Types
      /\ findings # <<>>
      /\ Len(events) + Cardinality(Flushed) + Len(findings) <= MaxEvents
      /\ events' = events \o findings
      /\ UNCHANGED <<policy, interview, socket, history>>
-----------------------------------------------------------------------------
SocketNext(s) ==
  \/ connect(s) \/ SocketCloses(s)
  \/ \E message \in Message : \E type \in Accepted(message) : record(s, type)
  \/ record_commits(s)
  \/ terminate_reads(s) \/ terminate_raises(s) \/ terminate(s)

Next ==
  \/ upsert_policy \/ InterviewEnds
  \/ \E s \in Sockets : SocketNext(s)
  \/ \E signal \in VoiceSignal : _on_voice_signal(signal)

Spec == Init /\ [][Next]_vars
-----------------------------------------------------------------------------
TypeOK ==
  /\ policy \in Policies
  /\ interview \in {"live", "over", "terminated"}
  /\ events \in Seq(Event) /\ Len(events) <= MaxEvents
  /\ socket \in [Sockets -> Socket]
  /\ history \in [parallel : BOOLEAN, edited : BOOLEAN, struck : BOOLEAN]

(* The severity that an event's place in the record calls for.             *)
Due(k) == severity_for(events[k].type, Count(SubSeq(events, 1, k - 1), events[k].type), policy)

(* Parallel sockets, reconnections and failed writes may delay what a      *)
(* candidate's conduct amounts to; none of them makes it look worse than   *)
(* its place in the record calls for.  With one socket at a time it is     *)
(* just that: reconnecting does not start the count over.                  *)
EscalationIsExact ==
  ~history.edited =>
    \A k \in 1 .. Len(events) :
      /\ NoWorse(events[k].severity, Due(k))
      /\ ~history.parallel => events[k].severity = Due(k)

(* No interview is terminated by a socket without evidence in the record   *)
(* that warrants it, whatever failed or raced.                             *)
TerminationHasEvidence ==
  interview = "terminated" => \E k \in 1 .. Len(events) : events[k].severity = "CRITICAL"

(* With automatic termination on, a critical event that a socket has dealt *)
(* with leaves the interview over: it is not stored and then forgotten.    *)
CriticalEndsIt == history.struck => interview # "live"

(* Evidence is only ever added, and more of it never takes a suspicion     *)
(* back.  NO_DATA ranks below CLEAN not as the milder finding, a browser   *)
(* that reports nothing is notable, but as the one that any event ends.    *)
VerdictOnlyWorsens == [][assess(events') >= assess(events)]_vars

=============================================================================
