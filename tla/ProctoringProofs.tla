-------------------------- MODULE ProctoringProofs --------------------------
(***************************************************************************)
(* Proofs about Proctoring, for any sockets, event types, policies and     *)
(* number of events.                                                       *)
(*                                                                         *)
(* The argument.  A severity is decided from a socket's count and stored   *)
(* later, after whatever other sockets stored meanwhile.  Counted says     *)
(* that a socket has never counted more than the record and its own        *)
(* pending event hold, and severity_for only grows with the count: so an   *)
(* event is never worse than its place.  With one socket at a time the     *)
(* count is exact.  Appending moves no event that is there, so what is     *)
(* due to it stays.                                                        *)
(***************************************************************************)
EXTENDS Proctoring, FiniteSetTheorems, SequenceTheorems, TLAPS

Writing == {"recording", "terminating", "committing"}

(* There is room for what is flushed.                                      *)
Room == IsFiniteSet(Flushed) /\ Len(events) + Cardinality(Flushed) <= MaxEvents

(* A socket that writes has one event of a reported type, and one that     *)
(* terminates a critical one.                                              *)
Pending ==
  \A s \in Sockets :
    /\ socket[s].step \in Writing =>
         socket[s].event \in Event /\ socket[s].event.type \in ReportedTypes
    /\ socket[s].step \notin Writing => socket[s].event = NoEvent
    /\ socket[s].step \in {"terminating", "committing"} => socket[s].event.severity = "CRITICAL"

(* Open sockets have the policy, unless it was edited since.               *)
PolicyKnown ==
  \A s \in Sockets : Connected(s) =>
    /\ socket[s].thresholds \in Policies
    /\ ~history.edited => socket[s].thresholds = policy

OneAtATime == ~history.parallel => \A r, s \in Sockets : Connected(r) /\ Connected(s) => r = s

(* Stored, or about to be by this socket.                                  *)
Recorded(s, type) ==
  Count(events, type) + (IF socket[s].event.type = type THEN 1 ELSE 0)

Counted ==
  \A s \in Sockets, type \in Types : Connected(s) =>
    /\ socket[s].counts[type] <= Recorded(s, type)
    /\ ~history.parallel /\ type \in ReportedTypes => socket[s].counts[type] = Recorded(s, type)

(* A pending event has the severity its place in the socket's count calls  *)
(* for.                                                                    *)
PendingGraded ==
  \A s \in Sockets : socket[s].step \in Writing =>
    /\ socket[s].counts[socket[s].event.type] >= 1
    /\ socket[s].event.severity =
         severity_for(socket[s].event.type, socket[s].counts[socket[s].event.type] - 1,
                      socket[s].thresholds)

IInv ==
  /\ TypeOK /\ Room /\ Pending /\ PolicyKnown /\ OneAtATime /\ Counted /\ PendingGraded
  /\ EscalationIsExact /\ TerminationHasEvidence /\ CriticalEndsIt
-----------------------------------------------------------------------------
(* Counting in a log, and what an event more does.                         *)

(* An event more at the end of a log.                                      *)
LEMMA AppendIs ==
  ASSUME NEW log \in Seq(Event), NEW e \in Event
  PROVE  /\ Append(log, e) \in Seq(Event)
         /\ Len(log) \in Nat /\ Len(Append(log, e)) = Len(log) + 1
         /\ \A k \in 1 .. Len(log) : Append(log, e)[k] = log[k]
         /\ Append(log, e)[Len(log) + 1] = e
BY LenProperties, AppendProperties

(* A log holds at most as many events of a type as it holds events.        *)
LEMMA CountInLen ==
  ASSUME NEW log \in Seq(Event), NEW type
  PROVE  /\ Count(log, type) \in 0 .. Len(log)
         /\ IsFiniteSet({k \in 1 .. Len(log) : log[k].type = type})
<1> DEFINE n == Len(log)
           those == {k \in 1 .. n : log[k].type = type}
<1>1. n \in Nat
  BY LenProperties
<1>2. IsFiniteSet(1 .. n) /\ Cardinality(1 .. n) = n
  BY <1>1, FS_Interval
<1>3. IsFiniteSet(those) /\ Cardinality(those) <= n
  BY <1>2, FS_Subset
<1>4. Cardinality(those) \in 0 .. n
  BY <1>1, <1>3, FS_CardinalityType
<1> QED
  BY <1>3, <1>4 DEF Count

(* Events of a type are counted one by one.                                *)
LEMMA CountGrows ==
  ASSUME NEW log \in Seq(Event), NEW e \in Event, NEW type
  PROVE  /\ Count(log, type) \in 0 .. Len(log)
         /\ Count(Append(log, e), type) = Count(log, type) + (IF e.type = type THEN 1 ELSE 0)
<1> DEFINE n == Len(log)
           old == {k \in 1 .. n : log[k].type = type}
           new == {k \in 1 .. n + 1 : Append(log, e)[k].type = type}
<1>1. n \in Nat /\ Len(Append(log, e)) = n + 1
  BY AppendIs
<1>2. IsFiniteSet(old) /\ Cardinality(old) \in 0 .. n
  BY CountInLen DEF Count
<1>3. new = old \cup (IF e.type = type THEN {n + 1} ELSE {})
  BY <1>1, AppendIs
<1>4. n + 1 \notin old
  BY <1>1
<1> HIDE DEF old, new
<1>5. Cardinality(new) = Cardinality(old) + (IF e.type = type THEN 1 ELSE 0)
  <2>1. CASE e.type = type
    <3>1. new = old \cup {n + 1}
      BY <1>3, <2>1
    <3> QED
      BY <1>2, <1>4, <2>1, <3>1, FS_AddElement
  <2>2. CASE e.type # type
    <3>1. new = old
      BY <1>3, <2>2
    <3> QED
      BY <1>2, <2>2, <3>1
  <2> QED
    BY <2>1, <2>2
<1> QED
  BY <1>1, <1>2, <1>5 DEF Count, n, old, new

(* Events of a severity are never fewer than they were.                    *)
LEMMA GradedGrows ==
  ASSUME NEW log \in Seq(Event), NEW e \in Event, NEW severity
  PROVE  /\ Graded(log, severity) \in Nat /\ Graded(Append(log, e), severity) \in Nat
         /\ Graded(Append(log, e), severity) >= Graded(log, severity)
<1> DEFINE n == Len(log)
           old == {k \in 1 .. n : log[k].severity = severity}
           new == {k \in 1 .. n + 1 : Append(log, e)[k].severity = severity}
<1>1. n \in Nat /\ Len(Append(log, e)) = n + 1
  BY AppendIs
<1>2. old \subseteq new /\ new \subseteq 1 .. n + 1
  BY <1>1, AppendIs
<1>3. IsFiniteSet(new)
  <2>1. IsFiniteSet(1 .. n + 1)
    BY <1>1, FS_Interval
  <2> QED
    BY <1>2, <2>1, FS_Subset
<1>4. IsFiniteSet(old) /\ Cardinality(old) <= Cardinality(new)
  BY <1>2, <1>3, FS_Subset
<1>5. Cardinality(old) \in Nat /\ Cardinality(new) \in Nat
  BY <1>3, <1>4, FS_CardinalityType
<1> QED
  BY <1>1, <1>4, <1>5 DEF Graded

(* What went before an event is not touched by what comes after.           *)
LEMMA PrefixStays ==
  ASSUME NEW log \in Seq(Event), NEW e \in Event
  PROVE  /\ \A k \in 1 .. Len(log) :
              SubSeq(Append(log, e), 1, k - 1) = SubSeq(log, 1, k - 1)
         /\ SubSeq(Append(log, e), 1, Len(log)) = log
<1>1. /\ Append(log, e) \in Seq(Event) /\ Len(log) \in Nat
      /\ \A k \in 1 .. Len(log) : Append(log, e)[k] = log[k] /\ log[k] \in Event
  BY AppendIs, ElementOfSeq
<1>2. ASSUME NEW n \in 0 .. Len(log)
      PROVE  SubSeq(Append(log, e), 1, n) = SubSeq(log, 1, n)
  <2> DEFINE a == SubSeq(Append(log, e), 1, n)
             b == SubSeq(log, 1, n)
  <2>1. \A k \in 1 .. n : Append(log, e)[k] \in Event /\ log[k] \in Event
    BY <1>1
  <2>2. a \in Seq(Event) /\ Len(a) = n /\ \A k \in 1 .. n : a[k] = Append(log, e)[k]
    BY <2>1, SubSeqProperties
  <2>3. b \in Seq(Event) /\ Len(b) = n /\ \A k \in 1 .. n : b[k] = log[k]
    BY <2>1, SubSeqProperties
  <2>4. \A k \in 1 .. Len(a) : a[k] = b[k]
    BY <1>1, <2>2, <2>3
  <2> HIDE DEF a, b
  <2> QED
    BY <2>2, <2>3, <2>4, SeqEqual DEF a, b
<1> QED
  BY <1>1, <1>2, SubSeqFull

(* The more often it happened before, the worse it is (rules.py).          *)
LEMMA SeverityGrows ==
  ASSUME NEW type, NEW thresholds \in Policy, NEW p \in Nat, NEW q \in Nat, p <= q
  PROVE  NoWorse(severity_for(type, p, thresholds), severity_for(type, q, thresholds))
<1>1. thresholds.blur_limit \in Nat
  BY DEF Policy
<1>2. CASE type \notin Escalating
  BY <1>2 DEF severity_for, NoWorse
<1>3. CASE type = "TAB_BLUR"
  BY <1>1, <1>3 DEF severity_for, NoWorse, Escalating
<1>4. CASE type = "FULLSCREEN_EXIT"
  BY <1>4 DEF severity_for, NoWorse, Escalating
<1>5. CASE type = "PASTE"
  BY <1>5 DEF severity_for, NoWorse, Escalating
<1> QED
  BY <1>2, <1>3, <1>4, <1>5 DEF Escalating

(* Whatever is due is a severity.                                          *)
LEMMA SeverityTyped ==
  ASSUME NEW type, NEW thresholds, NEW p
  PROVE  severity_for(type, p, thresholds) \in Severity
BY DEF severity_for, BASE_SEVERITY, Severity, Escalating

(* What is due to an event of a log, and that each has at most that.       *)
DueIn(log, k, p) == severity_for(log[k].type, Count(SubSeq(log, 1, k - 1), log[k].type), p)

Fair(log, p, parallel) ==
  \A k \in 1 .. Len(log) :
    /\ NoWorse(log[k].severity, DueIn(log, k, p))
    /\ ~parallel => log[k].severity = DueIn(log, k, p)

(* A log stays fair that gets an event with what is due to it, or less.    *)
LEMMA FairGrows ==
  ASSUME NEW log \in Seq(Event), NEW e \in Event, NEW p, NEW parallel,
         Fair(log, p, parallel),
         NoWorse(e.severity, severity_for(e.type, Count(log, e.type), p)),
         ~parallel => e.severity = severity_for(e.type, Count(log, e.type), p)
  PROVE  Fair(Append(log, e), p, parallel)
<1>1. \A k \in 1 .. Len(log) :
        Append(log, e)[k] = log[k] /\ DueIn(Append(log, e), k, p) = DueIn(log, k, p)
  BY AppendIs, PrefixStays DEF DueIn
<1>2. PICK a, n : a = Append(log, e) /\ n = Len(log) + 1
  OBVIOUS
<1>3. DueIn(a, n, p) = severity_for(e.type, Count(log, e.type), p)
  <2>1. n - 1 = Len(log) /\ a[n] = e
    BY <1>2, AppendIs
  <2>2. SubSeq(a, 1, n - 1) = log
    BY <1>2, <2>1, PrefixStays
  <2> QED
    BY <2>1, <2>2 DEF DueIn
<1>4. ASSUME NEW k \in 1 .. Len(Append(log, e))
      PROVE  /\ NoWorse(Append(log, e)[k].severity, DueIn(Append(log, e), k, p))
             /\ ~parallel => Append(log, e)[k].severity = DueIn(Append(log, e), k, p)
  <2>1. k \in 1 .. Len(log) \/ k = Len(log) + 1
    BY AppendIs
  <2>2. CASE k \in 1 .. Len(log)
    BY <1>1, <2>2 DEF Fair
  <2>3. CASE k = Len(log) + 1
    BY <1>2, <1>3, <2>3, AppendIs
  <2> QED
    BY <2>1, <2>2, <2>3
<1> QED
  BY <1>4 DEF Fair

(* EscalationIsExact is that the record is fair, as long as the policy     *)
(* stands.                                                                 *)
LEMMA ExactIsFair == EscalationIsExact <=> (~history.edited => Fair(events, policy, history.parallel))
BY DEF EscalationIsExact, Due, Fair, DueIn

(* More evidence never makes the verdict milder (verdict.py).              *)
LEMMA AssessGrows ==
  ASSUME NEW log \in Seq(Event), NEW e \in Event
  PROVE  /\ assess(log) \in 1 .. 4 /\ assess(Append(log, e)) \in 1 .. 4
         /\ assess(Append(log, e)) >= assess(log)
<1>1. Len(log) \in Nat /\ Len(Append(log, e)) = Len(log) + 1
  BY AppendIs
<1>2. \A severity : /\ Graded(log, severity) \in Nat /\ Graded(Append(log, e), severity) \in Nat
                    /\ Graded(Append(log, e), severity) >= Graded(log, severity)
  BY GradedGrows
<1> QED
  BY <1>1, <1>2 DEF assess, FLAG_ON_WARNINGS-----------------------------------------------------------------------------
(* The sockets.                                                            *)

(* A closed socket has no event in hand.                                   *)
LEMMA ClosedTyped ==
  /\ Closed \in Socket /\ Closed.step = "closed" /\ Closed.event = NoEvent
BY ProctoringAssumption DEF Closed, Socket

(* No event is of no type.                                                 *)
LEMMA NoEventIsNone == NoEvent \notin Event /\ \A type \in Types : NoEvent.type # type
BY ProctoringAssumption DEF NoEvent, Event, ReportedTypes, DerivedTypes

(* Who has flushed an event is about to commit it.                         *)
LEMMA FlushedIsWriting ==
  ASSUME Pending
  PROVE  Flushed = {s \in Sockets : socket[s].step \in Writing}
BY NoEventIsNone DEF Pending, Flushed

(* The flags of the history.                                               *)
LEMMA HistoryTyped ==
  ASSUME TypeOK
  PROVE  /\ \A b \in BOOLEAN : [history EXCEPT !.parallel = b]
              \in [parallel : BOOLEAN, edited : BOOLEAN, struck : BOOLEAN]
         /\ [history EXCEPT !.edited = TRUE]
              \in [parallel : BOOLEAN, edited : BOOLEAN, struck : BOOLEAN]
         /\ [history EXCEPT !.struck = TRUE]
              \in [parallel : BOOLEAN, edited : BOOLEAN, struck : BOOLEAN]
BY DEF TypeOK

(* Nothing about the sockets or the record changes: the policy is edited,  *)
(* or the interview ends.                                                  *)
LEMMA AroundKeeps ==
  ASSUME IInv, upsert_policy \/ InterviewEnds
  PROVE  IInv'
<1>1. events' = events /\ socket' = socket
  BY DEF upsert_policy, InterviewEnds
<1>2. /\ history'.parallel = history.parallel /\ history'.struck = history.struck
      /\ \/ history'.edited
         \/ history'.edited = history.edited /\ policy' = policy
      /\ history' \in [parallel : BOOLEAN, edited : BOOLEAN, struck : BOOLEAN]
  BY DEF upsert_policy, InterviewEnds, IInv, TypeOK
<1>3. TypeOK'
  BY <1>1, <1>2 DEF upsert_policy, InterviewEnds, IInv, TypeOK
<1>4. Room' /\ Pending' /\ PendingGraded'
  BY <1>1 DEF IInv, Room, Flushed, Pending, PendingGraded
<1>5. PolicyKnown' /\ OneAtATime'
  BY <1>1, <1>2 DEF IInv, PolicyKnown, OneAtATime, Connected
<1>6. Counted'
  BY <1>1, <1>2 DEF IInv, Counted, Recorded, Connected
<1>7. EscalationIsExact'
  BY <1>1, <1>2 DEF IInv, EscalationIsExact, Due
<1>8. TerminationHasEvidence' /\ CriticalEndsIt'
  BY <1>1, <1>2 DEF upsert_policy, InterviewEnds, IInv, TerminationHasEvidence, CriticalEndsIt
<1> QED
  BY <1>3, <1>4, <1>5, <1>6, <1>7, <1>8 DEF IInv

(* A socket that closes, or the one that struck too late, leaves nothing.  *)
LEMMA DisconnectKeeps ==
  ASSUME IInv, NEW s \in Sockets, SocketCloses(s) \/ terminate_raises(s)
  PROVE  IInv'
<1>1. /\ events' = events /\ policy' = policy /\ interview' = interview
      /\ socket' = [socket EXCEPT ![s] = Closed]
  BY DEF SocketCloses, terminate_raises, Disconnected
<1>2. \A r \in Sockets : socket'[r] = IF r = s THEN Closed ELSE socket[r]
  BY <1>1 DEF IInv, TypeOK
<1>3. /\ history'.parallel = history.parallel /\ history'.edited = history.edited
      /\ history'.struck => interview # "live"
      /\ history' \in [parallel : BOOLEAN, edited : BOOLEAN, struck : BOOLEAN]
  BY HistoryTyped DEF SocketCloses, terminate_raises, IInv, TypeOK, CriticalEndsIt
<1>4. TypeOK'
  BY <1>1, <1>3, ClosedTyped DEF IInv, TypeOK
<1>5. Room'
  <2>1. Flushed' \subseteq Flushed
    BY <1>2, ClosedTyped DEF Flushed
  <2>2. IsFiniteSet(Flushed') /\ Cardinality(Flushed') <= Cardinality(Flushed)
    BY <2>1, FS_Subset DEF IInv, Room
  <2>3. Cardinality(Flushed') \in Nat /\ Cardinality(Flushed) \in Nat /\ Len(events) \in Nat
    BY <2>2, FS_CardinalityType, LenProperties DEF IInv, Room, TypeOK
  <2> QED
    BY <1>1, <2>2, <2>3, ProctoringAssumption DEF IInv, Room
<1>6. Pending' /\ PendingGraded'
  BY <1>2, ClosedTyped DEF IInv, Pending, PendingGraded, Writing
<1>7. PolicyKnown' /\ OneAtATime'
  BY <1>1, <1>2, <1>3, ClosedTyped DEF IInv, PolicyKnown, OneAtATime, Connected
<1>8. Counted'
  BY <1>1, <1>2, <1>3, ClosedTyped DEF IInv, Counted, Recorded, Connected
<1>9. EscalationIsExact' /\ TerminationHasEvidence' /\ CriticalEndsIt'
  BY <1>1, <1>3 DEF IInv, EscalationIsExact, Due, TerminationHasEvidence, CriticalEndsIt
<1> QED
  BY <1>4, <1>5, <1>6, <1>7, <1>8, <1>9 DEF IInv

(* A connection counts what the record holds and knows the policy.         *)
LEMMA ConnectKeeps ==
  ASSUME IInv, NEW s \in Sockets, connect(s)
  PROVE  IInv'
<1>1. events' = events /\ policy' = policy /\ interview' = interview /\ ~Connected(s)
  BY DEF connect
<1>2. events \in Seq(Event) /\ Len(events) \in Nat /\ Len(events) <= MaxEvents
  BY LenProperties DEF IInv, TypeOK
<1>3. \A type : Count(events, type) \in 0 .. MaxEvents
  <2> TAKE type
  <2>1. Count(events, type) \in 0 .. Len(events)
    BY <1>2, CountInLen
  <2> QED
    BY <1>2, <2>1, ProctoringAssumption
<1>4. PICK counts : counts = [type \in Types |-> Count(events, type)]
  OBVIOUS
<1>5. PICK x : /\ x = [Closed EXCEPT !.step = "open", !.thresholds = policy, !.counts = counts]
               /\ socket' = [socket EXCEPT ![s] = x]
  BY <1>4 DEF connect
<1>6. /\ x \in Socket /\ x.step = "open" /\ x.thresholds = policy /\ x.event = NoEvent
      /\ \A type \in Types : x.counts[type] = Count(events, type)
  <2>1. counts \in [Types -> 0 .. MaxEvents] /\ policy \in Policies
    BY <1>3, <1>4 DEF IInv, TypeOK
  <2> QED
    BY <1>4, <1>5, <2>1, ClosedTyped DEF Closed, Socket
<1>7. \A r \in Sockets : socket'[r] = IF r = s THEN x ELSE socket[r]
  BY <1>5 DEF IInv, TypeOK
<1>8. /\ history'.parallel = (history.parallel \/ \E r \in Sockets : Connected(r))
      /\ history'.edited = history.edited /\ history'.struck = history.struck
      /\ history' \in [parallel : BOOLEAN, edited : BOOLEAN, struck : BOOLEAN]
  <2>1. PICK b \in BOOLEAN : b = (history.parallel \/ \E r \in Sockets : Connected(r))
    OBVIOUS
  <2>2. history' = [history EXCEPT !.parallel = b]
    BY <2>1 DEF connect
  <2> QED
    BY <2>1, <2>2, HistoryTyped DEF IInv, TypeOK
<1>9. TypeOK'
  BY <1>1, <1>5, <1>6, <1>8 DEF IInv, TypeOK
<1>10. Room'
  <2>1. socket[s].event = NoEvent
    BY <1>1 DEF Connected, IInv, Pending, Writing
  <2>2. Flushed' = Flushed
    BY <1>6, <1>7, <2>1 DEF Flushed
  <2> QED
    BY <1>1, <2>2 DEF IInv, Room
<1>11. Pending' /\ PendingGraded'
  BY <1>6, <1>7 DEF IInv, Pending, PendingGraded, Writing
<1>12. PolicyKnown' /\ OneAtATime'
  <2>1. policy \in Policies
    BY DEF IInv, TypeOK
  <2>2. PolicyKnown'
    BY <1>1, <1>6, <1>7, <1>8, <2>1 DEF IInv, PolicyKnown, Connected
  <2>3. ~history'.parallel => \A r \in Sockets \ {s} : socket'[r].step = "closed"
    BY <1>7, <1>8 DEF Connected
  <2> QED
    BY <2>2, <2>3 DEF OneAtATime, Connected
<1>13. Counted'
  <2> SUFFICES ASSUME NEW r \in Sockets, NEW type \in Types, socket'[r].step # "closed"
               PROVE  LET there == Count(events, type)
                                   + (IF socket'[r].event.type = type THEN 1 ELSE 0)
                      IN  /\ socket'[r].counts[type] <= there
                          /\ ~history'.parallel /\ type \in ReportedTypes
                             => socket'[r].counts[type] = there
    BY <1>1 DEF Counted, Recorded, Connected
  <2>1. CASE r = s
    BY <1>3, <1>6, <1>7, <2>1, NoEventIsNone
  <2>2. CASE r # s
    BY <1>7, <1>8, <2>2 DEF IInv, Counted, Recorded, Connected
  <2> QED
    BY <2>1, <2>2
<1>14. EscalationIsExact'
  BY <1>1, <1>8 DEF IInv, EscalationIsExact, Due
<1>15. TerminationHasEvidence' /\ CriticalEndsIt'
  BY <1>1, <1>8 DEF IInv, TerminationHasEvidence, CriticalEndsIt
<1> QED
  BY <1>9, <1>10, <1>11, <1>12, <1>13, <1>14, <1>15 DEF IInv
(* An event is counted and graded by the count before it.                  *)
LEMMA RecordKeeps ==
  ASSUME IInv, NEW s \in Sockets, NEW type \in Types \cap ReportedTypes, record(s, type)
  PROVE  IInv'
<1>1. PICK c \in Socket : c = socket[s]
  BY DEF IInv, TypeOK
<1>2. /\ c.step = "open" /\ c.event = NoEvent /\ c.counts \in [Types -> 0 .. MaxEvents]
      /\ c.thresholds \in Policies
      /\ Len(events) + Cardinality(Flushed) < MaxEvents
      /\ events' = events /\ policy' = policy /\ interview' = interview /\ history' = history
  BY <1>1 DEF record, Socket, IInv, Pending, Writing, PolicyKnown, Connected
<1>3. PICK prior \in 0 .. MaxEvents : prior = c.counts[type]
  BY <1>2
<1>4. PICK severity \in Severity : severity = severity_for(type, prior, c.thresholds)
  BY SeverityTyped
<1>5. events \in Seq(Event) /\ Len(events) \in Nat /\ IsFiniteSet(Flushed)
      /\ Cardinality(Flushed) \in Nat
  BY LenProperties, FS_CardinalityType DEF IInv, TypeOK, Room
<1>6. prior <= Count(events, type) /\ Count(events, type) \in 0 .. Len(events)
      /\ (~history.parallel => prior = Count(events, type))
  <2>1. Recorded(s, type) = Count(events, type) + 0
    BY <1>1, <1>2, NoEventIsNone DEF Recorded
  <2>2. Count(events, type) \in 0 .. Len(events)
    BY <1>5, CountInLen
  <2>3. Recorded(s, type) = Count(events, type)
    BY <2>1, <2>2
  <2> QED
    BY <1>1, <1>2, <1>3, <2>2, <2>3 DEF IInv, Counted, Connected
<1>7. PICK e \in Event : e = [type |-> type, severity |-> severity]
  BY DEF Event
<1>8. PICK counts \in [Types -> 0 .. MaxEvents] : counts = [c.counts EXCEPT ![type] = prior + 1]
  <2>1. prior + 1 \in 0 .. MaxEvents
    BY <1>2, <1>5, <1>6, ProctoringAssumption
  <2>2. [c.counts EXCEPT ![type] = prior + 1] \in [Types -> 0 .. MaxEvents]
    BY <1>2, <2>1
  <2> QED
    BY <2>2
<1>9. PICK step \in {"recording", "terminating"} :
        step = IF should_terminate(severity, c.thresholds) THEN "terminating" ELSE "recording"
  OBVIOUS
<1>10. PICK x : /\ x = [c EXCEPT !.counts = counts, !.event = e, !.step = step]
                /\ socket' = [socket EXCEPT ![s] = x]
  <2>1. PICK y : /\ socket' = [socket EXCEPT ![s] = y]
                 /\ y = [c EXCEPT !.counts[type] = prior + 1, !.event = e, !.step = step]
    BY <1>1, <1>3, <1>4, <1>7, <1>9 DEF record
  <2>2. y = [c EXCEPT !.counts = counts, !.event = e, !.step = step]
    BY <1>8, <2>1
  <2> QED
    BY <2>1, <2>2
<1>11. /\ x \in Socket /\ x.step = step /\ x.event = e /\ x.counts = counts
       /\ x.thresholds = c.thresholds
  BY <1>10 DEF Socket
<1>12. \A r \in Sockets : socket'[r] = IF r = s THEN x ELSE socket[r]
  BY <1>10 DEF IInv, TypeOK
<1>13. e # NoEvent /\ e.type = type /\ e.severity = severity
  BY <1>7, NoEventIsNone
<1>14. TypeOK'
  BY <1>2, <1>10, <1>11 DEF IInv, TypeOK
<1>15. Room'
  <2>1. Flushed' = Flushed \cup {s} /\ s \notin Flushed
    BY <1>1, <1>2, <1>11, <1>12, <1>13 DEF Flushed
  <2>2. IsFiniteSet(Flushed') /\ Cardinality(Flushed') = Cardinality(Flushed) + 1
    BY <1>5, <2>1, FS_AddElement
  <2> QED
    BY <1>2, <1>5, <2>2, ProctoringAssumption DEF Room
<1>16. Pending'
  <2>1. step = "terminating" => severity = "CRITICAL"
    BY <1>9 DEF should_terminate
  <2> QED
    BY <1>11, <1>12, <1>13, <2>1 DEF IInv, Pending, Writing
<1>17. PendingGraded'
  <2>1. counts[type] = prior + 1 /\ prior \in Nat
    BY <1>2, <1>8
  <2>2. counts[type] >= 1 /\ counts[type] - 1 = prior
    BY <2>1
  <2>3. ASSUME NEW r \in Sockets, socket'[r].step \in Writing
        PROVE  /\ socket'[r].counts[socket'[r].event.type] >= 1
               /\ socket'[r].event.severity =
                    severity_for(socket'[r].event.type,
                                 socket'[r].counts[socket'[r].event.type] - 1,
                                 socket'[r].thresholds)
    <3>1. CASE r = s
      <4>1. socket'[r] = x
        BY <1>12, <3>1
      <4> QED
        BY <1>4, <1>11, <1>13, <2>2, <4>1
    <3>2. CASE r # s
      BY <1>12, <2>3, <3>2 DEF IInv, PendingGraded
    <3> QED
      BY <3>1, <3>2
  <2> QED
    BY <2>3 DEF PendingGraded
<1>18. PolicyKnown' /\ OneAtATime'
  BY <1>1, <1>2, <1>9, <1>11, <1>12 DEF IInv, PolicyKnown, OneAtATime, Connected
<1>19. Counted'
  <2> SUFFICES ASSUME NEW r \in Sockets, NEW kind \in Types, socket'[r].step # "closed"
               PROVE  LET there == Count(events, kind)
                                   + (IF socket'[r].event.type = kind THEN 1 ELSE 0)
                      IN  /\ socket'[r].counts[kind] <= there
                          /\ ~history.parallel /\ kind \in ReportedTypes
                             => socket'[r].counts[kind] = there
    BY <1>2 DEF Counted, Recorded, Connected
  <2>1. CASE r # s
    BY <1>12, <2>1 DEF IInv, Counted, Recorded, Connected
  <2>2. CASE r = s /\ kind = type
    BY <1>2, <1>6, <1>8, <1>11, <1>12, <1>13, <2>2
  <2>3. CASE r = s /\ kind # type
    <3>1. Count(events, kind) \in Nat
      <4>1. Count(events, kind) \in 0 .. Len(events)
        BY <1>5, CountInLen
      <4> QED
        BY <1>5, <4>1
    <3>2. /\ socket'[r].counts[kind] = c.counts[kind] /\ socket'[r].event.type # kind
          /\ c.event.type # kind
      BY <1>2, <1>8, <1>11, <1>12, <1>13, <2>3, NoEventIsNone
    <3>3. /\ c.counts[kind] <= Count(events, kind)
          /\ ~history.parallel /\ kind \in ReportedTypes => c.counts[kind] = Count(events, kind)
      <4>1. Recorded(s, kind) = Count(events, kind)
        BY <1>1, <3>1, <3>2 DEF Recorded
      <4> QED
        BY <1>1, <1>2, <4>1 DEF IInv, Counted, Connected
    <3> QED
      BY <3>1, <3>2, <3>3
  <2> QED
    BY <2>1, <2>2, <2>3
<1>20. EscalationIsExact' /\ TerminationHasEvidence' /\ CriticalEndsIt'
  BY <1>2 DEF IInv, EscalationIsExact, Due, TerminationHasEvidence, CriticalEndsIt
<1> QED
  BY <1>14, <1>15, <1>16, <1>17, <1>18, <1>19, <1>20 DEF IInv

(* The interview is found live: the socket goes on to end it.              *)
LEMMA ReadsKeeps ==
  ASSUME IInv, NEW s \in Sockets, terminate_reads(s)
  PROVE  IInv'
<1>1. PICK c \in Socket : c = socket[s] /\ c.step = "terminating"
  BY DEF IInv, TypeOK, terminate_reads
<1>2. PICK x : x = [c EXCEPT !.step = "committing"] /\ socket' = [socket EXCEPT ![s] = x]
  BY <1>1 DEF terminate_reads
<1>3. /\ x \in Socket /\ x.step = "committing" /\ x.event = c.event /\ x.counts = c.counts
      /\ x.thresholds = c.thresholds
  BY <1>2 DEF Socket
<1>4. \A r \in Sockets : socket'[r] = IF r = s THEN x ELSE socket[r]
  BY <1>2 DEF IInv, TypeOK
<1>5. events' = events /\ policy' = policy /\ interview' = interview /\ history' = history
  BY DEF terminate_reads
<1>6. \A r \in Sockets :
        /\ socket'[r].event = socket[r].event /\ socket'[r].counts = socket[r].counts
        /\ socket'[r].thresholds = socket[r].thresholds
        /\ socket'[r].step \in Writing <=> socket[r].step \in Writing
        /\ socket'[r].step = "closed" <=> socket[r].step = "closed"
        /\ socket'[r].step \in {"terminating", "committing"}
             <=> socket[r].step \in {"terminating", "committing"}
  BY <1>1, <1>3, <1>4 DEF Writing
<1>7. TypeOK'
  BY <1>2, <1>3, <1>5 DEF IInv, TypeOK
<1>8. Room'
  <2>1. Flushed' = Flushed
    BY <1>6 DEF Flushed
  <2> QED
    BY <1>5, <2>1 DEF IInv, Room
<1>9. Pending' /\ PendingGraded'
  BY <1>6 DEF IInv, Pending, PendingGraded
<1>10. PolicyKnown' /\ OneAtATime'
  BY <1>5, <1>6 DEF IInv, PolicyKnown, OneAtATime, Connected
<1>11. Counted'
  BY <1>5, <1>6 DEF IInv, Counted, Recorded, Connected
<1>12. EscalationIsExact' /\ TerminationHasEvidence' /\ CriticalEndsIt'
  BY <1>5 DEF IInv, EscalationIsExact, Due, TerminationHasEvidence, CriticalEndsIt
<1> QED
  BY <1>7, <1>8, <1>9, <1>10, <1>11, <1>12 DEF IInv
(* The pending event of a socket takes its place in the record: other      *)
(* sockets may have been first, none has been counted twice.               *)
LEMMA StoreKeeps ==
  ASSUME IInv, NEW s \in Sockets, record_commits(s) \/ terminate(s)
  PROVE  IInv'
<1>1. PICK c \in Socket : c = socket[s]
  BY DEF IInv, TypeOK
<1>2. PICK e \in Event : e = c.event /\ e.type \in ReportedTypes
  BY <1>1 DEF record_commits, terminate, IInv, Pending, Writing
<1>3. c.step \in Writing /\ Connected(s) /\ e.type \in Types
  BY <1>1, <1>2 DEF record_commits, terminate, Writing, Connected, Event
<1>4. events \in Seq(Event) /\ events' = Append(events, e) /\ policy' = policy
  BY <1>1, <1>2 DEF record_commits, terminate, Stores, IInv, TypeOK
<1>5. PICK x : /\ socket' = [socket EXCEPT ![s] = x]
               /\ \/ x = Closed
                  \/ x = [c EXCEPT !.step = "open", !.event = NoEvent]
  BY <1>1 DEF record_commits, terminate, Disconnected
<1>6. /\ x \in Socket /\ x.event = NoEvent /\ x.step \in {"closed", "open"}
      /\ x.step = "open" => x.counts = c.counts /\ x.thresholds = c.thresholds
  BY <1>5, ClosedTyped DEF Socket
<1>7. \A r \in Sockets : socket'[r] = IF r = s THEN x ELSE socket[r]
  BY <1>5 DEF IInv, TypeOK
<1>8. /\ history'.parallel = history.parallel /\ history'.edited = history.edited
      /\ history' \in [parallel : BOOLEAN, edited : BOOLEAN, struck : BOOLEAN]
      /\ interview' \in {interview, "terminated"}
      /\ history'.struck => history.struck \/ interview' # "live"
      /\ interview' = "terminated" => interview = "terminated" \/ e.severity = "CRITICAL"
  BY <1>1, <1>2, HistoryTyped DEF record_commits, terminate, IInv, TypeOK, Pending
<1>9. /\ events' \in Seq(Event) /\ Len(events) \in Nat /\ Len(events') = Len(events) + 1
      /\ \A k \in 1 .. Len(events) : events'[k] = events[k]
      /\ events'[Len(events) + 1] = e
  BY <1>4, AppendIs
<1>10. Room'
  <2>1. Flushed' = Flushed \ {s} /\ s \in Flushed
    BY <1>1, <1>2, <1>6, <1>7, NoEventIsNone DEF Flushed
  <2>2. IsFiniteSet(Flushed') /\ Cardinality(Flushed') = Cardinality(Flushed) - 1
    BY <2>1, FS_RemoveElement DEF IInv, Room
  <2>3. Cardinality(Flushed) \in Nat
    BY FS_CardinalityType DEF IInv, Room
  <2> QED
    BY <1>9, <2>2, <2>3, ProctoringAssumption DEF IInv, Room
<1>11. TypeOK'
  <2>1. Len(events') <= MaxEvents
    BY <1>9, <1>10, FS_CardinalityType, ProctoringAssumption DEF Room
  <2> QED
    BY <1>4, <1>5, <1>6, <1>8, <1>9, <2>1 DEF IInv, TypeOK
<1>12. Pending' /\ PendingGraded'
  BY <1>6, <1>7 DEF IInv, Pending, PendingGraded, Writing
<1>13. PolicyKnown' /\ OneAtATime'
  BY <1>1, <1>3, <1>4, <1>6, <1>7, <1>8 DEF IInv, PolicyKnown, OneAtATime, Connected
<1>14. \A type : /\ Count(events, type) \in Nat
                 /\ Count(events', type) = Count(events, type) + (IF e.type = type THEN 1 ELSE 0)
  BY <1>4, <1>9, CountGrows
<1>15. c.event = e /\ \A type \in Types : c.counts[type] \in 0 .. MaxEvents
  BY <1>2 DEF Socket
<1>16. Counted'
  <2> SUFFICES ASSUME NEW r \in Sockets, NEW type \in Types, socket'[r].step # "closed"
               PROVE  LET there == Count(events', type)
                                   + (IF socket'[r].event.type = type THEN 1 ELSE 0)
                      IN  /\ socket'[r].counts[type] <= there
                          /\ ~history.parallel /\ type \in ReportedTypes
                             => socket'[r].counts[type] = there
    BY <1>8 DEF Counted, Recorded, Connected
  <2>1. CASE r = s
    <3>1. /\ socket'[r].counts[type] = c.counts[type]
          /\ Count(events', type) + (IF socket'[r].event.type = type THEN 1 ELSE 0)
               = Recorded(s, type)
      BY <1>1, <1>6, <1>7, <1>14, <1>15, <2>1, NoEventIsNone DEF Recorded
    <3> QED
      BY <1>1, <1>3, <3>1 DEF IInv, Counted
  <2>2. CASE r # s
    <3>1. socket'[r] = socket[r] /\ Connected(r) /\ history.parallel
      BY <1>3, <1>7, <2>2 DEF IInv, OneAtATime, Connected
    <3>2. socket[r].counts[type] <= Recorded(r, type)
      BY <3>1 DEF IInv, Counted
    <3>3. socket[r].counts[type] \in Nat
      BY DEF IInv, TypeOK, Socket
    <3> QED
      BY <1>14, <3>1, <3>2, <3>3 DEF Recorded
  <2> QED
    BY <2>1, <2>2
<1>17. EscalationIsExact'
  <2> SUFFICES ASSUME ~history.edited
               PROVE  Fair(events', policy, history.parallel)
    BY <1>4, <1>8 DEF EscalationIsExact, Due, Fair, DueIn
  <2>1. Fair(events, policy, history.parallel)
    BY ExactIsFair DEF IInv
  <2>2. PICK n \in 0 .. MaxEvents : n = c.counts[e.type]
    BY <1>3, <1>15
  <2>3. n >= 1 /\ e.severity = severity_for(e.type, n - 1, policy) /\ policy \in Policy
    BY <1>1, <1>3, <1>15, <2>2, ProctoringAssumption
       DEF IInv, PendingGraded, PolicyKnown, TypeOK
  <2>4. n <= Count(events, e.type) + 1 /\ (~history.parallel => n = Count(events, e.type) + 1)
    <3>1. Recorded(s, e.type) = Count(events, e.type) + 1
      BY <1>1, <1>15 DEF Recorded
    <3> QED
      BY <1>1, <1>2, <1>3, <2>2, <3>1 DEF IInv, Counted
  <2>5. n - 1 \in Nat /\ n - 1 <= Count(events, e.type) /\ Count(events, e.type) \in Nat
    BY <1>14, <2>3, <2>4
  <2>6. NoWorse(e.severity, severity_for(e.type, Count(events, e.type), policy))
    BY <2>3, <2>5, SeverityGrows
  <2>7. ~history.parallel => e.severity = severity_for(e.type, Count(events, e.type), policy)
    <3>1. ~history.parallel => n - 1 = Count(events, e.type)
      BY <2>4, <2>5
    <3> QED
      BY <2>3, <3>1
  <2> QED
    BY <1>4, <2>1, <2>6, <2>7, FairGrows
<1>18. TerminationHasEvidence'
  BY <1>8, <1>9 DEF IInv, TerminationHasEvidence
<1>19. CriticalEndsIt'
  BY <1>8 DEF IInv, CriticalEndsIt
<1> QED
  BY <1>10, <1>11, <1>12, <1>13, <1>16, <1>17, <1>18, <1>19 DEF IInv
-----------------------------------------------------------------------------
(* The acoustic signals.                                                   *)

(* A log goes on as another: no event moved, none is worse than is due,    *)
(* and no type that sockets count has more.                                *)
GoesOn(log, new, p, parallel) ==
  /\ new \in Seq(Event) /\ Len(log) <= Len(new)
  /\ \A k \in 1 .. Len(log) : new[k] = log[k]
  /\ Fair(log, p, parallel) => Fair(new, p, parallel)
  /\ \A type : /\ Count(log, type) \in Nat /\ Count(new, type) \in Nat
               /\ Count(log, type) <= Count(new, type)
               /\ type \in ReportedTypes => Count(new, type) = Count(log, type)

(* One finding more: of a type no socket reports, and graded by the type   *)
(* alone.                                                                  *)
LEMMA FindingGoesOn ==
  ASSUME NEW log \in Seq(Event), NEW e \in Event, NEW p, NEW parallel,
         e.type \in DerivedTypes, e.severity = BASE_SEVERITY(e.type)
  PROVE  GoesOn(log, Append(log, e), p, parallel) /\ Len(Append(log, e)) = Len(log) + 1
<1>1. \A n : severity_for(e.type, n, p) = e.severity
  BY DEF severity_for, DerivedTypes, Escalating
<1>2. Fair(log, p, parallel) => Fair(Append(log, e), p, parallel)
  <2>1. NoWorse(e.severity, severity_for(e.type, Count(log, e.type), p))
    BY <1>1 DEF NoWorse
  <2> QED
    BY <1>1, <2>1, FairGrows
<1>3. ASSUME NEW type
      PROVE  /\ Count(log, type) \in Nat /\ Count(Append(log, e), type) \in Nat
             /\ Count(log, type) <= Count(Append(log, e), type)
             /\ type \in ReportedTypes => Count(Append(log, e), type) = Count(log, type)
  <2>1. /\ Count(log, type) \in 0 .. Len(log)
        /\ Count(Append(log, e), type) = Count(log, type) + (IF e.type = type THEN 1 ELSE 0)
    BY CountGrows
  <2>2. type \in ReportedTypes => e.type # type
    BY DEF ReportedTypes, DerivedTypes
  <2> QED
    BY <2>1, <2>2
<1>4. /\ Append(log, e) \in Seq(Event)
      /\ Len(log) \in Nat /\ Len(Append(log, e)) = Len(log) + 1
      /\ \A k \in 1 .. Len(log) : Append(log, e)[k] = log[k]
  BY AppendIs
<1> QED
  BY <1>2, <1>3, <1>4 DEF GoesOn

(* A log that goes on twice goes on.                                       *)
LEMMA GoesOnAndOn ==
  ASSUME NEW log \in Seq(Event), NEW mid, NEW new, NEW p, NEW parallel,
         GoesOn(log, mid, p, parallel), GoesOn(mid, new, p, parallel)
  PROVE  GoesOn(log, new, p, parallel)
<1>1. mid \in Seq(Event) /\ new \in Seq(Event)
  BY DEF GoesOn
<1>2. Len(log) \in Nat /\ Len(mid) \in Nat /\ Len(new) \in Nat
  BY <1>1, LenProperties
<1>3. Len(log) <= Len(new) /\ \A k \in 1 .. Len(log) : new[k] = log[k]
  BY <1>2 DEF GoesOn
<1>4. \A type : /\ Count(log, type) \in Nat /\ Count(new, type) \in Nat
                /\ Count(log, type) <= Count(new, type)
                /\ type \in ReportedTypes => Count(new, type) = Count(log, type)
  BY DEF GoesOn
<1>5. Fair(log, p, parallel) => Fair(new, p, parallel)
  BY DEF GoesOn
<1> QED
  BY <1>1, <1>3, <1>4, <1>5 DEF GoesOn

(* What a signal comes to: one finding or two.                             *)
Speaker == [type |-> "SECOND_SPEAKER", severity |-> "CRITICAL"]
Silence == [type |-> "ANOMALOUS_SILENCE", severity |-> "INFO"]

(* The two findings derived from the voice are events.                     *)
LEMMA FindingsAre ==
  ASSUME DerivedTypes \subseteq Types
  PROVE  /\ Speaker \in Event /\ Silence \in Event
         /\ Speaker.type \in DerivedTypes /\ Speaker.severity = BASE_SEVERITY(Speaker.type)
         /\ Silence.type \in DerivedTypes /\ Silence.severity = BASE_SEVERITY(Silence.type)
BY DEF Speaker, Silence, Event, Severity, DerivedTypes, BASE_SEVERITY

(* A voice signal stores one finding, the other or both.                   *)
LEMMA SignalStores ==
  ASSUME TypeOK, NEW signal \in VoiceSignal, _on_voice_signal(signal)
  PROVE  /\ DerivedTypes \subseteq Types
         /\ UNCHANGED <<policy, interview, socket, history>>
         /\ \/ events' = Append(events, Speaker) /\ Len(events) + Cardinality(Flushed) + 1 <= MaxEvents
            \/ events' = Append(events, Silence) /\ Len(events) + Cardinality(Flushed) + 1 <= MaxEvents
            \/ /\ events' = Append(Append(events, Speaker), Silence)
               /\ Len(events) + Cardinality(Flushed) + 2 <= MaxEvents
<1>1. DerivedTypes \subseteq Types /\ events \in Seq(Event)
  BY DEF _on_voice_signal, TypeOK
<1>2. Speaker \in Event /\ Silence \in Event
  BY <1>1, FindingsAre
<1>3. PICK one, two :
        /\ one = (IF assess_speakers(signal.words) THEN <<Speaker>> ELSE <<>>)
        /\ two = (IF signal.silent THEN <<Silence>> ELSE <<>>)
        /\ one \o two # <<>>
        /\ Len(events) + Cardinality(Flushed) + Len(one \o two) <= MaxEvents
        /\ events' = events \o (one \o two)
  BY DEF _on_voice_signal, Speaker, Silence
<1>4. one \o two \in {<<Speaker>>, <<Silence>>, <<Speaker, Silence>>}
  <2>1. one \in {<<>>, <<Speaker>>} /\ two \in {<<>>, <<Silence>>}
    BY <1>3
  <2>2. /\ <<>> \o <<>> = <<>> /\ <<Speaker>> \o <<>> = <<Speaker>>
        /\ <<>> \o <<Silence>> = <<Silence>>
        /\ <<Speaker>> \o <<Silence>> = <<Speaker, Silence>>
    <3>1. PICK a \in Event, b \in Event : a = Speaker /\ b = Silence
      BY <1>2
    <3>2. /\ <<>> \in Seq(Event) /\ <<a>> \in Seq(Event) /\ <<b>> \in Seq(Event)
          /\ <<a, b>> \in Seq(Event)
      BY EmptySeq
    <3>3. <<>> \o <<>> = <<>> /\ <<a>> \o <<>> = <<a>> /\ <<>> \o <<b>> = <<b>>
      BY <3>2, ConcatEmptySeq, Zenon
    <3>4. <<a>> \o <<b>> = <<a, b>>
      <4>1. PICK p \in Seq(Event), q \in Seq(Event) :
              /\ p = <<a>> /\ q = <<b>>
              /\ Len(p) = 1 /\ Len(q) = 1 /\ p[1] = a /\ q[1] = b
        BY <3>2
      <4>2. PICK both \in Seq(Event) :
              both = p \o q /\ Len(both) = 2 /\ both[1] = a /\ both[2] = b
        <5> DEFINE both == p \o q
        <5>1. /\ both \in Seq(Event) /\ Len(both) = Len(p) + Len(q)
              /\ \A i \in 1 .. Len(p) + Len(q) :
                   both[i] = IF i <= Len(p) THEN p[i] ELSE q[i - Len(p)]
          BY ConcatProperties, Zenon
        <5> HIDE DEF both
        <5>2. Len(both) = 2
          BY <4>1, <5>1
        <5>3. 1 \in 1 .. Len(p) + Len(q) /\ 2 \in 1 .. Len(p) + Len(q)
          BY <4>1
        <5>4. both[1] = a /\ both[2] = q[2 - Len(p)]
          BY <4>1, <5>1, <5>3
        <5>5. both[2] = b
          BY <4>1, <5>4
        <5> QED
          BY <5>1, <5>2, <5>4, <5>5 DEF both
      <4>3. PICK pair \in Seq(Event) :
              pair = <<a, b>> /\ Len(pair) = 2 /\ pair[1] = a /\ pair[2] = b
        BY <3>2
      <4>4. both = pair
        <5>1. Len(both) = Len(pair) /\ \A i \in 1 .. Len(both) : both[i] = pair[i]
          BY <4>2, <4>3
        <5> QED
          BY <5>1, SeqEqual
      <4> QED
        BY <4>1, <4>2, <4>3, <4>4
    <3> QED
      BY <3>1, <3>3, <3>4
  <2> QED
    BY <1>3, <2>1, <2>2
<1>5. /\ events \o <<Speaker>> = Append(events, Speaker)
      /\ events \o <<Silence>> = Append(events, Silence)
      /\ events \o <<Speaker, Silence>> = Append(Append(events, Speaker), Silence)
  BY <1>1, <1>2
<1> QED
  BY <1>1, <1>3, <1>4, <1>5 DEF _on_voice_signal
(* Findings move no event, count for no socket and are due what they are.  *)
LEMMA VoiceKeeps ==
  ASSUME IInv, NEW signal \in VoiceSignal, _on_voice_signal(signal)
  PROVE  IInv'
<1>1. /\ policy' = policy /\ interview' = interview /\ socket' = socket /\ history' = history
      /\ Speaker \in Event /\ Silence \in Event
      /\ Speaker.type \in DerivedTypes /\ Speaker.severity = BASE_SEVERITY(Speaker.type)
      /\ Silence.type \in DerivedTypes /\ Silence.severity = BASE_SEVERITY(Silence.type)
  BY SignalStores, FindingsAre DEF IInv
<1>2. events \in Seq(Event) /\ Len(events) \in Nat /\ Cardinality(Flushed) \in Nat
  BY LenProperties, FS_CardinalityType DEF IInv, TypeOK, Room
<1> DEFINE Fits == /\ GoesOn(events, events', policy, history.parallel)
                   /\ Len(events') \in Nat /\ Len(events') + Cardinality(Flushed) <= MaxEvents
<1>3. Fits
  <2>1. ASSUME NEW e \in {Speaker, Silence}, NEW log \in Seq(Event)
        PROVE  /\ Append(log, e) \in Seq(Event)
               /\ GoesOn(log, Append(log, e), policy, history.parallel)
               /\ Len(Append(log, e)) = Len(log) + 1
    BY <1>1, <2>1, AppendIs, FindingGoesOn
  <2>2. ASSUME NEW e \in {Speaker, Silence}, events' = Append(events, e),
               Len(events) + Cardinality(Flushed) + 1 <= MaxEvents
        PROVE  Fits
    BY <1>2, <2>1, <2>2, ProctoringAssumption
  <2>3. ASSUME events' = Append(Append(events, Speaker), Silence),
               Len(events) + Cardinality(Flushed) + 2 <= MaxEvents
        PROVE  Fits
    <3>1. PICK mid \in Seq(Event) : mid = Append(events, Speaker)
      BY <1>2, <2>1
    <3>2. GoesOn(events, mid, policy, history.parallel) /\ Len(mid) = Len(events) + 1
      BY <1>2, <2>1, <3>1
    <3>3. PICK all : all = Append(mid, Silence) /\ events' = all
      BY <2>3, <3>1
    <3>4. GoesOn(mid, all, policy, history.parallel) /\ Len(all) = Len(mid) + 1
      BY <2>1, <3>1, <3>3
    <3>5. GoesOn(events, all, policy, history.parallel)
      BY <1>2, <3>2, <3>4, GoesOnAndOn
    <3> QED
      BY <1>2, <2>3, <3>2, <3>3, <3>4, <3>5
  <2> QED
    BY <2>2, <2>3, SignalStores DEF IInv
<1>4. TypeOK' /\ Room'
  <2>1. events' \in Seq(Event) /\ Len(events') <= MaxEvents
    BY <1>2, <1>3, ProctoringAssumption DEF GoesOn
  <2>2. Flushed' = Flushed
    BY <1>1 DEF Flushed
  <2> QED
    BY <1>1, <1>3, <2>1, <2>2 DEF IInv, TypeOK, Room
<1>5. Pending' /\ PendingGraded' /\ PolicyKnown' /\ OneAtATime'
  BY <1>1 DEF IInv, Pending, PendingGraded, PolicyKnown, OneAtATime, Connected
<1>6. Counted'
  <2> SUFFICES ASSUME NEW s \in Sockets, NEW type \in Types, Connected(s)
               PROVE  LET there == Count(events', type)
                                   + (IF socket[s].event.type = type THEN 1 ELSE 0)
                      IN  /\ socket[s].counts[type] <= there
                          /\ ~history.parallel /\ type \in ReportedTypes
                             => socket[s].counts[type] = there
    BY <1>1 DEF Counted, Recorded, Connected
  <2>1. /\ socket[s].counts[type] <= Recorded(s, type) /\ socket[s].counts[type] \in Nat
        /\ ~history.parallel /\ type \in ReportedTypes
           => socket[s].counts[type] = Recorded(s, type)
    BY DEF IInv, Counted, TypeOK, Socket
  <2>2. /\ Count(events, type) \in Nat /\ Count(events', type) \in Nat
        /\ Count(events, type) <= Count(events', type)
        /\ type \in ReportedTypes => Count(events', type) = Count(events, type)
    BY <1>3 DEF GoesOn
  <2> QED
    BY <2>1, <2>2 DEF Recorded
<1>7. EscalationIsExact'
  BY <1>1, <1>3, ExactIsFair DEF GoesOn, IInv, EscalationIsExact, Due, Fair, DueIn
<1>8. TerminationHasEvidence'
  BY <1>1, <1>2, <1>3 DEF GoesOn, IInv, TerminationHasEvidence
<1>9. CriticalEndsIt'
  BY <1>1 DEF IInv, CriticalEndsIt
<1> QED
  BY <1>4, <1>5, <1>6, <1>7, <1>8, <1>9 DEF IInv
-----------------------------------------------------------------------------
(* An interview about to begin satisfies the invariant.                    *)
LEMMA InitIInv == Init => IInv
<1> SUFFICES ASSUME Init PROVE IInv
  OBVIOUS
<1>1. \A s \in Sockets : socket[s] = Closed
  BY DEF Init
<1>2. events = <<>> /\ Len(events) = 0 /\ events \in Seq(Event)
  BY EmptySeq DEF Init
<1>3. TypeOK
  BY <1>2, ClosedTyped, ProctoringAssumption DEF Init, TypeOK
<1>4. Room
  <2>1. Flushed = {}
    BY <1>1, ClosedTyped DEF Flushed
  <2> QED
    BY <1>2, <2>1, FS_EmptySet, ProctoringAssumption DEF Room
<1>5. Pending /\ PolicyKnown /\ OneAtATime /\ Counted /\ PendingGraded
  BY <1>1, ClosedTyped
     DEF Pending, Writing, PolicyKnown, OneAtATime, Counted, PendingGraded, Connected
<1>6. EscalationIsExact /\ TerminationHasEvidence /\ CriticalEndsIt
  BY <1>2 DEF Init, EscalationIsExact, TerminationHasEvidence, CriticalEndsIt
<1> QED
  BY <1>3, <1>4, <1>5, <1>6 DEF IInv

(* Every step of every socket, and around them, preserves it.              *)
LEMMA NextIInv == IInv /\ [Next]_vars => IInv'
<1> SUFFICES ASSUME IInv, [Next]_vars PROVE IInv'
  OBVIOUS
<1>1. ASSUME NEW s \in Sockets, SocketNext(s)
      PROVE  IInv'
  <2>1. ASSUME NEW message \in Message, NEW type \in Accepted(message), record(s, type)
        PROVE  IInv'
    <3>1. type \in Types \cap ReportedTypes
      BY DEF Accepted, parse_event_type, Message
    <3> QED
      BY <2>1, <3>1, RecordKeeps
  <2> QED
    BY <1>1, <2>1, ConnectKeeps, DisconnectKeeps, StoreKeeps, ReadsKeeps DEF SocketNext
<1>2. CASE UNCHANGED vars
  <2>1. /\ policy' = policy /\ interview' = interview /\ events' = events
        /\ socket' = socket /\ history' = history
    BY <1>2 DEF vars
  <2> QED
    BY <2>1 DEF IInv, TypeOK, Room, Flushed, Pending, PolicyKnown, OneAtATime, Connected,
                Counted, Recorded, PendingGraded, EscalationIsExact, Due,
                TerminationHasEvidence, CriticalEndsIt
<1> QED
  BY <1>1, <1>2, AroundKeeps, VoiceKeeps DEF Next

(* The invariant holds always.                                             *)
LEMMA Invariance == Spec => []IInv
BY InitIInv, NextIInv, PTL DEF Spec
-----------------------------------------------------------------------------
(* What follows from it.                                                   *)

(* Type correctness: the record, the sockets' counters and the policy      *)
(* (proctoring/collector.py, rules.py) stay in their ranges.               *)
THEOREM TypeCorrect == Spec => []TypeOK
<1>1. IInv => TypeOK
  BY DEF IInv
<1> QED
  BY <1>1, Invariance, PTL

(* Parallel sockets, reconnections and failed writes never make conduct    *)
(* look worse than its place in the record calls for; with one socket at a *)
(* time it is just that (collector.py, rules.py severity_for).             *)
THEOREM SeverityIsDue == Spec => []EscalationIsExact
<1>1. IInv => EscalationIsExact
  BY DEF IInv
<1> QED
  BY <1>1, Invariance, PTL

(* No interview is terminated without a critical event in the record       *)
(* (api/v1/proctoring.py: evidence and end are one commit).                *)
THEOREM NoEndWithoutEvidence == Spec => []TerminationHasEvidence
<1>1. IInv => TerminationHasEvidence
  BY DEF IInv
<1> QED
  BY <1>1, Invariance, PTL

(* A critical event a socket has dealt with under automatic termination    *)
(* leaves the interview over (api/v1/proctoring.py).                       *)
THEOREM CriticalEndsInterviews == Spec => []CriticalEndsIt
<1>1. IInv => CriticalEndsIt
  BY DEF IInv
<1> QED
  BY <1>1, Invariance, PTL

(* No step, in whatever order sockets and signals store, takes a suspicion *)
(* of the verdict's back (proctoring/verdict.py, assess).                  *)
THEOREM VerdictsOnlyWorsen == Spec => VerdictOnlyWorsens
<1>1. IInv /\ [Next]_vars => [assess(events') >= assess(events)]_vars
  <2> SUFFICES ASSUME IInv, Next PROVE assess(events') >= assess(events)
    BY DEF vars
  <2>1. events \in Seq(Event)
    BY DEF IInv, TypeOK
  <2>2. CASE events' = events
    <3>1. assess(events) \in {1, 2, 3, 4}
      BY DEF assess
    <3> QED
      BY <2>2, <3>1
  <2>3. ASSUME NEW s \in Sockets, record_commits(s) \/ terminate(s)
        PROVE  assess(events') >= assess(events)
    <3>1. socket[s].event \in Event /\ events' = Append(events, socket[s].event)
      BY <2>3 DEF record_commits, terminate, Stores, IInv, Pending, Writing
    <3> QED
      BY <2>1, <3>1, AssessGrows
  <2>4. ASSUME NEW signal \in VoiceSignal, _on_voice_signal(signal)
        PROVE  assess(events') >= assess(events)
    <3>1. Speaker \in Event /\ Silence \in Event
      BY <2>4, SignalStores, FindingsAre DEF IInv
    <3>2. CASE \E e \in {Speaker, Silence} : events' = Append(events, e)
      BY <2>1, <3>1, <3>2, AssessGrows
    <3>3. CASE events' = Append(Append(events, Speaker), Silence)
      <4>1. PICK mid \in Seq(Event) : mid = Append(events, Speaker)
        BY <2>1, <3>1, AppendIs
      <4>2. /\ assess(mid) >= assess(events) /\ assess(events') >= assess(mid)
            /\ assess(events) \in 1 .. 4 /\ assess(mid) \in 1 .. 4 /\ assess(events') \in 1 .. 4
        BY <2>1, <3>1, <3>3, <4>1, AssessGrows
      <4> QED
        BY <4>2
    <3> QED
      BY <2>4, <3>2, <3>3, SignalStores DEF IInv
  <2> QED
    BY <2>2, <2>3, <2>4 DEF Next, SocketNext, upsert_policy, InterviewEnds, connect, SocketCloses,
                            record, terminate_reads, terminate_raises
<1> QED
  BY <1>1, Invariance, PTL DEF Spec, VerdictOnlyWorsens
=============================================================================
