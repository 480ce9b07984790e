---------------------------- MODULE OfflineChain ----------------------------
(***************************************************************************)
(* What happens after a call: the chain of workers/pipeline.py, run by     *)
(* Celery workers that may raise, be killed or run out of time, and the    *)
(* rows its tasks write - score, transcript, frames, verdict and the two   *)
(* reports of one interview (workers/tasks, modules/scoring/service.py,    *)
(* modules/proctoring/verdict.py, modules/reports/service.py).             *)
(*                                                                         *)
(* The interview is over when the chain is sent, which is ChainOnlyAfterEnd*)
(* of InterviewService.  A task is a sequence of transactions; a model     *)
(* call, a download or a render lies between two of them.                  *)
(***************************************************************************)
EXTENDS Integers, Sequences, FiniteSets, Bags

INSTANCE BagsExt

CONSTANTS
  Workers,     \* Celery worker processes
  Frames,      \* the webcam stills of the interview
  MaxRetries,  \* max_retries of a task (3 for finalize, 2 for the others)
  MaxChains,   \* bounds how often the chain is sent
  MaxMishaps   \* bounds the exceptions, the hard time limits and the workers killed

ASSUME ChainAssumption ==
  /\ {MaxRetries, MaxMishaps} \subseteq Nat
  /\ MaxChains \in Nat \ {0}
  /\ IsFiniteSet(Frames) /\ Workers \subseteq Nat

VARIABLES
  queue,     \* the broker: a bag of task messages
  running,   \* what each worker is doing
  chords,    \* the result backend: the header tasks of each chord that returned
  rubric,    \* whether the frozen plan has criteria to grade
  text,      \* the candidate's turns: as heard live, or final
  analysed,  \* frames that carry the ANALYSED_FLAG
  findings,  \* proctoring events written from a frame
  score,     \* the scores row
  verdict,   \* the proctoring_verdicts row: how many findings it counts
  reports,   \* the recruiter_reports and candidate_reports rows
  sent,      \* how often the chain was sent
  mishaps,   \* how many of those there were
  forked,    \* history: a task's successors may have been sent twice
  caught,    \* history: renders that failed for good and said so
  uncaught   \* history: other tasks that failed for good

rows == <<rubric, text, analysed, findings, score, verdict, reports>>

broker == <<queue, running, chords>>

history == <<sent, mishaps, forked, caught, uncaught>>

vars == <<broker, rows, history>>
-----------------------------------------------------------------------------
Header == {"measure_signals", "analyze_frames"}

Audience == {"render_recruiter", "render_candidate"}

Tasks == {"finalize", "correct_transcript", "score_interview", "finalize_verdict"}
           \cup Header \cup Audience

(* A task message; chord is the chord a header task belongs to, or 0.      *)
Message == [task : Tasks, chord : Nat, tries : 0 .. MaxRetries]

None == "none"

NoVerdict == -1

Verdict == Nat \cup {NoVerdict}

ScoringStatus == {None, "PENDING", "SCORING", "READY"}

ReportStatus == {None, "PENDING", "RENDERING", "READY", "FAILED"}

(* confidence_signals: what measure_signals puts there, and what store()   *)
(* adds.                                                                   *)
Signals == {"delivery", "rubric_coverage"}

Texts == {"live", "final"}

(* What recruiter.build() reads of the assessment.                         *)
View == [assessed : BOOLEAN, verdict : Verdict]

NoView == [assessed |-> FALSE, verdict |-> NoVerdict]

(* The rows: graded is the text the stored score was graded on, a verdict  *)
(* is the number of findings it counts, pdf what the report's PDF shows    *)
(* and published whether there is one.                                     *)
Score == [status : ScoringStatus, signals : SUBSET Signals, graded : Texts \cup {None}]

Report == [status : ReportStatus, pdf : View, published : BOOLEAN]

NoReport == [status |-> None, pdf |-> NoView, published |-> FALSE]

(* A worker's task between two transactions, with what it has read.        *)
Job == [msg : Message, at : {"idle", "begin", "reads", "writes", "done"},
        text : Texts, signals : SUBSET Signals, frames : SUBSET Frames, view : View]

Msg(task, chord) == [task |-> task, chord |-> chord, tries |-> 0]

Taken(msg) == [msg |-> msg, at |-> "begin", text |-> "live", signals |-> {},
               frames |-> {}, view |-> NoView]

Idle == [Taken(Msg("finalize", 0)) EXCEPT !.at = "idle"]

Init ==
  /\ queue = EmptyBag
  /\ running = [w \in Workers |-> Idle]
  /\ chords = <<>>
  /\ rubric \in BOOLEAN
  /\ text = "live"
  /\ analysed = {} /\ findings = [f \in Frames |-> 0]
  /\ score = [status |-> None, signals |-> {}, graded |-> None]
  /\ verdict = NoVerdict
  /\ reports = [a \in Audience |-> NoReport]
  /\ sent = 0 /\ mishaps = 0
  /\ forked = FALSE
  /\ caught = {} /\ uncaught = {}

Mishap == mishaps < MaxMishaps /\ mishaps' = mishaps + 1
-----------------------------------------------------------------------------
(* The canvas and the workers.                                             *)

SendAll(bag, msgs) == bag (+) SetToBag(msgs)

(* pipeline.enqueue(); the guard bounds it.                                *)
enqueue ==
  /\ sent < MaxChains
  /\ sent' = sent + 1
  /\ forked' = (forked \/ sent > 0)
  /\ queue' = BagAdd(queue, Msg("finalize", 0))
  /\ UNCHANGED <<running, chords, rows, mishaps, caught, uncaught>>

(* An idle worker takes a message.  Which one does is indistinguishable,   *)
(* and it is the first.                                                    *)
take(w) ==
  /\ running[w] = Idle
  /\ \A v \in Workers : running[v] = Idle => w <= v
  /\ \E msg \in BagToSet(queue) :
       /\ running' = [running EXCEPT ![w] = Taken(msg)]
       /\ queue' = BagRemove(queue, msg)
  /\ UNCHANGED <<chords, rows, history>>

NewChord(tasks) == {Msg(task, Len(chords) + 1) : task \in tasks}

(* Mutant: the transcript is corrected beside the rest of the chain.       *)
successors_correct_aside(task) ==
  CASE task = "finalize" -> {Msg("correct_transcript", 0)} \cup NewChord(Header)
    [] task = "score_interview" -> {Msg("finalize_verdict", 0)}
    [] task = "finalize_verdict" -> {Msg(a, 0) : a \in Audience}
    [] OTHER -> {}

(* The links of build(): what a task's return sends, the chord's body      *)
(* apart.                                                                  *)
successors(task) ==
  CASE task = "finalize" -> {Msg("correct_transcript", 0)}
    [] task = "correct_transcript" -> NewChord(Header)
    [] task = "score_interview" -> {Msg("finalize_verdict", 0)}
    [] task = "finalize_verdict" -> {Msg(a, 0) : a \in Audience}
    [] OTHER -> {}

(* Mutant: the chord's body does not wait for its whole header.            *)
Joined_by_one(before, after) == before = {} /\ after # {}

(* The chord's body runs once, when the last header task has returned.     *)
Joined(before, after) == before # Header /\ after = Header

(* A header task reports to its chord, any other sends its successors; a   *)
(* message is acknowledged only afterwards (task_acks_late), so a worker   *)
(* killed in between leaves it to be run again; the guard on forked bounds  *)
(* that to once.                                                           *)
Return(w) ==
  LET msg  == running[w].msg
      k    == msg.chord
      part == IF k = 0 THEN {} ELSE chords[k] \cup {msg.task}
      body == IF k # 0 /\ Joined(chords[k], part) THEN {Msg("score_interview", 0)} ELSE {}
      opened == {m.chord : m \in successors(msg.task)} \ {0}
      out  == SendAll(queue, successors(msg.task) \cup body)
  IN  /\ running[w].at = "done"
      /\ chords' = IF k # 0 THEN [chords EXCEPT ![k] = part]
                   ELSE IF opened # {} THEN Append(chords, {}) ELSE chords
      /\ running' = [running EXCEPT ![w] = Idle]
      /\ \/ queue' = out /\ UNCHANGED <<mishaps, forked>>
         \/ /\ ~forked /\ Mishap
            /\ queue' = BagAdd(out, msg)
            /\ forked' = TRUE
      /\ UNCHANGED <<rows, sent, caught, uncaught>>

(* Mutant: messages are acknowledged when they are taken.                  *)
Redelivered_early_ack(msg) == queue

(* task_reject_on_worker_lost.                                             *)
Redelivered(msg) == BagAdd(queue, msg)

WorkerLost(w) ==
  /\ running[w] # Idle
  /\ Mishap
  /\ queue' = Redelivered(running[w].msg)
  /\ running' = [running EXCEPT ![w] = Idle]
  /\ UNCHANGED <<chords, rows, sent, forked, caught, uncaught>>

Exhausted(msg) == msg.tries >= MaxRetries

(* autoretry_for=(Exception,): the task is sent again, until its retries   *)
(* are used up and it fails for good, which stops the chain.  handled says *)
(* whether the task had recorded the failure.                              *)
raises(w, handled) ==
  LET msg == running[w].msg
  IN  /\ Mishap
      /\ running' = [running EXCEPT ![w] = Idle]
      /\ IF Exhausted(msg)
         THEN /\ queue' = queue
              /\ caught' = IF handled THEN caught \cup {msg.task} ELSE caught
              /\ uncaught' = IF handled THEN uncaught ELSE uncaught \cup {msg.task}
         ELSE /\ queue' = BagAdd(queue, [msg EXCEPT !.tries = @ + 1])
              /\ UNCHANGED <<caught, uncaught>>
      /\ UNCHANGED <<chords, sent, forked>>

(* A transaction fails and is rolled back.                                 *)
transaction_raises(w) ==
  /\ running[w].at \notin {"idle", "done"}
  /\ raises(w, FALSE)
  /\ UNCHANGED rows

(* task_time_limit: the process is killed and the message acknowledged.    *)
time_limit(w) ==
  /\ running[w].at \notin {"idle", "done"}
  /\ Mishap
  /\ running' = [running EXCEPT ![w] = Idle]
  /\ uncaught' = uncaught \cup {running[w].msg.task}
  /\ UNCHANGED <<queue, chords, rows, sent, forked, caught>>
-----------------------------------------------------------------------------
(* The tasks.                                                              *)

In(w, task, at) == running[w].msg.task = task /\ running[w].at = at

Goes(w, job) == running' = [running EXCEPT ![w] = job]

Done(w) == Goes(w, [Taken(running[w].msg) EXCEPT !.at = "done"])

(* ensure_score(): the row, in PENDING when it is new.                     *)
ensure_score == [score EXCEPT !.status = IF @ = None THEN "PENDING" ELSE @]

Unwritten == UNCHANGED <<queue, chords, rubric, history>>

finalize(w) ==
  /\ In(w, "finalize", "begin")
  /\ score' = ensure_score
  /\ Done(w)
  /\ Unwritten /\ UNCHANGED <<text, analysed, findings, verdict, reports>>

(* The recording may be missing or not decode, which is no error.          *)
correct_transcript(w) ==
  /\ In(w, "correct_transcript", "begin")
  /\ text' \in {text, "final"}
  /\ Done(w)
  /\ Unwritten /\ UNCHANGED <<analysed, findings, score, verdict, reports>>

measure_reads(w) ==
  /\ In(w, "measure_signals", "begin")
  /\ score' = ensure_score
  /\ Goes(w, [running[w] EXCEPT !.at = "writes", !.signals = score.signals])
  /\ Unwritten /\ UNCHANGED <<text, analysed, findings, verdict, reports>>

(* confidence_signals is written whole, from what was read.                *)
measure_commits(w) ==
  /\ In(w, "measure_signals", "writes")
  /\ score' = [score EXCEPT !.signals = running[w].signals \cup {"delivery"}]
  /\ Done(w)
  /\ Unwritten /\ UNCHANGED <<text, analysed, findings, verdict, reports>>

(* The task's next frames, or its return when there are none.              *)
GoesOnWith(w, left) ==
  IF left = {} THEN Done(w)
  ELSE Goes(w, [running[w] EXCEPT !.at = "writes", !.frames = left])

analyze_selects(w) ==
  /\ In(w, "analyze_frames", "begin")
  /\ GoesOnWith(w, Frames \ analysed)
  /\ Unwritten /\ UNCHANGED <<text, analysed, findings, score, verdict, reports>>

(* Mutant: the flag is set on a dict whose changes are not tracked.        *)
flagged_in_place(f) == analysed

flagged(f) == analysed \cup {f}

(* One still: unreadable, or flagged in the transaction that records what  *)
(* it shows.                                                               *)
analyze_frame(w) ==
  /\ In(w, "analyze_frames", "writes")
  /\ \E f \in running[w].frames :
       /\ GoesOnWith(w, running[w].frames \ {f})
       /\ \/ UNCHANGED <<analysed, findings>>
          \/ /\ analysed' = flagged(f)
             /\ findings' \in {findings, [findings EXCEPT ![f] = @ + 1]}
  /\ Unwritten /\ UNCHANGED <<text, score, verdict, reports>>

(* Without criteria there is nothing to grade, and the chain goes on.      *)
score_skips(w) ==
  /\ In(w, "score_interview", "begin") /\ ~rubric
  /\ Done(w)
  /\ Unwritten /\ UNCHANGED <<text, analysed, findings, score, verdict, reports>>

(* mark_scoring() is committed before the grading.                         *)
mark_scoring(w) ==
  /\ In(w, "score_interview", "begin") /\ rubric
  /\ score' = [score EXCEPT !.status = "SCORING"]
  /\ Goes(w, [running[w] EXCEPT !.at = "reads", !.text = text])
  /\ Unwritten /\ UNCHANGED <<text, analysed, findings, verdict, reports>>

store_reads(w) ==
  /\ In(w, "score_interview", "reads")
  /\ Goes(w, [running[w] EXCEPT !.at = "writes", !.signals = score.signals])
  /\ Unwritten /\ UNCHANGED <<text, analysed, findings, score, verdict, reports>>

(* store(): criteria, overall, status and signals, replaced together.      *)
store_commits(w) ==
  /\ In(w, "score_interview", "writes")
  /\ score' = [status |-> "READY", graded |-> running[w].text,
               signals |-> running[w].signals \cup {"rubric_coverage"}]
  /\ Done(w)
  /\ Unwritten /\ UNCHANGED <<text, analysed, findings, verdict, reports>>

(* compute(): what the events amount to, abstracted to their number.       *)
compute == Cardinality(UNION {{f} \X (1 .. findings[f]) : f \in Frames})

verdict_reads(w) ==
  /\ In(w, "finalize_verdict", "begin")
  /\ Goes(w, [running[w] EXCEPT !.at = "writes", !.view.verdict = compute])
  /\ Unwritten /\ UNCHANGED <<text, analysed, findings, score, verdict, reports>>

verdict_commits(w) ==
  /\ In(w, "finalize_verdict", "writes")
  /\ verdict' = running[w].view.verdict
  /\ Done(w)
  /\ Unwritten /\ UNCHANGED <<text, analysed, findings, score, reports>>

(* What a report is rendered from: recruiter.build(), which the candidate's*)
(* task calls too.                                                         *)
build == [assessed |-> score.graded # None, verdict |-> verdict]

(* The report row, RENDERING, and the view, in one transaction.            *)
mark_rendering(w, a) ==
  /\ In(w, a, "begin")
  /\ reports' = [reports EXCEPT ![a].status = "RENDERING"]
  /\ Goes(w, [running[w] EXCEPT !.at = "writes", !.view = build])
  /\ Unwritten /\ UNCHANGED <<text, analysed, findings, score, verdict>>

(* Rendered, uploaded under a fresh key, and the row points at it.         *)
mark_ready(w, a) ==
  /\ In(w, a, "writes")
  /\ reports' = [reports EXCEPT ![a] = [status |-> "READY", pdf |-> running[w].view,
                                        published |-> TRUE]]
  /\ Done(w)
  /\ Unwritten /\ UNCHANGED <<text, analysed, findings, score, verdict>>

(* Mutant: the failure is raised and not recorded.                         *)
mark_failed_unrecorded(a) == reports

(* The row keeps the PDF it has.                                           *)
mark_failed(a) == [reports EXCEPT ![a].status = "FAILED"]

(* The renderer or the store fails: recorded, and raised again.            *)
render_fails(w, a) ==
  /\ In(w, a, "writes")
  /\ reports' = mark_failed(a)
  /\ raises(w, TRUE)
  /\ UNCHANGED <<rubric, text, analysed, findings, score, verdict>>
-----------------------------------------------------------------------------
(* What a worker does when nothing goes wrong.                             *)
work(w) ==
  \/ finalize(w) \/ correct_transcript(w)
  \/ measure_reads(w) \/ measure_commits(w)
  \/ analyze_selects(w) \/ analyze_frame(w)
  \/ score_skips(w) \/ mark_scoring(w) \/ store_reads(w) \/ store_commits(w)
  \/ verdict_reads(w) \/ verdict_commits(w)
  \/ \E a \in Audience : mark_rendering(w, a) \/ mark_ready(w, a)
  \/ Return(w)

Next ==
  \/ enqueue
  \/ \E w \in Workers :
       \/ take(w) \/ work(w)
       \/ WorkerLost(w) \/ transaction_raises(w) \/ time_limit(w)
       \/ \E a \in Audience : render_fails(w, a)

(* The workers consume: none stays idle before a full queue, none stops in *)
(* the middle of a task unless it is killed.                               *)
Fairness ==
  /\ WF_vars(\E w \in Workers : take(w))
  /\ \A w \in Workers : WF_vars(work(w))

Spec == Init /\ [][Next]_vars

FairSpec == Spec /\ Fairness
-----------------------------------------------------------------------------
(* Type correctness: a task is tried MaxRetries times after the first and  *)
(* no more, and no message names a chord that was never opened.            *)
TypeOK ==
  /\ IsABag(queue) /\ DOMAIN queue \subseteq Message
  /\ running \in [Workers -> Job]
  /\ chords \in Seq(SUBSET Header)
  /\ \A msg \in DOMAIN queue \cup {running[w].msg : w \in Workers} : msg.chord <= Len(chords)
  /\ rubric \in BOOLEAN /\ text \in Texts
  /\ analysed \subseteq Frames /\ findings \in [Frames -> Nat]
  /\ score \in Score /\ verdict \in Verdict /\ reports \in [Audience -> Report]
  /\ sent \in 0 .. MaxChains /\ mishaps \in 0 .. MaxMishaps
  /\ forked \in BOOLEAN
  /\ caught \subseteq Audience /\ uncaught \subseteq Tasks

(* A finished score carries both the delivery signals and its coverage:    *)
(* two tasks merge into one JSON column, and it is the chord's join, not   *)
(* the merge, that keeps them from overwriting each other                  *)
(* (scoring_tasks.py:111-113).                                             *)
SignalsComplete ==
  ~forked /\ score.status = "READY" => score.signals = Signals

(* The quotes of a stored score were checked against the text that the     *)
(* report shows (pipeline.py:9-11).                                        *)
GradedTextStands ==
  ~forked /\ score.graded # None => score.graded = text

(* A task killed or retried halfway does not count a frame twice           *)
(* (proctoring_tasks.py:9-11).                                             *)
FindingsOnce == ~forked => \A f \in Frames : findings[f] <= 1

Delivering(task) ==
  \/ \E msg \in BagToSet(queue) : msg.task = task
  \/ \E w \in Workers : running[w] # Idle /\ running[w].msg.task = task

(* A row says that somebody is working on it only while a delivery of its  *)
(* task is left, unless the task failed outside its own error handling.    *)
TransitHasWorker ==
  /\ score.status = "SCORING" =>
       Delivering("score_interview") \/ "score_interview" \in uncaught
  /\ \A a \in Audience : reports[a].status = "RENDERING" =>
       Delivering(a) \/ a \in uncaught

Delivered ==
  /\ \A a \in Audience : reports[a].status = "READY"
  /\ rubric => score.status = "READY"

(* Unless a task fails for good, a chain that was sent ends with both      *)
(* reports and the score ready, and they stay so: killed workers and       *)
(* retries delay it, no more.                                              *)
ChainDelivers ==
  [](caught \cup uncaught = {}) => <>[](sent > 0 => Delivered)
=============================================================================
