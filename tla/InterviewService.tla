-------------------------- MODULE InterviewService --------------------------
(***************************************************************************)
(* One interview's row and everything that writes it:                      *)
(* app/modules/interview/service.py, reached from the event bus, the API,  *)
(* the expiry reaper and the first task of the offline chain.              *)
(*                                                                         *)
(* Each handler opens a database transaction, reads the row, decides, and  *)
(* commits.  The database runs at READ COMMITTED and the read takes no     *)
(* lock, so a handler is two steps here: one that keeps what was read in   *)
(* txn[t].read and one that writes the columns it changed.  Whatever       *)
(* commits in between is overwritten or kept column by column, which is    *)
(* what the ORM's UPDATE does.  Only the reaper's bulk UPDATE checks and   *)
(* writes in one statement.                                                *)
(*                                                                         *)
(* A voice session is reduced to what the service sees of it: it is        *)
(* offered, it announces its start, it announces its end or is superseded. *)
(***************************************************************************)
EXTENDS InterviewStatus, Naturals

CONSTANTS
  Sessions,     \* the voice sessions a candidate may open for the interview
  Txns,         \* transaction slots: the handlers that may be in flight
  Reasons,      \* the end reasons the sessions give
  MaxRetries,   \* max_retries of the finalize task
  MaxCrashes    \* bound: crashes of the API process

(* The reasons session_manager publishes; see stop() and its callers.      *)
PublishedReasons == {"completed", "abandoned", "timed_out"}

ASSUME ServiceAssumption ==
  /\ None \notin Sessions
  /\ Reasons \subseteq PublishedReasons
  /\ MaxRetries \in Nat
  /\ MaxCrashes \in Nat

VARIABLES
  row,      \* the interview's committed row
  plan,     \* the shape of its question plan
  sess,     \* what each voice session has reached
  bus,      \* events published and not yet handled
  txn,      \* what each open transaction serves and has read
  job,      \* the offline chain started for each session's end
  score,    \* does the score row exist?
  crashes,  \* how often the API process has crashed
  overwritten  \* history: a handler that had read a live interview has
               \* written a status over an end committed since

vars == <<row, plan, sess, bus, txn, job, score, crashes, overwritten>>
-----------------------------------------------------------------------------
Stamps == {None} \cup Statuses

Row == [status : {None} \cup Statuses, started_at : Stamps,
        completed_at : Stamps, recording_key : {None} \cup Sessions]

NoRow == [status |-> None, started_at |-> None,
          completed_at |-> None, recording_key |-> None]

(* "Empty" has no questions (or does not exist yet), "Rubricless" has      *)
(* questions but no criteria, "Complete" has both.                         *)
PlanShapes == {"Empty", "Rubricless", "Complete", "Frozen"}

Event == [kind : {"SessionStarted", "SessionEnded"}, session : Sessions,
          reason : {None} \cup Reasons, recorded : BOOLEAN]

Started(s) == [kind |-> "SessionStarted", session |-> s,
               reason |-> None, recorded |-> FALSE]

Ended(s, reason, recorded) == [kind |-> "SessionEnded", session |-> s,
                               reason |-> reason, recorded |-> recorded]

Ops == {"start", "end", "terminate", "finalize"}

Txn == [op : {"idle"} \cup Ops, session : {None} \cup Sessions,
        reason : {None} \cup Reasons, recorded : BOOLEAN,
        read : Row, plan : {None} \cup PlanShapes]

Idle == [op |-> "idle", session |-> None, reason |-> None,
         recorded |-> FALSE, read |-> NoRow, plan |-> None]

Job == [state : {"none", "sending", "queued", "done", "lost"},
        tries : 0 .. MaxRetries]

Init ==
  /\ row = NoRow
  /\ plan = "Empty"
  /\ sess = [s \in Sessions |-> "none"]
  /\ bus = {}
  /\ txn = [t \in Txns |-> Idle]
  /\ job = [s \in Sessions |-> [state |-> "none", tries |-> 0]]
  /\ score = FALSE
  /\ crashes = 0
  /\ overwritten = FALSE
-----------------------------------------------------------------------------
(* Transactions.                                                           *)

(* A handler's first statement: SELECT the row, without a lock.            *)
Open(t, op, s, reason, recorded) ==
  /\ txn[t] = Idle
  /\ row.status # None
  /\ txn' = [txn EXCEPT ![t] = [op |-> op, session |-> s, reason |-> reason,
                                recorded |-> recorded, read |-> row, plan |-> None]]

Close(t) == txn' = [txn EXCEPT ![t] = Idle]

(* Mutant: the flush writes every column.                                  *)
FlushedWhole(read, new) == new

(* The flush writes a column only if the handler changed what it read.     *)
Flushed(read, new) ==
  LET column(c) == IF new[c] # read[c] THEN new[c] ELSE row[c]
  IN  [status       |-> column("status"),       started_at    |-> column("started_at"),
       completed_at |-> column("completed_at"), recording_key |-> column("recording_key")]

(* Nothing locks the row or counts its versions: what a handler makes of a *)
(* live interview is written although it has ended in the meantime.        *)
EndedMeanwhile(read, new) ==
  ~is_terminal(read.status) /\ new.status # read.status /\ is_terminal(row.status)

Commit(t, new) ==
  /\ row' = Flushed(txn[t].read, new)
  /\ overwritten' = (overwritten \/ EndedMeanwhile(txn[t].read, new))
  /\ Close(t)
-----------------------------------------------------------------------------
(* Creating the row.  Scheduling an interview leaves it CREATED; inviting  *)
(* a candidate opens one that is INVITED from the start.                   *)

create_interview ==
  /\ row.status = None
  /\ row' = [NoRow EXCEPT !.status = "CREATED"]
  /\ UNCHANGED <<plan, sess, bus, txn, job, score, crashes, overwritten>>

create_invite ==
  /\ row.status = None
  /\ row' = [NoRow EXCEPT !.status = "INVITED"]
  /\ UNCHANGED <<plan, sess, bus, txn, job, score, crashes, overwritten>>

(* The plan's own writers (generation and recruiter edits), seen from      *)
(* here.  One that computed its write before a freeze may land on a frozen *)
(* plan too.                                                               *)
PlanWritten(shape) ==
  /\ row.status # None
  /\ plan' = shape
  /\ UNCHANGED <<row, sess, bus, txn, job, score, crashes, overwritten>>
-----------------------------------------------------------------------------
(* Voice sessions, as the service sees them.                               *)

(* The signalling route refuses a terminal interview; a CREATED one has no *)
(* invite, so no candidate holds a token for it.                           *)
offer(s) ==
  /\ sess[s] = "none"
  /\ row.status \in {"INVITED", "IN_PROGRESS"}
  /\ sess' = [sess EXCEPT ![s] = "offered"]
  /\ UNCHANGED <<row, plan, bus, txn, job, score, crashes, overwritten>>

OfferFails(s) ==
  /\ sess[s] = "offered"
  /\ sess' = [sess EXCEPT ![s] = "over"]
  /\ UNCHANGED <<row, plan, bus, txn, job, score, crashes, overwritten>>

SessionStarts(s) ==
  /\ sess[s] = "offered"
  /\ sess' = [sess EXCEPT ![s] = "live"]
  /\ bus' = bus \cup {Started(s)}
  /\ UNCHANGED <<row, plan, txn, job, score, crashes, overwritten>>

SessionEnds(s, reason, recorded) ==
  /\ sess[s] = "live"
  /\ sess' = [sess EXCEPT ![s] = "over"]
  /\ bus' = bus \cup {Ended(s, reason, recorded)}
  /\ UNCHANGED <<row, plan, txn, job, score, crashes, overwritten>>

(* The end is never announced: a reconnect replaced the session, or Redis  *)
(* was down as it ended (VoiceSession has both).                           *)
SessionVanishes(s) ==
  /\ sess[s] = "live"
  /\ sess' = [sess EXCEPT ![s] = "over"]
  /\ UNCHANGED <<row, plan, bus, txn, job, score, crashes, overwritten>>
-----------------------------------------------------------------------------
(* SessionStarted: start().                                                *)

on_session_started(t, e) ==
  /\ e \in bus /\ e.kind = "SessionStarted"
  /\ Open(t, "start", e.session, None, FALSE)
  /\ bus' = bus \ {e}
  /\ UNCHANGED <<row, plan, sess, job, score, crashes, overwritten>>

(* Mutant: start() forgets to look at the status it read.                  *)
StartUnchecked(read) == TRUE

StartAllowed(read) ==
  ~is_terminal(read.status) /\ accepts(read.status, "IN_PROGRESS")

start_reads_plan(t) ==
  /\ txn[t].op = "start" /\ txn[t].plan = None
  /\ StartAllowed(txn[t].read)
  /\ txn' = [txn EXCEPT ![t].plan = plan]
  /\ UNCHANGED <<row, plan, sess, bus, job, score, crashes, overwritten>>

(* The status move and the freeze are one transaction.                     *)
start_commits(t) ==
  /\ txn[t].op = "start" /\ txn[t].plan \in PlanShapes \ {"Rubricless"}
  /\ Commit(t, transition(txn[t].read, "IN_PROGRESS"))
  /\ plan' = IF txn[t].plan = "Complete" THEN "Frozen" ELSE plan
  /\ UNCHANGED <<sess, bus, job, score, crashes>>

(* A finished interview, an illegal move, or freeze() on a plan that has   *)
(* questions but no rubric: the exception rolls everything back, and the   *)
(* bus logs it and goes on.                                                *)
start_raises(t) ==
  /\ txn[t].op = "start"
  /\ ~StartAllowed(txn[t].read) \/ txn[t].plan = "Rubricless"
  /\ Close(t)
  /\ UNCHANGED <<row, plan, sess, bus, job, score, crashes, overwritten>>
-----------------------------------------------------------------------------
(* SessionEnded: finish(), the recording key, then the chain.              *)

(* Mutant: the chain is set off before the end is committed.               *)
on_session_ended_enqueues_first(t, e) ==
  /\ e \in bus /\ e.kind = "SessionEnded"
  /\ Open(t, "end", e.session, e.reason, e.recorded)
  /\ bus' = bus \ {e}
  /\ job' = [job EXCEPT ![e.session].state = "sending"]
  /\ UNCHANGED <<row, plan, sess, score, crashes, overwritten>>

on_session_ended(t, e) ==
  /\ e \in bus /\ e.kind = "SessionEnded"
  /\ Open(t, "end", e.session, e.reason, e.recorded)
  /\ bus' = bus \ {e}
  /\ UNCHANGED <<row, plan, sess, job, score, crashes, overwritten>>

(* finish() leaves the row alone for these, without raising.               *)
NothingToFinish(read, reason) ==
  reason \in NON_TERMINAL_REASONS \/ is_terminal(read.status)

finish(read, reason) ==
  IF NothingToFinish(read, reason) THEN read
  ELSE transition(read, END_REASON_STATUS(reason))

FinishAllowed(read, reason) ==
  NothingToFinish(read, reason) \/ accepts(read.status, END_REASON_STATUS(reason))

(* Mutant: any handler that leaves the interview over sets off a chain.    *)
IsOverNow(read, new) == is_terminal(new.status)

JustEnded(read, new) == ~is_terminal(read.status) /\ is_terminal(new.status)

end_commits(t) ==
  LET x   == txn[t]
      new == [finish(x.read, x.reason) EXCEPT
                !.recording_key = IF x.recorded THEN x.session ELSE @]
  IN  /\ x.op = "end"
      /\ FinishAllowed(x.read, x.reason)
      /\ Commit(t, new)
      /\ job' = IF JustEnded(x.read, new)
                THEN [job EXCEPT ![x.session].state = "sending"] ELSE job
      /\ UNCHANGED <<plan, sess, bus, score, crashes>>

end_raises(t) ==
  /\ txn[t].op = "end"
  /\ ~FinishAllowed(txn[t].read, txn[t].reason)
  /\ Close(t)
  /\ UNCHANGED <<row, plan, sess, bus, job, score, crashes, overwritten>>

(* pipeline.enqueue runs after the commit, outside the transaction, and    *)
(* never raises: with the broker down the chain is not sent.               *)
enqueue(s) ==
  /\ job[s].state = "sending"
  /\ job' = [job EXCEPT ![s].state = "queued"]
  /\ UNCHANGED <<row, plan, sess, bus, txn, score, crashes, overwritten>>

EnqueueFails(s) ==
  /\ job[s].state = "sending"
  /\ job' = [job EXCEPT ![s].state = "lost"]
  /\ UNCHANGED <<row, plan, sess, bus, txn, score, crashes, overwritten>>
-----------------------------------------------------------------------------
(* terminate(): a recruiter's request or a proctoring breach.              *)

terminate_reads(t) ==
  /\ Open(t, "terminate", None, None, FALSE)
  /\ UNCHANGED <<row, plan, sess, bus, job, score, crashes, overwritten>>

TerminateAllowed(read) ==
  ~is_terminal(read.status) /\ can_transition(read.status, "TERMINATED")

terminate_commits(t) ==
  /\ txn[t].op = "terminate"
  /\ TerminateAllowed(txn[t].read)
  /\ Commit(t, transition(txn[t].read, "TERMINATED"))
  /\ UNCHANGED <<plan, sess, bus, job, score, crashes>>

terminate_raises(t) ==
  /\ txn[t].op = "terminate"
  /\ ~TerminateAllowed(txn[t].read)
  /\ Close(t)
  /\ UNCHANGED <<row, plan, sess, bus, job, score, crashes, overwritten>>

(* Mutant: the reaper expires whatever is not over yet.                    *)
expire_unfinished ==
  /\ row.status # None /\ ~is_terminal(row.status)
  /\ row' = [row EXCEPT !.status = "EXPIRED", !.completed_at = "EXPIRED"]
  /\ UNCHANGED <<plan, sess, bus, txn, job, score, crashes, overwritten>>

(* Mutant: the bulk UPDATE forgets the timestamp.                          *)
expire_unstamped ==
  /\ row.status \in {"CREATED", "INVITED"}
  /\ row' = [row EXCEPT !.status = "EXPIRED"]
  /\ UNCHANGED <<plan, sess, bus, txn, job, score, crashes, overwritten>>

(* The reaper: one UPDATE ... WHERE status IN (CREATED, INVITED).          *)
expire_stale ==
  /\ row.status \in {"CREATED", "INVITED"}
  /\ row' = [row EXCEPT !.status = "EXPIRED", !.completed_at = "EXPIRED"]
  /\ UNCHANGED <<plan, sess, bus, txn, job, score, crashes, overwritten>>
-----------------------------------------------------------------------------
(* The first task of the chain, in a worker process.                       *)

finalize_reads(t, s) ==
  /\ job[s].state = "queued"
  /\ \A u \in Txns : ~(txn[u].op = "finalize" /\ txn[u].session = s)
  /\ Open(t, "finalize", s, None, FALSE)
  /\ UNCHANGED <<row, plan, sess, bus, job, score, crashes, overwritten>>

finalize_commits(t) ==
  /\ txn[t].op = "finalize"
  /\ is_terminal(txn[t].read.status)
  /\ score' = TRUE
  /\ job' = [job EXCEPT ![txn[t].session].state = "done"]
  /\ Close(t)
  /\ UNCHANGED <<row, plan, sess, bus, crashes, overwritten>>

(* Still live, or a database error: retried, until the retries are spent.  *)
finalize_raises(t) ==
  LET s == txn[t].session IN
  /\ txn[t].op = "finalize"
  /\ job' = IF job[s].tries < MaxRetries
            THEN [job EXCEPT ![s].tries = @ + 1]
            ELSE [job EXCEPT ![s].state = "lost"]
  /\ Close(t)
  /\ UNCHANGED <<row, plan, sess, bus, score, crashes, overwritten>>
-----------------------------------------------------------------------------
(* Failures.                                                               *)

(* The connection, the statement or the worker dies: the transaction rolls *)
(* back.  A bus handler's event is gone; a task's message is redelivered.  *)
RolledBack(t) ==
  /\ txn[t].op # "idle"
  /\ Close(t)
  /\ UNCHANGED <<row, plan, sess, bus, job, score, crashes, overwritten>>

(* The API process dies: its transactions roll back, the bus and the live  *)
(* sessions are gone, and a chain not yet sent never will be.              *)
ApiCrash ==
  /\ crashes < MaxCrashes
  /\ crashes' = crashes + 1
  /\ txn' = [t \in Txns |-> IF txn[t].op = "finalize" THEN txn[t] ELSE Idle]
  /\ bus' = {}
  /\ sess' = [s \in Sessions |-> IF sess[s] \in {"offered", "live"} THEN "over" ELSE sess[s]]
  /\ job' = [s \in Sessions |-> IF job[s].state = "sending"
                                THEN [job[s] EXCEPT !.state = "lost"] ELSE job[s]]
  /\ UNCHANGED <<row, plan, score, overwritten>>
-----------------------------------------------------------------------------
SessionNext(s) ==
  \/ offer(s) \/ OfferFails(s) \/ SessionStarts(s) \/ SessionVanishes(s)
  \/ \E reason \in Reasons, recorded \in BOOLEAN :
       SessionEnds(s, reason, recorded)

HandlerNext(t) ==
  \/ \E e \in bus : on_session_started(t, e) \/ on_session_ended(t, e)
  \/ start_reads_plan(t) \/ start_commits(t) \/ start_raises(t)
  \/ end_commits(t) \/ end_raises(t)
  \/ terminate_commits(t) \/ terminate_raises(t)
  \/ \E s \in Sessions : finalize_reads(t, s)
  \/ finalize_commits(t) \/ finalize_raises(t)

Next ==
  \/ create_interview \/ create_invite \/ expire_stale \/ ApiCrash
  \/ \E shape \in PlanShapes \ {"Frozen"} : PlanWritten(shape)
  \/ \E s \in Sessions : SessionNext(s) \/ enqueue(s) \/ EnqueueFails(s)
  \/ \E t \in Txns : HandlerNext(t) \/ terminate_reads(t) \/ RolledBack(t)

Spec == Init /\ [][Next]_vars
-----------------------------------------------------------------------------
TypeOK ==
  /\ row \in Row
  /\ plan \in PlanShapes
  /\ sess \in [Sessions -> {"none", "offered", "live", "over"}]
  /\ bus \subseteq Event
  /\ txn \in [Txns -> Txn]
  /\ job \in [Sessions -> Job]
  /\ score \in BOOLEAN
  /\ crashes \in 0 .. MaxCrashes
  /\ overwritten \in BOOLEAN
-----------------------------------------------------------------------------
(* Properties that hold however the transactions interleave.               *)

(* A terminal interview has a completed_at and a live one a started_at:    *)
(* the reports and the expiry read these columns and trust the status to   *)
(* have stamped them.  A flush writes single columns, so two handlers that *)
(* overlap could leave a status of one with the timestamps of another.     *)
StampsAgree ==
  /\ is_terminal(row.status) => row.completed_at # None
  /\ row.status = "IN_PROGRESS" => row.started_at # None

(* EXPIRED tells a recruiter that nobody ever came, so an interview that   *)
(* any session has started is never EXPIRED.  It rests on the reaper       *)
(* checking and writing in one statement while start() does not.           *)
NoShowNeverJoined == row.status = "EXPIRED" => row.started_at = None

(* A plan is frozen by the session that makes the interview live, in the   *)
(* same transaction: no rollback, crash or overlapping handler leaves a    *)
(* frozen plan on an interview that never started.                         *)
FrozenImpliesStarted == plan = "Frozen" => row.started_at # None

(* A chain is on its way to the workers only if the end of the interview   *)
(* that set it off has been committed.                                     *)
ChainOnlyAfterEnd ==
  \A s \in Sessions : job[s].state # "none" => row.completed_at # None

(* No session start or end takes an interview back to before anybody had   *)
(* joined, whatever stale row its handler read.                            *)
NeverUnjoined ==
  [][row.started_at # None => row'.started_at # None
                              /\ row'.status \notin {"CREATED", "INVITED"}]_vars
-----------------------------------------------------------------------------
(* The state machine, and what holds until an end is written over.         *)

Lifecycle == INSTANCE InterviewLifecycle WITH status <- row.status

(* The row implements the state machine in every schedule: from a live     *)
(* status it moves along LEGAL only, though the handler decided on an older *)
(* one, and a terminal status is left or written again only by a handler   *)
(* that had read a live interview before the end was committed.            *)
ImplementsLifecycle == Lifecycle!Spec

(* The chain is enqueued once per interview ending, however many sessions  *)
(* of the interview end and in whatever order their events are handled,    *)
(* unless an end was written over another.                                 *)
ChainOnce ==
  ~overwritten =>
    \A s, u \in Sessions :
      job[s].state # "none" /\ job[u].state # "none" => s = u

(* completed_at is the moment the interview ended, stamped by the arrival  *)
(* at the status the row still shows, unless that was written over another *)
(* end.                                                                    *)
EndMomentIsTheEnd ==
  ~overwritten => (is_terminal(row.status) => row.completed_at = row.status)

(* The first task of the chain finds the interview over, so it spends no   *)
(* retry on a live one (interview_tasks._finalize allows for it), unless a *)
(* handler reopened it.                                                    *)
FinalizeFindsItOver ==
  ~overwritten =>
    \A t \in Txns : txn[t].op = "finalize" => is_terminal(txn[t].read.status)
-----------------------------------------------------------------------------
(* What the documentation says and the code does not do.                   *)

(* "Terminal states are absorbing ... a rule they cannot break"            *)
(* (state_machine.py:12-15).  A start() that has read the row before the   *)
(* end commits after it breaks it: transition() checks the row it was      *)
(* given, not the one in the database.                                     *)
TerminalIsAbsorbing ==
  [][is_terminal(row.status) => row'.status = row.status]_vars
=============================================================================
