------------------------------ MODULE Candidacy ------------------------------
(***************************************************************************)
(* A candidate from the invite to the question plan: invites              *)
(* (app/modules/auth/invites.py), the upload of a CV and its processing    *)
(* (app/modules/resume/service.py, app/workers/tasks/resume_tasks.py), the *)
(* re-planning a finished CV sets off, and the erasure of all of it        *)
(* (app/modules/users/service.py).                                         *)
(*                                                                         *)
(* A request is a chain of awaits, and so is a delivery of the processing  *)
(* task: each step reads or commits, and others run in between.  The       *)
(* worker acknowledges late, so a lost worker's message comes back.        *)
(*                                                                         *)
(* The contents of a plan and its edits are a module of their own          *)
(* (QuestionPlan); here a generation is the CV it reads, and what becomes  *)
(* of its message.  A CV's text and its vectors are abstracted to whether  *)
(* all of its chunks are stored and embedded.                              *)
(***************************************************************************)
EXTENDS Naturals, FiniteSets

CONSTANTS
  Interviews,      \* interviews this candidate may be invited to
  Resumes,         \* CVs this candidate may upload
  Calls,           \* API requests in flight at once
  Tasks,           \* bound: messages to the processing task
  MaxRedemptions,  \* max_redemptions of an invite
  MaxRetries,      \* MAX_RETRIES of the processing task
  PlanRetries,     \* MAX_RETRIES of the generation task
  MaxMishaps       \* bound: crashes, lost workers and lost messages

ASSUME CandidacyAssumption ==
  /\ MaxRedemptions \in Nat \ {0} /\ MaxRetries \in Nat
  /\ PlanRetries \in Nat /\ MaxMishaps \in Nat
  /\ "None" \notin Interviews \cup Resumes /\ IsFiniteSet(Calls)

VARIABLES
  candidate,  \* is there a row of the candidate?
  interview,  \* how far an interview is
  invite,     \* its invite
  issued,     \* how many interview tokens its link has yielded
  admitted,   \* has the candidate an interview token?  (That it expires only forbids.)
  plan,       \* the question plan of an interview
  gen,        \* the generations of an interview's plan, and their messages
  resume,     \* the rows of the resumes table
  file,       \* the objects under their keys
  call,       \* the requests in flight
  task,       \* the messages to the processing task
  history     \* what the properties need to know of the past

vars == <<candidate, interview, invite, issued, admitted, plan, gen, resume, file, call,
          task, history>>
-----------------------------------------------------------------------------
None == "None"

ResumeStatus == {"PENDING", "UPLOADED", "PARSING", "READY", "FAILED"}

Resume == [status : {None} \cup ResumeStatus, embedded : BOOLEAN]

NoResume == [status |-> None, embedded |-> FALSE]

Invite == [status : {None, "PENDING", "REDEEMED", "REVOKED"},
           count : 0 .. MaxRedemptions, expired : BOOLEAN]

NoInvite == [status |-> None, count |-> 0, expired |-> FALSE]

(* The generation of the invite, and one that replaces a plan.             *)
Kinds == {"first", "forced"}

(* The messages of each kind in the queue, which stand for the last one    *)
(* that was sent, and how often it was tried; the ones whose generation is *)
(* at the model; and is the row GENERATING?                                *)
Generation == [sent : SUBSET Kinds, tries : [Kinds -> 0 .. PlanRetries],
               begun : SUBSET Kinds, generating : BOOLEAN]

NoGeneration == [sent |-> {}, tries |-> [m \in Kinds |-> 0], begun |-> {}, generating |-> FALSE]

Idle == [step |-> "idle", on |-> None]

NoTask == [step |-> "none", resume |-> None, tries |-> 0, todo |-> {}]

UNCHANGED_invites == UNCHANGED <<interview, invite, issued, admitted>>

Ready == \E r \in Resumes : resume[r].status = "READY"

(* has_incoming_resume, when no CV is ready.                               *)
Incoming == ~Ready /\ \E r \in Resumes : resume[r].status \in {"UPLOADED", "PARSING"}

Init ==
  /\ candidate = TRUE
  /\ interview = [i \in Interviews |-> None]
  /\ invite = [i \in Interviews |-> NoInvite]
  /\ issued = [i \in Interviews |-> 0]
  /\ admitted = FALSE
  /\ plan = [i \in Interviews |-> None]
  /\ gen = [i \in Interviews |-> NoGeneration]
  /\ resume = [r \in Resumes |-> NoResume]
  /\ file = [r \in Resumes |-> None]
  /\ call = [c \in Calls |-> Idle]
  /\ task = [t \in Tasks |-> NoTask]
  /\ history = [mishaps |-> 0, stranded |-> {}, unplanned |-> {}, dropped |-> {},
                 lost |-> [i \in Interviews |-> 0]]

Ends(c) == call' = [call EXCEPT ![c] = Idle]

Goes(c, step) == call' = [call EXCEPT ![c].step = step]

Mishap == history.mishaps < MaxMishaps

delay(i, message) ==
  gen' = [gen EXCEPT ![i].sent = @ \cup {message}, ![i].tries[message] = 0]
-----------------------------------------------------------------------------
(* The recruiter's side.                                                   *)

(* The invite, its interview and the shell of its plan are one commit; the *)
(* generation is sent afterwards, and the broker may not take it.          *)
create_invite(i) ==
  /\ candidate /\ interview[i] = None
  /\ interview' = [interview EXCEPT ![i] = "INVITED"]
  /\ invite' = [invite EXCEPT ![i].status = "PENDING"]
  /\ plan' = [plan EXCEPT ![i] = "shell"]
  /\ \/ delay(i, "first") /\ UNCHANGED history
     \/ /\ Mishap
        /\ history' = [history EXCEPT !.mishaps = @ + 1, !.unplanned = @ \cup {i}]
        /\ UNCHANGED gen
  /\ UNCHANGED <<candidate, issued, admitted, resume, file, call, task>>

(* It is only ever set: without a ready CV the plan names what it named.   *)
attach_latest_resume(i) == IF Ready THEN "grounded" ELSE plan[i]

(* The recruiter clicks Generate.  The plan names the ready CV at once.  A *)
(* fresh generation has read its CV before, and the click sends no other;  *)
(* so has a plan whose message the broker does not take.                   *)
request_generation(i) ==
  /\ plan[i] \in {"shell", "bare", "grounded"}
  /\ plan' = [plan EXCEPT ![i] = attach_latest_resume(i)]
  /\ \/ delay(i, "forced") /\ UNCHANGED history
     \/ /\ gen[i].generating \/ Mishap
        /\ history' = [history EXCEPT
             !.mishaps = IF gen[i].generating THEN @ ELSE @ + 1,
             !.unplanned = IF Ready /\ plan[i] # "grounded" THEN @ \cup {i} ELSE @]
        /\ UNCHANGED gen
  /\ UNCHANGED <<candidate, resume, file, call, task>> /\ UNCHANGED_invites

(* The row lock of the conditional UPDATE, held until its transaction      *)
(* commits or is rolled back.                                              *)
Locked(i) == \E c \in Calls : call[c].step \in {"claimed", "redeeming"} /\ call[c].on = i

(* Part of the module's interface; no route calls it yet.                  *)
revoke_invite(i) ==
  /\ invite[i].status \in {"PENDING", "REDEEMED"} /\ ~Locked(i)
  /\ invite' = [invite EXCEPT ![i].status = "REVOKED"]
  /\ UNCHANGED <<candidate, interview, issued, admitted, plan, gen, resume, file, call, task,
                 history>>

InviteExpires(i) ==
  /\ invite[i].status # None /\ ~invite[i].expired
  /\ invite' = [invite EXCEPT ![i].expired = TRUE]
  /\ UNCHANGED <<candidate, interview, issued, admitted, plan, gen, resume, file, call, task,
                 history>>

(* delete_candidate: the cascade takes every row, the files stay.  It      *)
(* waits for the rows that are locked.                                     *)
delete_candidate ==
  /\ candidate /\ \A i \in Interviews : ~Locked(i)
  /\ candidate' = FALSE
  /\ interview' = [i \in Interviews |-> None]
  /\ invite' = [i \in Interviews |-> NoInvite]
  /\ plan' = [i \in Interviews |-> None]
  /\ gen' = [i \in Interviews |-> [gen[i] EXCEPT !.generating = FALSE]]
  /\ resume' = [r \in Resumes |-> NoResume]
  /\ UNCHANGED <<issued, admitted, file, call, task, history>>
-----------------------------------------------------------------------------
(* Redeeming the link.                                                     *)

(* The predicates of _REDEEM_SQL.                                          *)
Redeemable(i) ==
  /\ invite[i].status \in {"PENDING", "REDEEMED"}
  /\ ~invite[i].expired
  /\ invite[i].count < MaxRedemptions

redeem_claims(c, i) ==
  /\ call[c].step = "idle"
  /\ ~Locked(i) /\ Redeemable(i)
  /\ call' = [call EXCEPT ![c] = [Idle EXCEPT !.step = "claimed", !.on = i]]
  /\ UNCHANGED <<candidate, interview, invite, issued, admitted, plan, gen, resume, file, task,
                 history>>

(* Mutant: the count is committed before the interview is looked at.       *)
redeem_reads_late(c) ==
  LET i == call[c].on
  IN  /\ call[c].step = "claimed"
      /\ IF interview[i] = "OVER"
         THEN Ends(c) /\ invite' = [invite EXCEPT ![i].count = @ + 1]
         ELSE Goes(c, "redeeming") /\ UNCHANGED invite
      /\ UNCHANGED <<candidate, interview, issued, admitted, plan, gen, resume, file, task,
                     history>>

(* An interview that is over rolls the redemption back.                    *)
redeem_reads(c) ==
  /\ call[c].step = "claimed"
  /\ IF interview[call[c].on] = "OVER" THEN Ends(c) ELSE Goes(c, "redeeming")
  /\ UNCHANGED <<candidate, interview, invite, issued, admitted, plan, gen, resume, file, task,
                 history>>

(* The charge is committed, and the lock given up, before there is a       *)
(* token.                                                                  *)
redeem_invite(c) ==
  LET i == call[c].on
  IN  /\ call[c].step = "redeeming"
      /\ invite' = [invite EXCEPT ![i].status = "REDEEMED", ![i].count = @ + 1]
      /\ Goes(c, "minting")
      /\ UNCHANGED <<candidate, interview, issued, admitted, plan, gen, resume, file, task,
                     history>>

(* A token for the interview, which outlives the link, and its erasure.    *)
create_interview_token(c) ==
  /\ call[c].step = "minting"
  /\ issued' = [issued EXCEPT ![call[c].on] = @ + 1]
  /\ admitted' = TRUE
  /\ Ends(c)
  /\ UNCHANGED <<candidate, interview, invite, plan, gen, resume, file, task, history>>
-----------------------------------------------------------------------------
(* The interview, as far as it matters here.                               *)
InterviewStarts(i) ==
  /\ interview[i] = "INVITED" /\ admitted
  /\ interview' = [interview EXCEPT ![i] = "IN_PROGRESS"]
  /\ plan' = [plan EXCEPT ![i] = "frozen"]
  /\ UNCHANGED <<candidate, invite, issued, admitted, gen, resume, file, call, task, history>>

(* A redemption that has read it before goes through all the same.         *)
InterviewEnds(i) ==
  /\ interview[i] \in {"INVITED", "IN_PROGRESS"}
  /\ interview' = [interview EXCEPT ![i] = "OVER"]
  /\ UNCHANGED <<candidate, invite, issued, admitted, plan, gen, resume, file, call, task, history>>

-----------------------------------------------------------------------------
(* The generation task.  It acknowledges late, like the processing task.   *)

(* Is the plan one for this message to write?  The first one leaves what   *)
(* was generated as it is (a plan that names a CV may have been, or not).  *)
Writes(i, message) ==
  plan[i] \in IF message = "first" THEN {"shell", "grounded"} ELSE {"shell", "bare", "grounded"}

Leaves(i, message) ==
  gen' = [gen EXCEPT ![i].sent = @ \ {message}, ![i].tries[message] = 0]

(* Mutant: a replan is a duplicate of the generation under way.            *)
generate_skips_all(i, message) ==
  /\ message \in gen[i].sent
  /\ ~Writes(i, message) \/ gen[i].generating \/ (message = "first" /\ plan[i] # "shell")
  /\ Leaves(i, message)
  /\ UNCHANGED <<candidate, plan, resume, file, call, task, history>> /\ UNCHANGED_invites

(* Nothing to write, or the first message finds a generation under way.    *)
generate_skips(i, message) ==
  /\ message \in gen[i].sent
  /\ ~Writes(i, message) \/ (message = "first" /\ (plan[i] # "shell" \/ gen[i].generating))
  /\ Leaves(i, message)
  /\ UNCHANGED <<candidate, plan, resume, file, call, task, history>> /\ UNCHANGED_invites

(* A forced message comes back in 30 seconds when a fresh generation is    *)
(* under way; so does the one that finds a CV on its way.                  *)
generate_waits(i, message) ==
  /\ message \in gen[i].sent /\ Writes(i, message)
  /\ (message = "forced" /\ gen[i].generating) \/ Incoming
  /\ gen[i].tries[message] < PlanRetries
  /\ gen' = [gen EXCEPT ![i].tries[message] = @ + 1]
  /\ UNCHANGED <<candidate, plan, resume, file, call, task, history>> /\ UNCHANGED_invites

(* It has waited as often as it may, and the generation is still fresh:    *)
(* self.retry raises, and the message is gone.                             *)
generate_gives_up(i) ==
  /\ "forced" \in gen[i].sent /\ Writes(i, "forced")
  /\ gen[i].generating /\ gen[i].tries["forced"] = PlanRetries
  /\ Leaves(i, "forced")
  /\ history' = [history EXCEPT !.dropped = @ \cup {i}]
  /\ UNCHANGED <<candidate, plan, resume, file, call, task>> /\ UNCHANGED_invites

(* _gather_context: the plan names the CV that it is written from.  A plan *)
(* with none is a shell until it is READY again.                           *)
_gather_context(i) == IF Ready \/ plan[i] = "grounded" THEN "grounded" ELSE "shell"

(* The first transaction of a generation.  One that is GENERATING is       *)
(* begun again when it has been so for GENERATION_STALE_AFTER_SECS, its    *)
(* worker dead or only slow.                                               *)
generate_reads(i, message) ==
  /\ message \in gen[i].sent /\ Writes(i, message)
  /\ Incoming => gen[i].tries[message] = PlanRetries
  /\ plan' = [plan EXCEPT ![i] = _gather_context(i)]
  /\ gen' = [gen EXCEPT ![i].sent = @ \ {message}, ![i].begun = @ \cup {message},
                        ![i].generating = TRUE]
  /\ UNCHANGED <<candidate, resume, file, call, task, history>> /\ UNCHANGED_invites

(* The transaction after the model's answer: READY.                        *)
apply_generated(i, message) ==
  /\ message \in gen[i].begun /\ plan[i] \in {"shell", "bare", "grounded"}
  /\ plan' = [plan EXCEPT ![i] = IF @ = "shell" THEN "bare" ELSE @]
  /\ gen' = [gen EXCEPT ![i].begun = @ \ {message}, ![i].generating = FALSE]
  /\ UNCHANGED <<candidate, resume, file, call, task, history>> /\ UNCHANGED_invites

IsOver(i, message) == [gen[i] EXCEPT !.begun = @ \ {message}]

(* A message that was begun comes back, after n tries, unless one of its   *)
(* kind was sent since.                                                    *)
ComesBack(i, message, n) ==
  IF message \in gen[i].sent THEN IsOver(i, message)
  ELSE [IsOver(i, message) EXCEPT !.sent = @ \cup {message}, !.tries[message] = n]

(* The model fails, and the row is marked FAILED (a plan it had written is *)
(* no longer READY); or a transaction raises, and the row stays as it is.  *)
(* The message is retried until there are no retries left.                 *)
generate_fails(i, message) ==
  LET n == gen[i].tries[message]
  IN  /\ message \in gen[i].begun
      /\ \E marked \in BOOLEAN :
           /\ gen' = [gen EXCEPT ![i] =
                [IF n < PlanRetries THEN ComesBack(i, message, n + 1) ELSE IsOver(i, message)
                   EXCEPT !.generating = @ /\ ~marked]]
           /\ plan' = [plan EXCEPT ![i] = IF marked /\ @ = "bare" THEN "shell" ELSE @]
      /\ UNCHANGED <<candidate, resume, file, call, task, history>> /\ UNCHANGED_invites

(* The first transaction raises: the same, but nothing was read.           *)
generate_raises(i, message) ==
  /\ message \in gen[i].sent
  /\ IF gen[i].tries[message] < PlanRetries
     THEN gen' = [gen EXCEPT ![i].tries[message] = @ + 1] /\ UNCHANGED history
     ELSE Leaves(i, message) /\ history' = [history EXCEPT !.unplanned = @ \cup {i}]
  /\ UNCHANGED <<candidate, plan, resume, file, call, task>> /\ UNCHANGED_invites

(* The worker is killed at the model: the message comes back to a row that *)
(* is GENERATING.                                                          *)
GenerationLost(i, message) ==
  /\ Mishap /\ message \in gen[i].begun
  /\ gen' = [gen EXCEPT ![i] = ComesBack(i, message, gen[i].tries[message])]
  /\ history' = [history EXCEPT !.mishaps = @ + 1]
  /\ UNCHANGED <<candidate, plan, resume, file, call, task>> /\ UNCHANGED_invites
-----------------------------------------------------------------------------
(* The upload.                                                             *)

start_upload(r) ==
  /\ admitted /\ candidate /\ resume[r].status = None
  /\ resume' = [resume EXCEPT ![r].status = "PENDING"]
  /\ UNCHANGED <<candidate, plan, gen, file, call, task, history>> /\ UNCHANGED_invites

(* The signed URL takes an upload more than once, whatever its size.       *)
Uploads(r, f) ==
  /\ resume[r].status # None /\ file[r] # f
  /\ file' = [file EXCEPT ![r] = f]
  /\ UNCHANGED <<candidate, plan, gen, resume, call, task, history>> /\ UNCHANGED_invites

complete_reads(c, r) ==
  /\ call[c].step = "idle" /\ admitted
  /\ resume[r].status = "PENDING"
  /\ call' = [call EXCEPT ![c] = [Idle EXCEPT !.step = "heading", !.on = r]]
  /\ UNCHANGED <<candidate, plan, gen, resume, file, task, history>> /\ UNCHANGED_invites

head_object(c) ==
  /\ call[c].step = "heading"
  /\ CASE file[call[c].on] = None -> Ends(c)
       [] file[call[c].on] = "oversize" -> Goes(c, "deleting")
       [] OTHER -> Goes(c, "completing")
  /\ UNCHANGED <<candidate, plan, gen, resume, file, task, history>> /\ UNCHANGED_invites

(* The object goes; the FAILED goes too, with the transaction the          *)
(* exception rolls back.                                                   *)
complete_refuses(c) ==
  /\ call[c].step = "deleting"
  /\ file' = [file EXCEPT ![call[c].on] = None]
  /\ Ends(c)
  /\ UNCHANGED <<candidate, plan, gen, resume, task, history>> /\ UNCHANGED_invites

complete_upload(c) ==
  LET r == call[c].on
  IN  /\ call[c].step = "completing" /\ resume[r].status # None
      /\ resume' = [resume EXCEPT ![r].status = "UPLOADED"]
      /\ Goes(c, "enqueueing")
      /\ UNCHANGED <<candidate, plan, gen, file, task, history>> /\ UNCHANGED_invites

(* The row was erased: the UPDATE matches nothing and raises.              *)
complete_raises(c) ==
  /\ call[c].step = "completing" /\ resume[call[c].on].status = None
  /\ Ends(c)
  /\ UNCHANGED <<candidate, plan, gen, resume, file, task, history>> /\ UNCHANGED_invites

(* complete_own_resume sends the task after the commit, if the broker is   *)
(* there to take it.                                                       *)
enqueue(c) ==
  LET r == call[c].on
  IN  /\ call[c].step = "enqueueing"
      /\ \/ \E t \in Tasks :
              /\ task[t] = NoTask
              /\ task' = [task EXCEPT ![t].step = "queued", ![t].resume = r]
              /\ UNCHANGED history
         \/ /\ Mishap
            /\ history' = [history EXCEPT !.mishaps = @ + 1, !.stranded = @ \cup {r}]
            /\ UNCHANGED task
      /\ Ends(c)
      /\ UNCHANGED <<candidate, plan, gen, resume, file>> /\ UNCHANGED_invites
-----------------------------------------------------------------------------
(* The processing task.                                                    *)

TaskDone(t) == task' = [task EXCEPT ![t] = [NoTask EXCEPT !.step = "done"]]

TaskGoes(t, step) == task' = [task EXCEPT ![t].step = step]

(* Mutant: a CV that is being parsed is somebody else's.                   *)
SettledOrTaken(status) == status \in {"READY", "PENDING", "PARSING"}

Settled(status) == status \in {"READY", "PENDING"}

process_begins(t) ==
  LET r == task[t].resume
  IN  /\ task[t].step = "queued" /\ resume[r].status # None
      /\ IF Settled(resume[r].status)
         THEN TaskDone(t) /\ UNCHANGED resume
         ELSE TaskGoes(t, "parsing") /\ resume' = [resume EXCEPT ![r].status = "PARSING"]
      /\ UNCHANGED <<candidate, plan, gen, file, call, history>> /\ UNCHANGED_invites

(* Size is not asked again.                                                *)
process_parses(t) ==
  LET f == file[task[t].resume]
  IN  /\ task[t].step = "parsing" /\ f # None
      /\ TaskGoes(t, IF f = "garbled" THEN "failing" ELSE "storing")
      /\ UNCHANGED <<candidate, plan, gen, resume, file, call, history>> /\ UNCHANGED_invites

process_fails(t) ==
  LET r == task[t].resume
  IN  /\ task[t].step = "failing" /\ resume[r].status # None
      /\ resume' = [resume EXCEPT ![r].status = "FAILED"]
      /\ TaskDone(t)
      /\ UNCHANGED <<candidate, plan, gen, file, call, history>> /\ UNCHANGED_invites

(* Mutant: the row read at the start is thought good enough.               *)
process_stores_blind(t) ==
  /\ task[t].step = "storing"
  /\ resume' = [resume EXCEPT ![task[t].resume] = [status |-> "READY", embedded |-> TRUE]]
  /\ TaskGoes(t, "replanning")
  /\ UNCHANGED <<candidate, plan, gen, file, call, history>> /\ UNCHANGED_invites

(* The chunks, their vectors and READY are one transaction.                *)
process_stores(t) ==
  LET r == task[t].resume
  IN  /\ task[t].step = "storing" /\ resume[r].status # None
      /\ resume' = [resume EXCEPT ![r] = [status |-> "READY", embedded |-> TRUE]]
      /\ TaskGoes(t, "replanning")
      /\ UNCHANGED <<candidate, plan, gen, file, call, history>> /\ UNCHANGED_invites

WithoutCV == {i \in Interviews : plan[i] \in {"shell", "bare"}}

replan_selects(t) ==
  /\ task[t].step = "replanning" /\ resume[task[t].resume].status # None
  /\ task' = [task EXCEPT ![t].step = "sending", ![t].todo = WithoutCV]
  /\ UNCHANGED <<candidate, plan, gen, resume, file, call, history>> /\ UNCHANGED_invites

replan_sends(t) ==
  /\ task[t].step = "sending"
  /\ IF task[t].todo = {}
     THEN TaskDone(t) /\ UNCHANGED gen
     ELSE \E i \in task[t].todo :
            /\ delay(i, "forced")
            /\ task' = [task EXCEPT ![t].todo = @ \ {i}]
  /\ UNCHANGED <<candidate, plan, resume, file, call, history>> /\ UNCHANGED_invites

InHand(t) == task[t].step \notin {"none", "queued", "done"}

(* The plans a delivery that dies here has yet to be sent for.             *)
Owed(t) == CASE task[t].step = "replanning" -> WithoutCV
             [] task[t].step = "sending" -> task[t].todo
             [] OTHER -> {}

(* Any exception: storage, model, broker or a row that is gone.  The task  *)
(* is retried until there are no retries left.                             *)
process_raises(t) ==
  LET last == task[t].tries = MaxRetries
  IN  /\ \/ InHand(t)
         \/ task[t].step = "queued" /\ resume[task[t].resume].status = None
      /\ IF last THEN TaskDone(t)
         ELSE task' = [task EXCEPT ![t].step = "queued", ![t].tries = @ + 1, ![t].todo = {}]
      /\ history' = [history EXCEPT !.unplanned = @ \cup Owed(t),
                       !.stranded = IF last THEN @ \cup {task[t].resume} ELSE @]
      /\ UNCHANGED <<candidate, plan, gen, resume, file, call>> /\ UNCHANGED_invites

WorkerLost(t) ==
  /\ Mishap /\ InHand(t)
  /\ task' = [task EXCEPT ![t].step = "queued", ![t].todo = {}]
  /\ history' = [history EXCEPT !.mishaps = @ + 1, !.unplanned = @ \cup Owed(t)]
  /\ UNCHANGED <<candidate, plan, gen, resume, file, call>> /\ UNCHANGED_invites

Minting(i) == {c \in Calls : call[c].step = "minting" /\ call[c].on = i}

(* The requests die where they are, one that has charged a link among them.*)
ApiCrash ==
  /\ Mishap /\ \E c \in Calls : call[c] # Idle
  /\ call' = [c \in Calls |-> Idle]
  /\ history' = [history EXCEPT !.mishaps = @ + 1,
                   !.stranded = @ \cup {r \in Resumes : \E c \in Calls :
                                          call[c].step = "enqueueing" /\ call[c].on = r},
                   !.lost = [i \in Interviews |-> @[i] + Cardinality(Minting(i))]]
  /\ UNCHANGED <<candidate, plan, gen, resume, file, task>> /\ UNCHANGED_invites
-----------------------------------------------------------------------------
InviteNext ==
  \/ \E i \in Interviews : \/ create_invite(i) \/ revoke_invite(i) \/ InviteExpires(i)
                           \/ request_generation(i)
                           \/ InterviewStarts(i) \/ InterviewEnds(i)
                           \/ \E c \in Calls : redeem_claims(c, i)
  \/ \E c \in Calls : redeem_reads(c) \/ redeem_invite(c) \/ create_interview_token(c)
  \/ delete_candidate

GenerateNext(i) ==
  \/ generate_gives_up(i)
  \/ \E message \in Kinds :
       \/ generate_skips(i, message) \/ generate_waits(i, message) \/ generate_reads(i, message)
       \/ apply_generated(i, message) \/ generate_fails(i, message)
       \/ generate_raises(i, message) \/ GenerationLost(i, message)

UploadNext ==
  \/ \E r \in Resumes : \/ start_upload(r)
                        \/ \E f \in {"good", "garbled", "oversize"} : Uploads(r, f)
                        \/ \E c \in Calls : complete_reads(c, r)
  \/ \E c \in Calls : \/ head_object(c) \/ complete_refuses(c) \/ complete_upload(c)
                      \/ complete_raises(c) \/ enqueue(c)
  \/ ApiCrash

ProcessNext(t) ==
  \/ process_begins(t) \/ process_parses(t) \/ process_fails(t) \/ process_stores(t)
  \/ replan_selects(t) \/ replan_sends(t) \/ process_raises(t) \/ WorkerLost(t)

Next ==
  \/ InviteNext \/ UploadNext
  \/ \E i \in Interviews : GenerateNext(i)
  \/ \E t \in Tasks : ProcessNext(t)

Spec == Init /\ [][Next]_vars
-----------------------------------------------------------------------------
(* Of the past: CVs and plans whose message is gone, plans whose message   *)
(* gave up waiting, and charges whose request died before its token.       *)
History == [mishaps : 0 .. MaxMishaps, stranded : SUBSET Resumes,
            unplanned : SUBSET Interviews, dropped : SUBSET Interviews,
            lost : [Interviews -> 0 .. MaxRedemptions]]

TypeOK ==
  /\ candidate \in BOOLEAN
  /\ interview \in [Interviews -> {None, "INVITED", "IN_PROGRESS", "OVER"}]
  /\ invite \in [Interviews -> Invite]
  /\ issued \in [Interviews -> 0 .. MaxRedemptions]
  /\ admitted \in BOOLEAN
  /\ plan \in [Interviews -> {None, "shell", "bare", "grounded", "frozen"}]
  /\ gen \in [Interviews -> Generation]
  /\ resume \in [Resumes -> Resume]
  /\ file \in [Resumes -> {None, "good", "garbled", "oversize"}]
  /\ call \in [Calls -> [step : {"idle", "claimed", "redeeming", "minting", "heading", "deleting",
                                 "completing", "enqueueing"},
                         on : {None} \cup Interviews \cup Resumes]]
  /\ task \in [Tasks -> [step : {"none", "queued", "parsing", "failing", "storing",
                                 "replanning", "sending", "done"},
                         resume : {None} \cup Resumes, tries : 0 .. MaxRetries,
                         todo : SUBSET Interviews]]
  /\ history \in History

(* However its redemptions race, refusals and rollbacks among them, a link *)
(* is charged once for each token it yields: the rest of its count is the  *)
(* requests that are about to be given theirs, and the ones that died      *)
(* between the commit and the token.                                       *)
EveryTokenIsCharged ==
  candidate => \A i \in Interviews :
    invite[i].count = issued[i] + Cardinality(Minting(i)) + history.lost[i]

(* A CV that a plan waits for is in somebody's hands: a request about to   *)
(* send its task, a message or a worker.  Otherwise its message was lost   *)
(* before it was sent, or every retry was used up.                         *)
IncomingHasATask ==
  \A r \in Resumes :
    resume[r].status \in {"UPLOADED", "PARSING"} =>
      \/ r \in history.stranded
      \/ \E c \in Calls : call[c].step = "enqueueing" /\ call[c].on = r
      \/ \E t \in Tasks : task[t].resume = r /\ task[t].step # "done"

(* A message that writes the plan when its turn comes.                     *)
WillWrite(i) ==
  \E message \in gen[i].sent : Writes(i, message) /\ (message = "first" => ~gen[i].generating)

IsSentFor(i) == \E t \in Tasks : task[t].step = "replanning" \/ i \in task[t].todo

(* The point of ingesting a CV: a plan that names none is going to be      *)
(* written again.  Otherwise the message for it was lost or failed to its  *)
(* last retry; the recruiter asked for a generation while one that had     *)
(* read no CV was under way; or the message waited for such a generation   *)
(* and gave up before it was stale.                                        *)
ReadyCVReachesPlans ==
  \A i \in Interviews :
    Ready /\ plan[i] \in {"shell", "bare"} =>
      WillWrite(i) \/ IsSentFor(i) \/ i \in history.unplanned \/ i \in history.dropped

(* The same without the last excuse, as the generation task's comment has  *)
(* it: a replan that finds a generation under way must not be dropped.     *)
ReplanIsNotDropped ==
  \A i \in Interviews :
    Ready /\ plan[i] \in {"shell", "bare"} =>
      WillWrite(i) \/ IsSentFor(i) \/ i \in history.unplanned

(* Whatever was under way when a candidate was erased, no row comes back.  *)
ErasureHolds ==
  ~candidate => /\ \A r \in Resumes : resume[r] = NoResume
                /\ \A i \in Interviews : /\ plan[i] = None /\ invite[i] = NoInvite
                                         /\ interview[i] = None

=============================================================================
