---------------------------- MODULE QuestionPlan ----------------------------
(***************************************************************************)
(* The question plan of one interview: app/modules/question_plan/service.py*)
(* with its writers.  Recruiters edit and approve it through the API, the  *)
(* generation task writes it from a worker, and the start of the interview *)
(* freezes it.                                                             *)
(*                                                                         *)
(* A transaction is a step that reads and a step that commits, as in       *)
(* InterviewService, and no row is locked between the two.  A generation   *)
(* is two transactions with a model call of tens of seconds between them,  *)
(* during which anything may happen.                                       *)
(*                                                                         *)
(* The questions are abstracted to who wrote them, and so is the rubric.   *)
(* The clock is abstracted to whether a GENERATING plan was touched in the *)
(* last 300 seconds (fresh).                                               *)
(***************************************************************************)
EXTENDS Naturals, FiniteSets

CONSTANTS
  Requests,     \* API requests and session starts, each made once
  Tasks,        \* messages to the generation task
  MaxOpen,      \* bound: transactions open at once
  MaxRetries    \* MAX_RETRIES of the generation task

ASSUME PlanAssumption ==
  /\ MaxOpen \in Nat \ {0}
  /\ MaxRetries \in Nat
  /\ Requests \cap Tasks = {}
  /\ "None" \notin Requests \cup Tasks

VARIABLES
  plan,      \* the committed plan
  live,      \* has the interview started?
  resume,    \* what has become of the candidate's CV
  req,       \* the requests
  task,      \* the generation messages
  trouble,   \* what has gone wrong with a generation
  lost       \* history: "version" once two commits got one version number,
             \* "freeze" once a commit undid a freeze

vars == <<plan, live, resume, req, task, trouble, lost>>
-----------------------------------------------------------------------------
None == "None"

Authors == {None} \cup Requests \cup Tasks

PlanStatus == {"DRAFT", "APPROVED", "FROZEN"}

PlanGenerationStatus == {"PENDING", "GENERATING", "READY", "FAILED"}

Plan == [status : PlanStatus, gen : PlanGenerationStatus, version : Nat,
         approved_at : BOOLEAN, resume_id : BOOLEAN,
         questions : Authors, criteria : Authors, fresh : BOOLEAN]

(* ensure_plan: the shell a generation will fill.                          *)
Shell == [status |-> "DRAFT", gen |-> "PENDING", version |-> 1, approved_at |-> FALSE,
          resume_id |-> FALSE, questions |-> None, criteria |-> None, fresh |-> FALSE]

(* What a recruiter sees of it, and sends back the version of.             *)
Contents(p) == [version |-> p.version, questions |-> p.questions, criteria |-> p.criteria]

NoContents == [version |-> 0, questions |-> None, criteria |-> None]

is_editable(p) == p.status # "FROZEN"

Edits == {"replace_questions", "replace_criteria", "approve"}

Ops == Edits \cup {"generate", "start"}

(* seen is what was on the screen of an author who sends expected_version  *)
(* (NoContents if it is left out), read what the transaction has read.     *)
Request == [op : {None} \cup Ops, step : {"idle", "loaded", "open", "done"},
            seen : [version : Nat, questions : Authors, criteria : Authors],
            read : Plan]

(* "checking" is the first transaction, "calling" the model call and       *)
(* "applying" or "failing" the second transaction.                         *)
Generating == {"calling", "applying", "failing"}

Task == [state : {"none", "queued", "checking", "done"} \cup Generating,
         force : BOOLEAN, tries : 0 .. MaxRetries, read : Plan]

NewRequest == [op |-> None, step |-> "idle", seen |-> NoContents, read |-> Shell]

NewTask == [state |-> "none", force |-> FALSE, tries |-> 0, read |-> Shell]

EndedTask == [NewTask EXCEPT !.state = "done"]

(* The candidate has just been invited: the shell is committed and its     *)
(* generation sent off, unless the broker did not take it.                 *)
Init ==
  /\ plan = Shell
  /\ live = FALSE
  /\ resume = "none"
  /\ req = [r \in Requests |-> NewRequest]
  /\ \E sent \in SUBSET Tasks :
       /\ \A k, l \in sent : k = l
       /\ task = [k \in Tasks |-> IF k \in sent THEN [NewTask EXCEPT !.state = "queued"]
                                 ELSE NewTask]
  /\ trouble = "none"
  /\ lost = {}
-----------------------------------------------------------------------------
(* Transactions.                                                           *)

Open == {r \in Requests : req[r].step = "open"}
        \cup {k \in Tasks : task[k].state \in {"checking", "applying", "failing"}}

MayOpen == Cardinality(Open) < MaxOpen

(* The UPDATE writes the columns the handler changed, and touches          *)
(* updated_at if there are any.                                            *)
Flushed(read, new) ==
  LET column(c) == IF new[c] # read[c] THEN new[c] ELSE plan[c]
  IN  [status |-> column("status"), gen |-> column("gen"), version |-> column("version"),
       approved_at |-> column("approved_at"), resume_id |-> column("resume_id"),
       questions |-> column("questions"), criteria |-> column("criteria"),
       fresh |-> new # read \/ plan.fresh]

(* A commit of what was made of what was read.  The row may be another one *)
(* by now: a version counted up from an old one has been given before.     *)
Written(read, new) ==
  /\ plan' = Flushed(read, new)
  /\ lost' = lost \cup
       {race \in {"version", "freeze"} :
          IF race = "version" THEN new.version # read.version /\ read.version # plan.version
          ELSE plan.status = "FROZEN" /\ plan'.status # "FROZEN"}

Done(r) == req' = [req EXCEPT ![r] = [NewRequest EXCEPT !.step = "done"]]

(* A message to the worker; Tasks bounds how many are ever sent.           *)
Enqueue(force) ==
  \E k \in Tasks : /\ task[k].state = "none"
                   /\ task' = [task EXCEPT ![k].state = "queued", ![k].force = force]

Finished(k) == task' = [task EXCEPT ![k] = EndedTask]

(* The task raised: Celery delivers it again until its retries are spent.  *)
Retried(k) ==
  IF task[k].tries < MaxRetries
  THEN task' = [task EXCEPT ![k].state = "queued", ![k].tries = @ + 1, ![k].read = Shell]
  ELSE Finished(k)
-----------------------------------------------------------------------------
(* The candidate's CV (external: its own ingestion).                       *)
ResumeUploaded ==
  /\ resume = "none"
  /\ resume' = "incoming"
  /\ UNCHANGED <<plan, live, req, task, trouble, lost>>

ResumeSettles ==
  /\ resume = "incoming"
  /\ resume' \in {"ready", "none"}
  /\ UNCHANGED <<plan, live, req, task, trouble, lost>>

(* Once the CV is READY its task replans what was planned without it.      *)
_regenerate_plans_without_this_resume ==
  /\ resume = "ready"
  /\ resume' = "replanned"
  /\ IF ~plan.resume_id /\ is_editable(plan)
     THEN Enqueue(TRUE) ELSE UNCHANGED task
  /\ UNCHANGED <<plan, live, req, trouble, lost>>

ResumeReady == resume \in {"ready", "replanned"}
-----------------------------------------------------------------------------
(* Requests.                                                               *)

(* A recruiter loads the plan to edit it ...                               *)
Loads(r, op) ==
  /\ req[r].step = "idle"
  /\ op \in Edits
  /\ req' = [req EXCEPT ![r].op = op, ![r].step = "loaded", ![r].seen = Contents(plan)]
  /\ UNCHANGED <<plan, live, resume, task, trouble, lost>>

(* ... or sends no version.  The transaction reads the plan anew.          *)
Opens(r, op) ==
  /\ req[r].step = "idle" \/ (req[r].step = "loaded" /\ req[r].op = op)
  /\ MayOpen
  /\ req' = [req EXCEPT ![r].op = op, ![r].step = "open", ![r].read = plan]
  /\ UNCHANGED <<plan, live, resume, task, trouble, lost>>

_guard(r) ==
  /\ is_editable(req[r].read)
  /\ req[r].seen # NoContents => req[r].seen.version = req[r].read.version

Edited(r, new) ==
  /\ req[r].step = "open"
  /\ Written(req[r].read, [new EXCEPT !.version = @ + 1])
  /\ Done(r)
  /\ UNCHANGED <<live, resume, task, trouble>>

replace_questions(r) ==
  /\ req[r].op = "replace_questions" /\ _guard(r)
  /\ Edited(r, [req[r].read EXCEPT !.questions = r])

replace_criteria(r) ==
  /\ req[r].op = "replace_criteria" /\ _guard(r)
  /\ Edited(r, [req[r].read EXCEPT !.criteria = r])

Approvable(p) == p.gen = "READY" /\ p.questions # None /\ p.criteria # None

approve(r) ==
  /\ req[r].op = "approve" /\ _guard(r) /\ Approvable(req[r].read)
  /\ Edited(r, [req[r].read EXCEPT !.status = "APPROVED", !.approved_at = TRUE])

generation_in_flight(p) == p.gen = "GENERATING" /\ p.fresh

(* A click on Generate.  Its transaction points the plan at the CV; a      *)
(* message follows the commit unless a generation is thought to be running.*)
request_generation(r) ==
  LET read == req[r].read
      new  == [read EXCEPT !.resume_id = ResumeReady \/ @]
  IN  /\ req[r].op = "generate" /\ req[r].step = "open"
      /\ is_editable(read)
      /\ Written(read, new)
      /\ IF generation_in_flight([new EXCEPT !.fresh = new # read \/ @])
         THEN UNCHANGED task ELSE Enqueue(TRUE)
      /\ Done(r)
      /\ UNCHANGED <<live, resume, trouble>>

(* start() and freeze(): a plan without questions is left as it is.        *)
Freezes(p) == p.status # "FROZEN" /\ p.questions # None

start(r) ==
  LET read == req[r].read IN
  /\ req[r].op = "start" /\ req[r].step = "open"
  /\ Freezes(read) => read.criteria # None
  /\ live' = TRUE
  /\ IF Freezes(read)
     THEN Written(read, [read EXCEPT !.status = "FROZEN", !.version = @ + 1])
     ELSE UNCHANGED <<plan, lost>>
  /\ Done(r)
  /\ UNCHANGED <<resume, task, trouble>>

(* A guard refuses, a constraint or the connection fails: all is undone.   *)
RequestRaises(r) ==
  /\ req[r].step = "open"
  /\ Done(r)
  /\ UNCHANGED <<plan, live, resume, task, trouble, lost>>
-----------------------------------------------------------------------------
(* The generation task.                                                    *)

generate_reads(k) ==
  /\ task[k].state = "queued" /\ MayOpen
  /\ task' = [task EXCEPT ![k].state = "checking", ![k].read = plan]
  /\ UNCHANGED <<plan, live, resume, req, trouble, lost>>

AlreadyRunning(k) == generation_in_flight(task[k].read)

NothingToDo(k) ==
  LET read == task[k].read
  IN  \/ ~is_editable(read)
      \/ read.gen = "READY" /\ ~task[k].force
      \/ AlreadyRunning(k) /\ ~task[k].force

(* A running generation, or a CV that is still being parsed.               *)
WorthWaiting(k) ==
  \/ AlreadyRunning(k)
  \/ task[k].tries < MaxRetries /\ resume = "incoming"

generate_skips(k) ==
  /\ task[k].state = "checking"
  /\ NothingToDo(k)
  /\ Finished(k)
  /\ UNCHANGED <<plan, live, resume, req, trouble, lost>>

generate_waits(k) ==
  /\ task[k].state = "checking"
  /\ ~NothingToDo(k) /\ WorthWaiting(k)
  /\ Retried(k)
  /\ UNCHANGED <<plan, live, resume, req, trouble, lost>>

(* GENERATING is committed before the model is called.  Restarting a stale *)
(* generation changes no column, so the plan stays stale.                  *)
generate_goes(k) ==
  LET read == task[k].read
      new  == [read EXCEPT !.gen = "GENERATING", !.resume_id = ResumeReady \/ @]
  IN  /\ task[k].state = "checking"
      /\ ~NothingToDo(k) /\ ~WorthWaiting(k)
      /\ Written(read, new)
      /\ task' = [task EXCEPT ![k].state = "calling", ![k].read = Shell]
      /\ UNCHANGED <<live, resume, req, trouble>>

(* The model answers, or it fails (a timeout of the task included); either *)
(* way a second transaction opens.                                         *)
ModelReturns(k, state) ==
  /\ task[k].state = "calling" /\ MayOpen
  /\ state \in {"applying", "failing"}
  /\ task' = [task EXCEPT ![k].state = state, ![k].read = plan]
  /\ UNCHANGED <<plan, live, resume, req, trouble, lost>>

(* Mutant: the plan is written without another look at its status.         *)
apply_generated_unchecked(k) ==
  /\ task[k].state = "applying"
  /\ Written(task[k].read,
             [task[k].read EXCEPT !.gen = "READY", !.version = @ + 1,
                                  !.questions = k, !.criteria = k])
  /\ Finished(k)
  /\ UNCHANGED <<live, resume, req, trouble>>

(* Mutant: regenerating does not count as a change.                        *)
apply_generated_unversioned(k) ==
  /\ task[k].state = "applying" /\ is_editable(task[k].read)
  /\ Written(task[k].read,
             [task[k].read EXCEPT !.status = "DRAFT", !.gen = "READY",
                                  !.questions = k, !.criteria = k])
  /\ Finished(k)
  /\ UNCHANGED <<live, resume, req, trouble>>

(* Whatever was there is replaced; a sign-off stays on record.             *)
apply_generated(k) ==
  /\ task[k].state = "applying" /\ is_editable(task[k].read)
  /\ Written(task[k].read,
             [task[k].read EXCEPT !.status = "DRAFT", !.gen = "READY",
                                  !.version = @ + 1,
                                  !.questions = k, !.criteria = k])
  /\ Finished(k)
  /\ UNCHANGED <<live, resume, req, trouble>>

(* PlanFrozenError is an exception like any other: the task is retried.    *)
apply_refused(k) ==
  /\ task[k].state = "applying" /\ ~is_editable(task[k].read)
  /\ Retried(k)
  /\ UNCHANGED <<plan, live, resume, req, trouble, lost>>

(* Mutant: a failure is recorded only once the retries are spent.          *)
mark_failed_at_last(k) ==
  /\ task[k].state = "failing"
  /\ IF task[k].tries = MaxRetries
     THEN Written(task[k].read, [task[k].read EXCEPT !.gen = "FAILED"])
     ELSE UNCHANGED <<plan, lost>>
  /\ Retried(k)
  /\ UNCHANGED <<live, resume, req, trouble>>

mark_failed(k) ==
  /\ task[k].state = "failing"
  /\ Written(task[k].read, [task[k].read EXCEPT !.gen = "FAILED"])
  /\ Retried(k)
  /\ UNCHANGED <<live, resume, req, trouble>>
-----------------------------------------------------------------------------
(* What may go wrong with a generation: one thing per behaviour.           *)

(* The database fails a transaction of the task.                           *)
TaskRaises(k) ==
  /\ task[k].state \in {"checking", "applying", "failing"}
  /\ trouble = "none" /\ trouble' = "raised"
  /\ Retried(k)
  /\ UNCHANGED <<plan, live, resume, req, lost>>

(* The worker is killed, and the message redelivered.                      *)
WorkerLost(k) ==
  /\ task[k].state \in Generating \cup {"checking"}
  /\ trouble = "none" /\ trouble' = "killed"
  /\ task' = [task EXCEPT ![k].state = "queued", ![k].read = Shell]
  /\ UNCHANGED <<plan, live, resume, req, lost>>

(* 300 seconds pass.  A task may run for 600, so the generation may live.  *)
Ages ==
  /\ generation_in_flight(plan)
  /\ plan' = [plan EXCEPT !.fresh = FALSE]
  /\ IF \E k \in Tasks : task[k].state \in Generating
     THEN trouble \in {"none", "slow"} /\ trouble' = "slow"
     ELSE UNCHANGED trouble
  /\ UNCHANGED <<live, resume, req, task, lost>>
-----------------------------------------------------------------------------
RequestNext(r) ==
  \/ \E op \in Ops : Loads(r, op) \/ Opens(r, op)
  \/ replace_questions(r) \/ replace_criteria(r) \/ approve(r)
  \/ request_generation(r) \/ start(r) \/ RequestRaises(r)

TaskNext(k) ==
  \/ generate_reads(k) \/ generate_skips(k) \/ generate_waits(k) \/ generate_goes(k)
  \/ \E state \in {"applying", "failing"} : ModelReturns(k, state)
  \/ apply_generated(k) \/ apply_refused(k) \/ mark_failed(k)

Next ==
  \/ ResumeUploaded \/ ResumeSettles \/ _regenerate_plans_without_this_resume
  \/ \E r \in Requests : RequestNext(r)
  \/ \E k \in Tasks : TaskNext(k) \/ TaskRaises(k) \/ WorkerLost(k)
  \/ Ages

Spec == Init /\ [][Next]_vars
-----------------------------------------------------------------------------
TypeOK ==
  /\ plan \in Plan
  /\ live \in BOOLEAN
  /\ resume \in {"none", "incoming", "ready", "replanned"}
  /\ req \in [Requests -> Request]
  /\ task \in [Tasks -> Task]
  /\ trouble \in {"none", "raised", "killed", "slow"}
  /\ lost \subseteq {"version", "freeze"}
-----------------------------------------------------------------------------
(* Frozen is permanent but for a transaction that had read the plan before *)
(* it froze: no edit, no start and no generation that came later changes   *)
(* it, one that was already with the model included.                       *)
FrozenIsPermanent ==
  [][plan.status = "FROZEN" =>
       \/ plan'.status = "FROZEN" /\ Contents(plan') = Contents(plan)
       \/ \E r \in Requests : /\ req[r].step = "open" /\ req'[r].step = "done"
                              /\ is_editable(req[r].read)
       \/ \E k \in Tasks : /\ task[k].state = "applying" /\ task'[k].state = "done"
                           /\ is_editable(task[k].read)]_vars

(* An edit that carries the version its author read replaces exactly what  *)
(* its author saw, as long as no two commits get one version number: no    *)
(* edit and no generation between the screen and the save is overwritten.  *)
NoSilentOverwrite ==
  [][\A r \in Requests :
       /\ req[r].step = "open" /\ req'[r].step = "done"
       /\ req[r].seen # NoContents /\ plan' # plan /\ "version" \notin lost'
       => Contents(plan) = req[r].seen]_vars

(* A plan that is GENERATING has a worker that will settle it, unless      *)
(* something went wrong with one or the interview froze the plan meanwhile *)
(* (and a commit that had read it earlier may have undone that).           *)
GeneratingHasAWorker ==
  plan.gen = "GENERATING" =>
    \/ plan.status = "FROZEN" \/ "freeze" \in lost \/ trouble # "none"
    \/ \E k \in Tasks : task[k].state \in Generating
-----------------------------------------------------------------------------
(* What the documentation says and the code does not do.                   *)

(* "FROZEN IS PERMANENT ... Every mutating function checks this first"     *)
(* (service.py:5-9).  What it checks is what its transaction has read.     *)
FrozenStays ==
  [][plan.status = "FROZEN"
     => plan'.status = "FROZEN" /\ Contents(plan') = Contents(plan)]_vars

(* "Two recruiters editing the same plan must not have one silently        *)
(* overwrite the other" (models/question_plan.py:127-129).                 *)
EditsProtected ==
  [][\A r \in Requests :
       /\ req[r].step = "open" /\ req'[r].step = "done"
       /\ req[r].seen # NoContents /\ plan' # plan
       => Contents(plan) = req[r].seen]_vars
=============================================================================
