------------------------- MODULE QuestionPlanProofs -------------------------
(***************************************************************************)
(* Proofs about QuestionPlan, for any requests, messages and retries.      *)
(*                                                                         *)
(* The argument.  The plan's row has no lock, so a commit may land on a    *)
(* plan that is another one than it read.  Every commit that changes the   *)
(* contents counts the version up from what it read: unless it gives a     *)
(* number that was given before, it lands on what it read.  Till then a    *)
(* version has one content, so an author whose version still stands has    *)
(* seen the plan (SeenSound).  What a commit does not change it does not   *)
(* write either; so the worker that clears GENERATING is one that read it, *)
(* or has not read again yet (InGoodHands), and one that is refused has    *)
(* found a freeze that still stands or was undone (StillFrozen).           *)
(***************************************************************************)
EXTENDS QuestionPlan, TLAPS

(* Only an edit names a version, and it is one that the plan has had: the  *)
(* contents it was seen with are the plan's until the version moves on.    *)
SeenFits(x) ==
  /\ x.step = "idle" \/ x.op \notin Edits => x.seen = NoContents
  /\ x.seen # NoContents /\ "version" \notin lost =>
       /\ x.seen.version <= plan.version
       /\ x.seen.version = plan.version => x.seen = Contents(plan)

SeenSound == \A r \in Requests : SeenFits(req[r])

(* A worker whose end will clear GENERATING.                               *)
Settles(y) ==
  \/ y.state = "calling"
  \/ y.state \in {"applying", "failing"} /\ y.read.gen = "GENERATING"

WasFrozen == plan.status = "FROZEN" \/ "freeze" \in lost

InGoodHands ==
  plan.gen = "GENERATING" =>
    WasFrozen \/ trouble # "none" \/ \E k \in Tasks : Settles(task[k])

StillFrozen ==
  \A k \in Tasks :
    task[k].state = "applying" /\ ~is_editable(task[k].read) => WasFrozen

IInv == TypeOK /\ InGoodHands /\ StillFrozen /\ SeenSound
-----------------------------------------------------------------------------
OpenTask(x) == x.state \in {"checking", "applying", "failing"}

(* What a step does to the plan, of FrozenIsPermanent and NoSilentOverwrite.*)
Kept ==
  /\ plan.status = "FROZEN" =>
       \/ plan'.status = "FROZEN" /\ Contents(plan') = Contents(plan)
       \/ \E r \in Requests : /\ req[r].step = "open" /\ req'[r].step = "done"
                              /\ is_editable(req[r].read)
       \/ \E k \in Tasks : /\ task[k].state = "applying" /\ task'[k].state = "done"
                           /\ is_editable(task[k].read)
  /\ \A r \in Requests :
       /\ req[r].step = "open" /\ req'[r].step = "done"
       /\ req[r].seen # NoContents /\ plan' # plan /\ "version" \notin lost'
       => Contents(plan) = req[r].seen

(* The rows nobody has written yet are of their types, and hold nothing.   *)
LEMMA Blanks ==
  /\ Shell \in Plan /\ Shell.version = 1 /\ Shell.gen = "PENDING"
  /\ NewRequest \in Request /\ NewRequest.step = "idle" /\ NewRequest.op = None
  /\ NewRequest.seen = NoContents
  /\ NewTask \in Task /\ NewTask.state = "none"
<1>1. Shell \in Plan /\ Shell.version = 1 /\ Shell.gen = "PENDING"
  BY DEF Shell, Plan, PlanStatus, PlanGenerationStatus, Authors
<1>2. NoContents \in [version : Nat, questions : Authors, criteria : Authors]
  BY DEF NoContents, Authors
<1>3. /\ NewRequest \in Request /\ NewRequest.step = "idle" /\ NewRequest.op = None
      /\ NewRequest.seen = NoContents
  BY <1>1, <1>2 DEF NewRequest, Request
<1>4. 0 \in 0 .. MaxRetries
  BY PlanAssumption
<1>5. NewTask \in Task /\ NewTask.state = "none"
  BY <1>1, <1>4 DEF NewTask, Task
<1> QED
  BY <1>1, <1>3, <1>5

(* What a commit writes counts its version up, or leaves the contents.     *)
Counted(read, new) ==
  \/ new.version = read.version + 1
  \/ /\ new.version = read.version /\ new.status = read.status
     /\ new.questions = read.questions /\ new.criteria = read.criteria

(* A commit writes what it changes: with a version not given before, it    *)
(* lands on the version that it read.                                      *)
LEMMA WrittenIs ==
  ASSUME IInv, NEW read \in Plan, NEW new \in Plan, Written(read, new), Counted(read, new)
  PROVE  /\ plan' \in Plan /\ lost' \subseteq {"version", "freeze"} /\ lost \subseteq lost'
         /\ WasFrozen => WasFrozen'
         /\ plan'.gen = IF new.gen # read.gen THEN new.gen ELSE plan.gen
         /\ new.version = read.version =>
              plan'.status = plan.status /\ Contents(plan') = Contents(plan)
         /\ new.version # read.version /\ "version" \notin lost' =>
              read.version = plan.version /\ plan'.version = plan.version + 1
<1>1. plan \in Plan /\ plan' = Flushed(read, new)
  BY DEF IInv, TypeOK, Written
<1>2. plan' \in Plan
  <2>1. new # read \/ plan.fresh \in BOOLEAN
    BY <1>1 DEF Plan
  <2> QED
    BY <1>1, <2>1 DEF Flushed, Plan
<1>3. /\ plan'.gen = IF new.gen # read.gen THEN new.gen ELSE plan.gen
      /\ plan'.version = IF new.version # read.version THEN new.version ELSE plan.version
      /\ plan'.status = IF new.status # read.status THEN new.status ELSE plan.status
      /\ plan'.questions = IF new.questions # read.questions THEN new.questions ELSE plan.questions
      /\ plan'.criteria = IF new.criteria # read.criteria THEN new.criteria ELSE plan.criteria
  BY <1>1 DEF Flushed
<1>4. /\ lost' \subseteq {"version", "freeze"} /\ lost \subseteq lost'
      /\ "version" \notin lost' => ~(new.version # read.version /\ read.version # plan.version)
      /\ "freeze" \notin lost' => ~(plan.status = "FROZEN" /\ plan'.status # "FROZEN")
  BY DEF IInv, TypeOK, Written
<1>5. WasFrozen => WasFrozen'
  BY <1>4 DEF WasFrozen
<1>6. new.version = read.version =>
        plan'.status = plan.status /\ Contents(plan') = Contents(plan)
  <2>1. read.version + 1 # read.version
    BY DEF Plan
  <2> QED
    BY <1>3, <2>1 DEF Counted, Contents
<1> QED
  BY <1>2, <1>3, <1>4, <1>5, <1>6 DEF Counted

(* A request ends.                                                         *)
LEMMA RequestEnds ==
  ASSUME NEW r \in Requests, Done(r)
  PROVE  \E x \in Request : /\ x.step = "done" /\ x.op = None /\ x.seen = NoContents
                            /\ req' = [req EXCEPT ![r] = x]
<1>1. PICK x : x = [NewRequest EXCEPT !.step = "done"]
  OBVIOUS
<1>2. x \in Request /\ x.step = "done" /\ x.op = None /\ x.seen = NoContents
  <2>1. PICK y \in Request : y = NewRequest /\ y.op = None /\ y.seen = NoContents
    BY Blanks
  <2> QED
    BY <1>1, <2>1 DEF Request
<1> QED
  BY <1>1, <1>2 DEF Done

(* A message ends, goes back to the queue, or is sent.                     *)
LEMMA TaskSteps ==
  ASSUME task \in [Tasks -> Task]
  PROVE  /\ \A k \in Tasks :
              /\ Finished(k) => \E x \in Task : /\ x.state = "done"
                                              /\ task' = [task EXCEPT ![k] = x]
              /\ Retried(k) => \E x \in Task : /\ x.state \in {"queued", "done"}
                                             /\ task' = [task EXCEPT ![k] = x]
         /\ \A force \in BOOLEAN :
              Enqueue(force) =>
                \E k \in Tasks, x \in Task : /\ task[k].state = "none" /\ x.state = "queued"
                                            /\ task' = [task EXCEPT ![k] = x]
<1>1. ASSUME NEW k \in Tasks, Finished(k)
      PROVE  \E x \in Task : x.state = "done" /\ task' = [task EXCEPT ![k] = x]
  <2>1. PICK x : x = EndedTask
    OBVIOUS
  <2>2. x \in Task /\ x.state = "done"
    <3>1. PICK y \in Task : y = NewTask
      BY Blanks
    <3> QED
      BY <2>1, <3>1 DEF EndedTask, Task
  <2> QED
    BY <1>1, <2>1, <2>2 DEF Finished
<1>2. ASSUME NEW k \in Tasks, Retried(k), task[k].tries < MaxRetries
      PROVE  \E x \in Task : x.state = "queued" /\ task' = [task EXCEPT ![k] = x]
  <2>1. PICK y \in Task : y = task[k]
    OBVIOUS
  <2>2. PICK n : n = y.tries + 1
    OBVIOUS
  <2>3. n \in 0 .. MaxRetries
    BY <1>2, <2>1, <2>2, PlanAssumption DEF Task
  <2>4. PICK x : x = [y EXCEPT !.state = "queued", !.tries = n, !.read = Shell]
    OBVIOUS
  <2>5. x \in Task /\ x.state = "queued"
    BY <2>3, <2>4, Blanks DEF Task
  <2>6. task' = [task EXCEPT ![k] = x]
    BY <1>2, <2>1, <2>2, <2>4 DEF Retried
  <2> QED
    BY <2>5, <2>6
<1>3. ASSUME NEW k \in Tasks, Retried(k)
      PROVE  \E x \in Task : x.state \in {"queued", "done"} /\ task' = [task EXCEPT ![k] = x]
  BY <1>1, <1>2, <1>3 DEF Retried
<1>4. ASSUME NEW force \in BOOLEAN, Enqueue(force)
      PROVE  \E k \in Tasks, x \in Task : /\ task[k].state = "none" /\ x.state = "queued"
                                         /\ task' = [task EXCEPT ![k] = x]
  <2>1. PICK k \in Tasks : /\ task[k].state = "none"
                           /\ task' = [task EXCEPT ![k].state = "queued", ![k].force = force]
    BY <1>4 DEF Enqueue
  <2>2. PICK y \in Task : y = task[k]
    OBVIOUS
  <2>3. PICK x : x = [y EXCEPT !.state = "queued", !.force = force]
    OBVIOUS
  <2>4. x \in Task /\ x.state = "queued"
    BY <2>3 DEF Task
  <2>5. task' = [task EXCEPT ![k] = x]
    BY <2>1, <2>2, <2>3
  <2> QED
    BY <2>1, <2>4, <2>5
<1> QED
  BY <1>1, <1>3, <1>4
-----------------------------------------------------------------------------
(* A request goes on with the plan untouched.                              *)
LEMMA RequestKeeps ==
  ASSUME IInv, NEW r \in Requests, NEW x \in Request, req' = [req EXCEPT ![r] = x],
         SeenFits(x), live' \in BOOLEAN, UNCHANGED <<plan, resume, task, trouble, lost>>
  PROVE  IInv' /\ Kept
<1>1. \A s \in Requests : req'[s] = IF s = r THEN x ELSE req[s]
  BY DEF IInv, TypeOK
<1>2. TypeOK'
  BY DEF IInv, TypeOK
<1>3. SeenSound'
  BY <1>1 DEF IInv, SeenSound, SeenFits, Contents
<1>4. InGoodHands' /\ StillFrozen' /\ Kept
  BY DEF IInv, InGoodHands, StillFrozen, WasFrozen, Kept, Contents
<1> QED
  BY <1>2, <1>3, <1>4 DEF IInv

(* A message goes on with the plan untouched: no worker leaves a plan that *)
(* is GENERATING unless it was frozen or there is trouble.                 *)
LEMMA TaskKeeps ==
  ASSUME IInv, NEW k \in Tasks, NEW x \in Task, task' = [task EXCEPT ![k] = x],
         OpenTask(x) => x.read = plan,
         resume' \in {"none", "incoming", "ready", "replanned"},
         trouble' \in {"none", "raised", "killed", "slow"},
         trouble' = "none" => trouble = "none",
         plan.gen = "GENERATING" /\ Settles(task[k]) =>
           Settles(x) \/ trouble' # "none" \/ WasFrozen,
         UNCHANGED <<plan, live, req, lost>>
  PROVE  IInv' /\ Kept
<1>1. \A l \in Tasks : task'[l] = IF l = k THEN x ELSE task[l]
  BY DEF IInv, TypeOK
<1>2. TypeOK'
  BY DEF IInv, TypeOK
<1>3. SeenSound'
  BY DEF IInv, SeenSound, SeenFits, Contents
<1>4. InGoodHands'
  BY <1>1 DEF IInv, InGoodHands, WasFrozen
<1>5. StillFrozen'
  BY <1>1 DEF IInv, StillFrozen, WasFrozen, OpenTask, is_editable
<1>6. Kept
  BY DEF Kept, Contents, IInv, TypeOK
<1> QED
  BY <1>2, <1>3, <1>4, <1>5, <1>6 DEF IInv

(* What the authors of other screens have seen, after a commit.            *)
LEMMA CommitFits ==
  ASSUME IInv, NEW read \in Plan, NEW new \in Plan, Written(read, new), Counted(read, new),
         NEW s \in Requests
  PROVE  /\ req[s].step = "idle" \/ req[s].op \notin Edits => req[s].seen = NoContents
         /\ req[s].seen # NoContents /\ "version" \notin lost' =>
              /\ req[s].seen.version <= plan'.version
              /\ req[s].seen.version = plan'.version => req[s].seen = Contents(plan')
<1>1. SeenFits(req[s]) /\ req[s].seen.version \in Nat /\ plan.version \in Nat
  BY DEF IInv, SeenSound, TypeOK, Request, Plan
<1>2. CASE new.version = read.version
  <2>1. Contents(plan') = Contents(plan) /\ plan'.version = plan.version /\ lost \subseteq lost'
    BY <1>2, WrittenIs DEF Contents
  <2> QED
    BY <1>1, <2>1 DEF SeenFits
<1>3. CASE new.version # read.version
  <2>1. lost \subseteq lost' /\ ("version" \notin lost' => plan'.version = plan.version + 1)
    BY <1>3, WrittenIs
  <2> QED
    BY <1>1, <2>1 DEF SeenFits
<1> QED
  BY <1>2, <1>3

(* A commit of a request that found the plan editable: an edit that names  *)
(* a version names the one that it read.                                   *)
LEMMA RequestCommits ==
  ASSUME IInv, NEW r \in Requests, req[r].step = "open", is_editable(req[r].read),
         NEW v \in Plan, Written(req[r].read, v), Counted(req[r].read, v), Done(r),
         task' = task \/ Enqueue(TRUE), live' \in BOOLEAN, UNCHANGED <<resume, trouble>>,
         v.gen = req[r].read.gen,
         req[r].seen # NoContents =>
           v.version # req[r].read.version /\ req[r].seen.version = req[r].read.version
  PROVE  IInv' /\ Kept
<1>1. PICK x \in Request : /\ x.step = "done" /\ x.op = None /\ x.seen = NoContents
                           /\ req' = [req EXCEPT ![r] = x]
  BY RequestEnds
<1>2. \A s \in Requests : req'[s] = IF s = r THEN x ELSE req[s]
  BY <1>1 DEF IInv, TypeOK
<1>3. /\ task' \in [Tasks -> Task]
      /\ \A k \in Tasks : \/ task'[k] = task[k]
                          \/ task[k].state = "none" /\ task'[k].state = "queued"
  <2>1. CASE task' = task
    BY <2>1 DEF IInv, TypeOK
  <2>2. CASE Enqueue(TRUE)
    <3>1. PICK k \in Tasks, y \in Task : /\ task[k].state = "none" /\ y.state = "queued"
                                        /\ task' = [task EXCEPT ![k] = y]
      BY <2>2, TaskSteps DEF IInv, TypeOK
    <3> QED
      BY <3>1 DEF IInv, TypeOK
  <2> QED
    BY <2>1, <2>2
<1>4. req[r].read \in Plan
  BY DEF IInv, TypeOK, Request
<1>5. /\ plan' \in Plan /\ lost' \subseteq {"version", "freeze"} /\ lost \subseteq lost'
      /\ WasFrozen => WasFrozen'
      /\ plan'.gen = plan.gen
      /\ v.version # req[r].read.version /\ "version" \notin lost' =>
           req[r].read.version = plan.version
  BY <1>4, WrittenIs
<1>6. TypeOK'
  <2>1. req' \in [Requests -> Request]
    BY <1>1 DEF IInv, TypeOK
  <2> QED
    BY <1>3, <1>5, <2>1 DEF IInv, TypeOK
<1>7. SeenSound'
  <2>1. SeenFits(req[r])'
    BY <1>1, <1>2 DEF SeenFits
  <2>2. ASSUME NEW s \in Requests, s # r
        PROVE  SeenFits(req[s])'
    BY <1>2, <1>4, <2>2, CommitFits DEF SeenFits
  <2> QED
    BY <2>1, <2>2 DEF SeenSound
<1>8. InGoodHands'
  <2>1. \A k \in Tasks : Settles(task[k]) => Settles(task'[k])
    BY <1>3 DEF Settles
  <2> QED
    BY <1>5, <2>1 DEF IInv, InGoodHands
<1>9. StillFrozen'
  BY <1>3, <1>5 DEF IInv, StillFrozen
<1>10. Kept
  <2>1. req[r].seen # NoContents /\ "version" \notin lost' => Contents(plan) = req[r].seen
    BY <1>5 DEF IInv, SeenSound, SeenFits
  <2> QED
    BY <1>1, <1>2, <2>1 DEF Kept
<1> QED
  BY <1>6, <1>7, <1>8, <1>9, <1>10 DEF IInv

(* A commit of a message, likewise; it leaves a GENERATING plan only with  *)
(* a model call to come, its own or another's.                             *)
LEMMA TaskCommits ==
  ASSUME IInv, NEW k \in Tasks, OpenTask(task[k]), NEW v \in Plan, NEW x \in Task,
         Written(task[k].read, v), Counted(task[k].read, v),
         task' = [task EXCEPT ![k] = x], ~OpenTask(x),
         UNCHANGED <<live, resume, req, trouble>>,
         v.version # task[k].read.version =>
           /\ task[k].state = "applying" /\ x.state = "done" /\ is_editable(task[k].read),
         v.gen = "GENERATING" => x.state = "calling"
  PROVE  IInv' /\ Kept
<1>1. \A l \in Tasks : task'[l] = IF l = k THEN x ELSE task[l]
  BY DEF IInv, TypeOK
<1>2. task[k].read \in Plan
  BY DEF IInv, TypeOK, Task
<1>3. /\ plan' \in Plan /\ lost' \subseteq {"version", "freeze"} /\ lost \subseteq lost'
      /\ WasFrozen => WasFrozen'
      /\ plan'.gen = IF v.gen # task[k].read.gen THEN v.gen ELSE plan.gen
      /\ v.version = task[k].read.version =>
           plan'.status = plan.status /\ Contents(plan') = Contents(plan)
  BY <1>2, WrittenIs
<1>4. TypeOK'
  BY <1>3 DEF IInv, TypeOK
<1>5. SeenSound'
  BY <1>2, CommitFits DEF SeenSound, SeenFits
<1>6. InGoodHands'
  <2>1. CASE v.gen = "GENERATING"
    BY <1>1, <2>1 DEF InGoodHands, Settles
  <2>2. CASE v.gen # "GENERATING" /\ plan'.gen = "GENERATING"
    <3>1. plan.gen = "GENERATING" /\ task[k].read.gen # "GENERATING"
      BY <1>3, <2>2
    <3>2. ~Settles(task[k])
      BY <3>1 DEF Settles, OpenTask
    <3> QED
      BY <1>1, <1>3, <3>1, <3>2 DEF IInv, InGoodHands
  <2> QED
    BY <2>1, <2>2 DEF InGoodHands
<1>7. StillFrozen'
  BY <1>1, <1>3 DEF IInv, StillFrozen, OpenTask
<1>8. Kept
  <2>1. \/ v.version = task[k].read.version
        \/ task[k].state = "applying" /\ task'[k].state = "done" /\ is_editable(task[k].read)
    BY <1>1
  <2> QED
    BY <1>3, <2>1 DEF Kept
<1> QED
  BY <1>4, <1>5, <1>6, <1>7, <1>8 DEF IInv
-----------------------------------------------------------------------------
(* The CV changes, and perhaps a message is sent.                          *)
LEMMA ResumeMoves ==
  ASSUME IInv, task' = task \/ Enqueue(TRUE),
         resume' \in {"none", "incoming", "ready", "replanned"},
         UNCHANGED <<plan, live, req, trouble, lost>>
  PROVE  IInv' /\ Kept
<1>1. CASE task' = task
  <2>1. TypeOK' /\ Kept
    BY <1>1 DEF IInv, TypeOK, Kept, Contents
  <2>2. InGoodHands' /\ StillFrozen' /\ SeenSound'
    BY <1>1
       DEF IInv, InGoodHands, StillFrozen, WasFrozen, SeenSound, SeenFits, Contents
  <2> QED
    BY <2>1, <2>2 DEF IInv
<1>2. CASE Enqueue(TRUE)
  <2>1. PICK k \in Tasks, x \in Task : /\ task[k].state = "none" /\ x.state = "queued"
                                      /\ task' = [task EXCEPT ![k] = x]
    BY <1>2, TaskSteps DEF IInv, TypeOK
  <2>2. ~OpenTask(x) /\ ~Settles(task[k])
    BY <2>1 DEF OpenTask, Settles
  <2>3. trouble' \in {"none", "raised", "killed", "slow"}
    BY DEF IInv, TypeOK
  <2> QED
    BY <2>1, <2>2, <2>3, TaskKeeps
<1> QED
  BY <1>1, <1>2

(* A recruiter loads the plan: what is on the screen is the plan.          *)
LEMMA LoadsKeep ==
  ASSUME IInv, NEW r \in Requests, NEW op \in Ops, Loads(r, op)
  PROVE  IInv' /\ Kept
<1>1. PICK w \in Request : w = req[r]
  BY DEF IInv, TypeOK
<1>2. PICK c \in [version : Nat, questions : Authors, criteria : Authors] : c = Contents(plan)
  BY DEF IInv, TypeOK, Plan, Contents
<1>3. PICK x : x = [w EXCEPT !.op = op, !.step = "loaded", !.seen = c]
  OBVIOUS
<1>4. x \in Request /\ x.step = "loaded" /\ x.op = op /\ x.seen = c
  BY <1>3 DEF Request
<1>5. req' = [req EXCEPT ![r] = x]
  BY <1>1, <1>2, <1>3 DEF Loads
<1>6. SeenFits(x)
  <2>1. op \in Edits /\ c.version = plan.version /\ plan.version <= plan.version
    BY <1>2 DEF Loads, Contents, IInv, TypeOK, Plan
  <2> QED
    BY <1>2, <1>4, <2>1 DEF SeenFits
<1> QED
  BY <1>4, <1>5, <1>6, RequestKeeps DEF Loads, IInv, TypeOK

(* A transaction opens.                                                    *)
LEMMA OpensKeep ==
  ASSUME IInv, NEW r \in Requests, NEW op \in Ops, Opens(r, op)
  PROVE  IInv' /\ Kept
<1>1. PICK w \in Request : w = req[r]
  BY DEF IInv, TypeOK
<1>2. PICK q \in Plan : q = plan
  BY DEF IInv, TypeOK
<1>3. PICK x : x = [w EXCEPT !.op = op, !.step = "open", !.read = q]
  OBVIOUS
<1>4. /\ x \in Request /\ x.step = "open" /\ x.op = op /\ x.seen = w.seen /\ x.read = plan
  BY <1>2, <1>3 DEF Request
<1>5. req' = [req EXCEPT ![r] = x]
  BY <1>1, <1>2, <1>3 DEF Opens
<1>6. SeenFits(x)
  BY <1>1, <1>4 DEF IInv, SeenSound, SeenFits, Opens
<1> QED
  BY <1>4, <1>5, <1>6, RequestKeeps DEF Opens, IInv, TypeOK

(* A transaction that ends without a word to the plan.                     *)
LEMMA EndsQuietly ==
  ASSUME IInv, NEW r \in Requests, Done(r), live' \in BOOLEAN,
         UNCHANGED <<plan, resume, task, trouble, lost>>
  PROVE  IInv' /\ Kept
<1>1. PICK x \in Request : /\ x.step = "done" /\ x.op = None /\ x.seen = NoContents
                           /\ req' = [req EXCEPT ![r] = x]
  BY RequestEnds
<1>2. SeenFits(x)
  BY <1>1 DEF SeenFits
<1> QED
  BY <1>1, <1>2, RequestKeeps

(* An edit of a plan read as editable counts its version up.               *)
LEMMA EditKeeps ==
  ASSUME IInv, NEW r \in Requests, _guard(r), NEW new \in Plan,
         new.version = req[r].read.version, new.gen = req[r].read.gen,
         Edited(r, new)
  PROVE  IInv' /\ Kept
<1>1. PICK n \in Nat : n = new.version + 1
  BY DEF Plan
<1>2. PICK v : v = [new EXCEPT !.version = n]
  OBVIOUS
<1>3. v \in Plan /\ v.version = n /\ v.gen = new.gen
  BY <1>2 DEF Plan
<1>4. Written(req[r].read, v)
  BY <1>1, <1>2 DEF Edited
<1>5. live' \in BOOLEAN
  BY DEF IInv, TypeOK, Edited
<1>6. v.version # req[r].read.version /\ Counted(req[r].read, v)
  BY <1>1, <1>3 DEF Counted, Plan
<1> QED
  BY <1>3, <1>4, <1>5, <1>6, RequestCommits DEF Edited, _guard

(* The three edits.                                                        *)
LEMMA EditsKeep ==
  ASSUME IInv, NEW r \in Requests,
         replace_questions(r) \/ replace_criteria(r) \/ approve(r)
  PROVE  IInv' /\ Kept
<1>1. PICK p \in Plan : p = req[r].read
  BY DEF IInv, TypeOK, Request
<1>2. r \in Authors
  BY DEF Authors
<1>3. CASE replace_questions(r)
  <2>1. PICK new : new = [p EXCEPT !.questions = r]
    OBVIOUS
  <2>2. new \in Plan /\ new.version = p.version /\ new.gen = p.gen
    BY <1>2, <2>1 DEF Plan
  <2>3. _guard(r) /\ Edited(r, new)
    BY <1>1, <1>3, <2>1 DEF replace_questions
  <2> QED
    BY <1>1, <2>2, <2>3, EditKeeps
<1>4. CASE replace_criteria(r)
  <2>1. PICK new : new = [p EXCEPT !.criteria = r]
    OBVIOUS
  <2>2. new \in Plan /\ new.version = p.version /\ new.gen = p.gen
    BY <1>2, <2>1 DEF Plan
  <2>3. _guard(r) /\ Edited(r, new)
    BY <1>1, <1>4, <2>1 DEF replace_criteria
  <2> QED
    BY <1>1, <2>2, <2>3, EditKeeps
<1>5. CASE approve(r)
  <2>1. PICK new : new = [p EXCEPT !.status = "APPROVED", !.approved_at = TRUE]
    OBVIOUS
  <2>2. new \in Plan /\ new.version = p.version /\ new.gen = p.gen
    BY <2>1 DEF Plan, PlanStatus
  <2>3. _guard(r) /\ Edited(r, new)
    BY <1>1, <1>5, <2>1 DEF approve
  <2> QED
    BY <1>1, <2>2, <2>3, EditKeeps
<1> QED
  BY <1>3, <1>4, <1>5

(* A click on Generate writes the CV at most.                              *)
LEMMA RequestGenerationKeeps ==
  ASSUME IInv, NEW r \in Requests, request_generation(r)
  PROVE  IInv' /\ Kept
<1>1. PICK p \in Plan : p = req[r].read
  BY DEF IInv, TypeOK, Request
<1>2. PICK b \in BOOLEAN : b = (ResumeReady \/ p.resume_id)
  OBVIOUS
<1>3. PICK v : v = [p EXCEPT !.resume_id = b]
  OBVIOUS
<1>4. /\ v \in Plan /\ v.status = p.status /\ v.gen = p.gen /\ v.version = p.version
      /\ v.questions = p.questions /\ v.criteria = p.criteria
  BY <1>3 DEF Plan
<1>5. Written(req[r].read, v) /\ Counted(req[r].read, v)
  BY <1>1, <1>2, <1>3, <1>4 DEF request_generation, Counted
<1>6. task' = task \/ Enqueue(TRUE)
  BY DEF request_generation
<1>7. live' \in BOOLEAN
  BY DEF IInv, TypeOK, request_generation
<1>8. req[r].seen = NoContents
  BY DEF IInv, SeenSound, SeenFits, request_generation, Edits
<1> QED
  BY <1>1, <1>4, <1>5, <1>6, <1>7, <1>8, RequestCommits DEF request_generation

(* The start freezes the plan, with a version of its own, or leaves it.    *)
LEMMA StartKeeps ==
  ASSUME IInv, NEW r \in Requests, start(r)
  PROVE  IInv' /\ Kept
<1>1. PICK p \in Plan : p = req[r].read
  BY DEF IInv, TypeOK, Request
<1>2. live' \in BOOLEAN
  BY DEF start
<1>3. CASE Freezes(p)
  <2>1. PICK n \in Nat : n = p.version + 1
    BY DEF Plan
  <2>2. PICK v : v = [p EXCEPT !.status = "FROZEN", !.version = n]
    OBVIOUS
  <2>3. v \in Plan /\ v.version = n /\ v.gen = p.gen
    BY <2>2 DEF Plan, PlanStatus
  <2>4. Written(req[r].read, v) /\ Counted(req[r].read, v)
    BY <1>1, <1>3, <2>1, <2>2, <2>3 DEF start, Counted
  <2>5. req[r].seen = NoContents
    BY DEF IInv, SeenSound, SeenFits, start, Edits
  <2>6. is_editable(req[r].read)
    BY <1>1, <1>3 DEF Freezes, is_editable
  <2> QED
    BY <1>1, <1>2, <2>3, <2>4, <2>5, <2>6, RequestCommits DEF start
<1>4. CASE ~Freezes(p)
  <2>1. plan' = plan /\ lost' = lost
    BY <1>1, <1>4 DEF start
  <2> QED
    BY <1>2, <2>1, EndsQuietly DEF start
<1> QED
  BY <1>3, <1>4
-----------------------------------------------------------------------------
(* A transaction of a message opens: the first one, or the one that        *)
(* follows the model's answer.                                             *)
LEMMA TaskOpens ==
  ASSUME IInv, NEW k \in Tasks,
         generate_reads(k) \/ \E state \in {"applying", "failing"} : ModelReturns(k, state)
  PROVE  IInv' /\ Kept
<1>1. PICK y \in Task : y = task[k]
  BY DEF IInv, TypeOK
<1>2. PICK q \in Plan : q = plan
  BY DEF IInv, TypeOK
<1>3. ASSUME NEW state \in {"checking", "applying", "failing"},
             task' = [task EXCEPT ![k].state = state, ![k].read = plan],
             y.state = "queued" \/ state \in {"applying", "failing"},
             UNCHANGED <<plan, live, resume, req, trouble, lost>>
      PROVE  IInv' /\ Kept
  <2>1. PICK x : x = [y EXCEPT !.state = state, !.read = q]
    OBVIOUS
  <2>2. x \in Task /\ x.state = state /\ x.read = plan
    BY <1>2, <2>1 DEF Task, Generating
  <2>3. task' = [task EXCEPT ![k] = x]
    BY <1>1, <1>2, <1>3, <2>1
  <2>4. plan.gen = "GENERATING" /\ Settles(task[k]) => Settles(x)
    BY <1>1, <1>3, <2>2 DEF Settles
  <2>5. /\ resume' \in {"none", "incoming", "ready", "replanned"}
        /\ trouble' \in {"none", "raised", "killed", "slow"}
    BY <1>3 DEF IInv, TypeOK
  <2> QED
    BY <1>3, <2>2, <2>3, <2>4, <2>5, TaskKeeps
<1>4. CASE generate_reads(k)
  BY <1>1, <1>3, <1>4 DEF generate_reads
<1>5. CASE \E state \in {"applying", "failing"} : ModelReturns(k, state)
  BY <1>1, <1>3, <1>5 DEF ModelReturns
<1> QED
  BY <1>4, <1>5

(* A message ends or goes back to the queue with nothing written: from its *)
(* first transaction, because the plan is frozen, or for trouble.          *)
LEMMA TaskEnds ==
  ASSUME IInv, NEW k \in Tasks, Finished(k) \/ Retried(k),
         trouble' \in {"none", "raised", "killed", "slow"},
         trouble' = "none" => trouble = "none",
         \/ task[k].state = "checking"
         \/ task[k].state = "applying" /\ ~is_editable(task[k].read)
         \/ trouble' # "none",
         UNCHANGED <<plan, live, resume, req, lost>>
  PROVE  IInv' /\ Kept
<1>1. PICK x \in Task : x.state \in {"queued", "done"} /\ task' = [task EXCEPT ![k] = x]
  BY TaskSteps DEF IInv, TypeOK
<1>2. ~OpenTask(x)
  BY <1>1 DEF OpenTask
<1>3. Settles(task[k]) => trouble' # "none" \/ WasFrozen
  BY DEF IInv, StillFrozen, Settles
<1>4. resume' \in {"none", "incoming", "ready", "replanned"}
  BY DEF IInv, TypeOK
<1> QED
  BY <1>1, <1>2, <1>3, <1>4, TaskKeeps

(* The worker is killed in any of its steps.                               *)
LEMMA WorkerLostKeeps ==
  ASSUME IInv, NEW k \in Tasks, WorkerLost(k)
  PROVE  IInv' /\ Kept
<1>1. PICK y \in Task : y = task[k]
  BY DEF IInv, TypeOK
<1>2. PICK x : x = [y EXCEPT !.state = "queued", !.read = Shell]
  OBVIOUS
<1>3. x \in Task /\ ~OpenTask(x)
  BY <1>2, Blanks DEF Task, OpenTask
<1>4. task' = [task EXCEPT ![k] = x]
  BY <1>1, <1>2 DEF WorkerLost
<1>5. resume' \in {"none", "incoming", "ready", "replanned"} /\ trouble' = "killed"
  BY DEF IInv, TypeOK, WorkerLost
<1> QED
  BY <1>3, <1>4, <1>5, TaskKeeps DEF WorkerLost

(* GENERATING is committed with the model call to come.                    *)
LEMMA GenerateGoesKeeps ==
  ASSUME IInv, NEW k \in Tasks, generate_goes(k)
  PROVE  IInv' /\ Kept
<1>1. PICK y \in Task : y = task[k]
  BY DEF IInv, TypeOK
<1>2. PICK p \in Plan : p = y.read
  BY DEF Task
<1>3. PICK b \in BOOLEAN : b = (ResumeReady \/ p.resume_id)
  OBVIOUS
<1>4. PICK v : v = [p EXCEPT !.gen = "GENERATING", !.resume_id = b]
  OBVIOUS
<1>5. /\ v \in Plan /\ v.status = p.status /\ v.version = p.version
      /\ v.questions = p.questions /\ v.criteria = p.criteria
  BY <1>3, <1>4 DEF Plan, PlanGenerationStatus
<1>6. Written(task[k].read, v) /\ Counted(task[k].read, v)
  BY <1>1, <1>2, <1>3, <1>4, <1>5 DEF generate_goes, Counted
<1>7. PICK x : x = [y EXCEPT !.state = "calling", !.read = Shell]
  OBVIOUS
<1>8. x \in Task /\ x.state = "calling"
  BY <1>7, Blanks DEF Task, Generating
<1>9. task' = [task EXCEPT ![k] = x]
  BY <1>1, <1>7 DEF generate_goes
<1>10. ~OpenTask(x)
  BY <1>8 DEF OpenTask
<1>11. OpenTask(task[k])
  BY DEF OpenTask, generate_goes
<1> QED
  BY <1>1, <1>2, <1>5, <1>6, <1>8, <1>9, <1>10, <1>11, TaskCommits DEF generate_goes

(* The generation is written to a plan that is still editable, with a      *)
(* version of its own.                                                     *)
LEMMA ApplyGeneratedKeeps ==
  ASSUME IInv, NEW k \in Tasks, apply_generated(k)
  PROVE  IInv' /\ Kept
<1>1. PICK p \in Plan : p = task[k].read
  BY DEF IInv, TypeOK, Task
<1>2. PICK n \in Nat : n = p.version + 1
  BY DEF Plan
<1>3. PICK v : v = [p EXCEPT !.status = "DRAFT", !.gen = "READY", !.version = n,
                             !.questions = k, !.criteria = k]
  OBVIOUS
<1>4. v \in Plan /\ v.version = n /\ v.gen = "READY"
  BY <1>3 DEF Plan, PlanStatus, PlanGenerationStatus, Authors
<1>5. Written(task[k].read, v) /\ Counted(task[k].read, v)
  BY <1>1, <1>2, <1>3, <1>4 DEF apply_generated, Counted
<1>6. PICK x \in Task : x.state = "done" /\ task' = [task EXCEPT ![k] = x]
  BY TaskSteps DEF IInv, TypeOK, apply_generated
<1>7. ~OpenTask(x) /\ OpenTask(task[k])
  BY <1>6 DEF OpenTask, apply_generated
<1> QED
  BY <1>4, <1>5, <1>6, <1>7, TaskCommits DEF apply_generated

(* A failure touches the status of the generation alone.                   *)
LEMMA MarkFailedKeeps ==
  ASSUME IInv, NEW k \in Tasks, mark_failed(k)
  PROVE  IInv' /\ Kept
<1>1. PICK p \in Plan : p = task[k].read
  BY DEF IInv, TypeOK, Task
<1>2. PICK v : v = [p EXCEPT !.gen = "FAILED"]
  OBVIOUS
<1>3. /\ v \in Plan /\ v.status = p.status /\ v.version = p.version /\ v.gen = "FAILED"
      /\ v.questions = p.questions /\ v.criteria = p.criteria
  BY <1>2 DEF Plan, PlanGenerationStatus
<1>4. Written(task[k].read, v) /\ Counted(task[k].read, v)
  BY <1>1, <1>2, <1>3 DEF mark_failed, Counted
<1>5. PICK x \in Task : x.state \in {"queued", "done"} /\ task' = [task EXCEPT ![k] = x]
  BY TaskSteps DEF IInv, TypeOK, mark_failed
<1>6. ~OpenTask(x) /\ OpenTask(task[k])
  BY <1>5 DEF OpenTask, mark_failed
<1> QED
  BY <1>1, <1>3, <1>4, <1>5, <1>6, TaskCommits DEF mark_failed

(* Time passes: the plan is what it was, but older.                        *)
LEMMA AgesKeeps ==
  ASSUME IInv, Ages
  PROVE  IInv' /\ Kept
<1>1. PICK p \in Plan : p = plan
  BY DEF IInv, TypeOK
<1>2. PICK q : q = [p EXCEPT !.fresh = FALSE]
  OBVIOUS
<1>3. /\ plan' = q /\ q \in Plan /\ q.status = p.status /\ q.gen = p.gen
      /\ q.version = p.version /\ q.questions = p.questions /\ q.criteria = p.criteria
  BY <1>1, <1>2 DEF Ages, Plan
<1>4. /\ trouble' \in {"none", "raised", "killed", "slow"}
      /\ trouble' = "none" => trouble = "none"
  BY DEF Ages, IInv, TypeOK
<1>5. UNCHANGED <<live, resume, req, task, lost>>
  BY DEF Ages
<1>6. TypeOK'
  BY <1>3, <1>4, <1>5 DEF IInv, TypeOK
<1>7. Contents(plan') = Contents(plan)
  BY <1>1, <1>3 DEF Contents
<1>8. Kept
  BY <1>1, <1>3, <1>5, <1>7 DEF Kept
<1>9. SeenSound'
  BY <1>1, <1>3, <1>5, <1>7 DEF IInv, SeenSound, SeenFits
<1>10. InGoodHands' /\ StillFrozen'
  BY <1>1, <1>3, <1>4, <1>5 DEF IInv, InGoodHands, StillFrozen, WasFrozen
<1> QED
  BY <1>6, <1>8, <1>9, <1>10 DEF IInv
-----------------------------------------------------------------------------
(* The invariant holds of the shell an invitation leaves behind.           *)
LEMMA InitIInv == Init => IInv
<1> SUFFICES ASSUME Init PROVE IInv
  OBVIOUS
<1>1. PICK sent \in SUBSET Tasks :
        task = [k \in Tasks |-> IF k \in sent THEN [NewTask EXCEPT !.state = "queued"]
                                ELSE NewTask]
  BY DEF Init
<1>2. PICK x : x = [NewTask EXCEPT !.state = "queued"]
  OBVIOUS
<1>3. x \in Task /\ x.state = "queued"
  <2>1. PICK y \in Task : y = NewTask
    BY Blanks
  <2> QED
    BY <1>2, <2>1 DEF Task
<1>4. \A k \in Tasks : task[k] \in {x, NewTask}
  BY <1>1, <1>2
<1>5. task \in [Tasks -> Task]
  BY <1>1, <1>2, <1>3, Blanks
<1>6. req \in [Requests -> Request] /\ \A r \in Requests : req[r] = NewRequest
  BY Blanks DEF Init
<1>7. TypeOK
  BY <1>5, <1>6, Blanks DEF Init, TypeOK
<1>8. InGoodHands /\ StillFrozen
  BY <1>3, <1>4, Blanks DEF InGoodHands, StillFrozen, Init
<1>9. SeenSound
  BY <1>6, Blanks DEF SeenSound, SeenFits
<1> QED
  BY <1>7, <1>8, <1>9 DEF IInv

(* It is inductive, and no step writes a frozen plan, or over what an      *)
(* author has not seen, but in the races that are named.                   *)
LEMMA NextIInv == IInv /\ [Next]_vars => IInv' /\ Kept
<1> SUFFICES ASSUME IInv, [Next]_vars PROVE IInv' /\ Kept
  OBVIOUS
<1>1. CASE UNCHANGED vars
  <2>1. resume' \in {"none", "incoming", "ready", "replanned"}
    BY <1>1 DEF IInv, TypeOK, vars
  <2> QED
    BY <1>1, <2>1, ResumeMoves DEF vars
<1>2. CASE ResumeUploaded \/ ResumeSettles \/ _regenerate_plans_without_this_resume
  <2>1. /\ task' = task \/ Enqueue(TRUE)
        /\ resume' \in {"none", "incoming", "ready", "replanned"}
        /\ UNCHANGED <<plan, live, req, trouble, lost>>
    BY <1>2 DEF ResumeUploaded, ResumeSettles, _regenerate_plans_without_this_resume
  <2> QED
    BY <2>1, ResumeMoves
<1>3. ASSUME NEW r \in Requests, RequestNext(r)
      PROVE  IInv' /\ Kept
  <2>1. CASE \E op \in Ops : Loads(r, op) \/ Opens(r, op)
    BY <2>1, LoadsKeep, OpensKeep
  <2>2. CASE replace_questions(r) \/ replace_criteria(r) \/ approve(r)
    BY <2>2, EditsKeep
  <2>3. CASE request_generation(r)
    BY <2>3, RequestGenerationKeeps
  <2>4. CASE start(r)
    BY <2>4, StartKeeps
  <2>5. CASE RequestRaises(r)
    <3>1. live' \in BOOLEAN
      BY <2>5 DEF IInv, TypeOK, RequestRaises
    <3> QED
      BY <2>5, <3>1, EndsQuietly DEF RequestRaises
  <2> QED
    BY <1>3, <2>1, <2>2, <2>3, <2>4, <2>5 DEF RequestNext
<1>4. ASSUME NEW k \in Tasks, TaskNext(k)
      PROVE  IInv' /\ Kept
  <2>1. trouble \in {"none", "raised", "killed", "slow"}
    BY DEF IInv, TypeOK
  <2>2. CASE generate_reads(k) \/ \E state \in {"applying", "failing"} : ModelReturns(k, state)
    BY <2>2, TaskOpens
  <2>3. CASE generate_skips(k) \/ generate_waits(k) \/ apply_refused(k)
    BY <2>1, <2>3, TaskEnds DEF generate_skips, generate_waits, apply_refused
  <2>4. CASE generate_goes(k)
    BY <2>4, GenerateGoesKeeps
  <2>5. CASE apply_generated(k)
    BY <2>5, ApplyGeneratedKeeps
  <2>6. CASE mark_failed(k)
    BY <2>6, MarkFailedKeeps
  <2> QED
    BY <1>4, <2>2, <2>3, <2>4, <2>5, <2>6 DEF TaskNext
<1>5. ASSUME NEW k \in Tasks, TaskRaises(k)
      PROVE  IInv' /\ Kept
  BY <1>5, TaskEnds DEF TaskRaises
<1>6. ASSUME NEW k \in Tasks, WorkerLost(k)
      PROVE  IInv' /\ Kept
  BY <1>6, WorkerLostKeeps
<1>7. CASE Ages
  BY <1>7, AgesKeeps
<1> QED
  BY <1>1, <1>2, <1>3, <1>4, <1>5, <1>6, <1>7 DEF Next

(* The inductive invariant, for every behaviour.                           *)
LEMMA Invariance == Spec => []IInv
BY InitIInv, NextIInv, PTL DEF Spec

(* The plan, the requests and the messages are of their types, whatever    *)
(* transactions of service.py overlap.                                     *)
THEOREM TypeCorrect == Spec => []TypeOK
<1>1. IInv => TypeOK
  BY DEF IInv
<1> QED
  BY <1>1, Invariance, PTL

(* Nothing that reads a frozen plan changes it: neither an edit, nor a     *)
(* generation that began before the interview, nor a second start.  What   *)
(* does had read it while it was still editable.                           *)
THEOREM FrozenPlansStay == Spec => FrozenIsPermanent
<1>1. IInv /\ [Next]_vars =>
        [plan.status = "FROZEN" =>
           \/ plan'.status = "FROZEN" /\ Contents(plan') = Contents(plan)
           \/ \E r \in Requests : /\ req[r].step = "open" /\ req'[r].step = "done"
                                  /\ is_editable(req[r].read)
           \/ \E k \in Tasks : /\ task[k].state = "applying" /\ task'[k].state = "done"
                               /\ is_editable(task[k].read)]_vars
  BY NextIInv DEF Kept
<1> QED
  BY <1>1, Invariance, PTL DEF Spec, FrozenIsPermanent

(* Until two commits have got one version number, an edit that carries a   *)
(* version replaces exactly what its author saw, whatever edits and        *)
(* generations were committed since the screen was loaded.                 *)
THEOREM AuthorsReplaceWhatTheySaw == Spec => NoSilentOverwrite
<1>1. IInv /\ [Next]_vars =>
        [\A r \in Requests :
           /\ req[r].step = "open" /\ req'[r].step = "done"
           /\ req[r].seen # NoContents /\ plan' # plan /\ "version" \notin lost'
           => Contents(plan) = req[r].seen]_vars
  BY NextIInv DEF Kept
<1> QED
  BY <1>1, Invariance, PTL DEF Spec, NoSilentOverwrite

(* However transactions overlap, a GENERATING plan has a worker that will  *)
(* settle it, unless something went wrong or the interview froze it.       *)
THEOREM GenerationsHaveWorkers == Spec => []GeneratingHasAWorker
<1>1. IInv => GeneratingHasAWorker
  BY DEF IInv, InGoodHands, WasFrozen, Settles, GeneratingHasAWorker, Generating
<1> QED
  BY <1>1, Invariance, PTL
=============================================================================
