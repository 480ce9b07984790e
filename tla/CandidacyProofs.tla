--------------------------- MODULE CandidacyProofs ---------------------------
(***************************************************************************)
(* Proofs about Candidacy, for any interviews, CVs, requests and messages, *)
(* and any limit on redemptions, retries and mishaps.                      *)
(*                                                                         *)
(* The argument.  None of the four properties is inductive.  That a link   *)
(* is charged for what it yields needs the row lock: the call that holds   *)
(* it found a redemption left, and nobody has charged, revoked or erased   *)
(* the invite since; and the sum of what it yielded, is about to yield and *)
(* lost stays under the limit after the invite itself is erased.  The same *)
(* lock is why an erasure holds.  That a CV is in somebody's hands must    *)
(* say in whose: a worker that has stored the vectors and is sending the   *)
(* plans' messages no longer answers for the CV (Carried).  That a ready   *)
(* CV reaches the plans must say by which message: the first one does      *)
(* nothing for a plan that is written or under way without a CV, so that   *)
(* the plan waits for a forced one (Reached).                              *)
(***************************************************************************)
EXTENDS Candidacy, FiniteSetTheorems, TLAPS

CallRecord == [step : {"idle", "claimed", "redeeming", "minting", "heading", "deleting",
                       "completing", "enqueueing"},
               on : {None} \cup Interviews \cup Resumes]

TaskRecord == [step : {"none", "queued", "parsing", "failing", "storing",
                       "replanning", "sending", "done"},
               resume : {None} \cup Resumes, tries : 0 .. MaxRetries,
               todo : SUBSET Interviews]

Holds(x) == x.step \in {"claimed", "redeeming"}

CallFits(x) ==
  /\ Holds(x) => /\ x.on \in Interviews /\ invite[x.on].status \in {"PENDING", "REDEEMED"}
                 /\ invite[x.on].count < MaxRedemptions
  /\ x.step = "minting" => x.on \in Interviews
  /\ x.step \in {"heading", "deleting", "completing", "enqueueing"} => x.on \in Resumes

(* A redemption has the row lock of an invite that is still worth one, and *)
(* an upload names its CV.                                                 *)
LocksHold ==
  /\ \A c \in Calls : CallFits(call[c])
  /\ \A c, d \in Calls :
       Holds(call[c]) /\ Holds(call[d]) /\ call[c].on = call[d].on => c = d

TaskFits(x) == /\ x.step \notin {"none", "done"} => x.resume \in Resumes
               /\ x.step # "sending" => x.todo = {}

TasksFit == \A t \in Tasks : TaskFits(task[t])

(* A delivery answers for its CV until the CV is settled.                  *)
Answers(x, r) == x.step \in {"queued", "parsing", "failing", "storing"} /\ x.resume = r

Sends(x, r) == x.step = "enqueueing" /\ x.on = r

Carried(r) ==
  resume[r].status \in {"UPLOADED", "PARSING"} =>
    \/ r \in history.stranded
    \/ \E c \in Calls : Sends(call[c], r)
    \/ \E t \in Tasks : Answers(task[t], r)

(* A delivery is about to send for a plan.                                 *)
Replans(x, i) == x.step = "replanning" \/ i \in x.todo

Wanting(i) == plan[i] \in {"shell", "bare"}

(* A message writes the plan p when its turn comes, whatever comes first.  *)
Awaits(p, g) ==
  \/ "forced" \in g.sent
  \/ "first" \in g.sent /\ p = "shell" /\ ~g.generating /\ g.begun = {}

GivenUp(h, i) == i \in h.unplanned \/ i \in h.dropped

Reached(i) ==
  Ready /\ Wanting(i) =>
    \/ Awaits(plan[i], gen[i])
    \/ GivenUp(history, i)
    \/ \E t \in Tasks : Replans(task[t], i)

(* What a link has yielded, is about to yield, and lost.                   *)
Yield(i) == issued[i] + Cardinality(Minting(i)) + history.lost[i]

Charged ==
  \A i \in Interviews : /\ candidate => invite[i].count = Yield(i)
                        /\ Yield(i) <= MaxRedemptions

(* Nobody plans an interview that was never created.                       *)
Blank(g) == g.sent = {} /\ g.begun = {} /\ ~g.generating

Unplanned(i) == plan[i] = None /\ Blank(gen[i]) /\ \A t \in Tasks : i \notin task[t].todo

Fresh == candidate => \A i \in Interviews : interview[i] = None => Unplanned(i)

AllCarried == \A r \in Resumes : Carried(r)

AllReached == \A i \in Interviews : Reached(i)

IInv ==
  /\ TypeOK /\ LocksHold /\ TasksFit /\ Charged /\ Fresh
  /\ AllCarried /\ AllReached /\ ErasureHolds
-----------------------------------------------------------------------------
(* The rows and messages nobody has begun are of their types, and owe      *)
(* nothing.                                                                *)
LEMMA Blanks ==
  /\ Idle \in CallRecord /\ Idle.step = "idle" /\ NoTask \in TaskRecord
  /\ NoTask.step = "none" /\ NoTask.todo = {}
  /\ NoResume \in Resume /\ NoResume.status = None
  /\ NoInvite \in Invite /\ NoInvite.status = None /\ NoInvite.count = 0
  /\ NoGeneration \in Generation
BY CandidacyAssumption
   DEF Kinds, Generation, NoGeneration, Idle, CallRecord, NoTask, TaskRecord, NoResume, Resume, NoInvite, Invite, None

(* A request goes on to its next step, or ends.                            *)
LEMMA CallSteps ==
  ASSUME call \in [Calls -> CallRecord], NEW c \in Calls
  PROVE  /\ Ends(c) => call' = [call EXCEPT ![c] = Idle]
         /\ \A step : Goes(c, step) /\ step \in {"redeeming", "minting", "deleting", "completing", "enqueueing"} =>
              \E x \in CallRecord : /\ x.step = step /\ x.on = call[c].on
                                    /\ call' = [call EXCEPT ![c] = x]
<1>1. ASSUME NEW step, Goes(c, step), step \in {"redeeming", "minting", "deleting", "completing", "enqueueing"}
      PROVE  \E x \in CallRecord : /\ x.step = step /\ x.on = call[c].on
                                   /\ call' = [call EXCEPT ![c] = x]
  <2>1. PICK y \in CallRecord : y = call[c]
    OBVIOUS
  <2>2. PICK x : x = [y EXCEPT !.step = step]
    OBVIOUS
  <2>3. x \in CallRecord /\ x.step = step /\ x.on = y.on
    BY <1>1, <2>2 DEF CallRecord
  <2>4. call' = [call EXCEPT ![c] = x]
    BY <1>1, <2>1, <2>2 DEF Goes
  <2> QED
    BY <2>1, <2>3, <2>4
<1> QED
  BY <1>1 DEF Ends

(* So does a message.                                                      *)
LEMMA TaskSteps ==
  ASSUME task \in [Tasks -> TaskRecord], NEW t \in Tasks
  PROVE  /\ TaskDone(t) =>
              \E x \in TaskRecord : /\ x.step = "done" /\ x.todo = {}
                                    /\ task' = [task EXCEPT ![t] = x]
         /\ \A step : TaskGoes(t, step) /\ step \in {"parsing", "failing", "storing", "replanning"} =>
              \E x \in TaskRecord :
                /\ x.step = step /\ x.resume = task[t].resume /\ x.todo = task[t].todo
                /\ task' = [task EXCEPT ![t] = x]
<1>1. ASSUME NEW step, TaskGoes(t, step), step \in {"parsing", "failing", "storing", "replanning"}
      PROVE  \E x \in TaskRecord :
               /\ x.step = step /\ x.resume = task[t].resume /\ x.todo = task[t].todo
               /\ task' = [task EXCEPT ![t] = x]
  <2>1. PICK y \in TaskRecord : y = task[t]
    OBVIOUS
  <2>2. PICK x : x = [y EXCEPT !.step = step]
    OBVIOUS
  <2>3. x \in TaskRecord /\ x.step = step /\ x.resume = y.resume /\ x.todo = y.todo
    BY <1>1, <2>2 DEF TaskRecord
  <2>4. task' = [task EXCEPT ![t] = x]
    BY <1>1, <2>1, <2>2 DEF TaskGoes
  <2> QED
    BY <2>1, <2>3, <2>4
<1>2. ASSUME TaskDone(t)
      PROVE  \E x \in TaskRecord : /\ x.step = "done" /\ x.todo = {}
                                   /\ task' = [task EXCEPT ![t] = x]
  <2>1. PICK x : x = [NoTask EXCEPT !.step = "done"]
    OBVIOUS
  <2>2. x \in TaskRecord /\ x.step = "done" /\ x.todo = {}
    BY <2>1, CandidacyAssumption DEF TaskRecord, NoTask, None
  <2> QED
    BY <1>2, <2>1, <2>2 DEF TaskDone
<1> QED
  BY <1>1, <1>2
-----------------------------------------------------------------------------
(* What one request does with the rows untouched: it keeps the lock it has *)
(* or takes one that is free, and does not drop a CV it has to send.       *)
LEMMA CallKeeps ==
  ASSUME IInv, NEW c \in Calls, NEW x \in CallRecord,
         call' = [call EXCEPT ![c] = x], CallFits(x),
         Holds(x) => \/ Holds(call[c]) /\ x.on = call[c].on
                     \/ ~Locked(x.on),
         call[c].step \notin {"enqueueing", "minting"}, x.step # "minting",
         file' \in [Resumes -> {None, "good", "garbled", "oversize"}],
         UNCHANGED <<candidate, interview, invite, issued, admitted, plan, gen, resume, task,
                     history>>
  PROVE  IInv'
<1>1. \A d \in Calls : call'[d] = IF d = c THEN x ELSE call[d]
  BY DEF IInv, TypeOK
<1>2. TypeOK'
  BY DEF IInv, TypeOK, CallRecord
<1>3. LocksHold'
  <2>1. \A d \in Calls : CallFits(call'[d])
    BY <1>1 DEF IInv, LocksHold
  <2>2. \A d, e \in Calls :
          Holds(call'[d]) /\ Holds(call'[e]) /\ call'[d].on = call'[e].on => d = e
    BY <1>1 DEF IInv, LocksHold, Locked, Holds
  <2> QED
    BY <2>1, <2>2 DEF LocksHold, CallFits, Holds
<1>4. TasksFit' /\ Charged' /\ Fresh' /\ ErasureHolds'
  <2>1. \A i \in Interviews : Minting(i)' = Minting(i)
    BY <1>1 DEF Minting
  <2> QED
    BY <2>1 DEF IInv, TasksFit, TaskFits, Charged, Yield, Fresh, Unplanned, Blank, ErasureHolds
<1>5. AllCarried'
  <2>1. \A r \in Resumes, d \in Calls : Sends(call[d], r) => Sends(call'[d], r)
    BY <1>1 DEF Sends
  <2> QED
    BY <2>1 DEF IInv, AllCarried, Carried, Sends, Answers
<1>6. AllReached'
  BY DEF IInv, AllReached, Reached, Awaits, GivenUp, Ready, Wanting, Replans
<1> QED
  BY <1>2, <1>3, <1>4, <1>5, <1>6 DEF IInv

(* A delivery goes on with the rows untouched: the CV it answered for is   *)
(* settled or given up on record, and so is every plan it was to send for. *)
LEMMA TaskKeeps ==
  ASSUME IInv, NEW t \in Tasks, NEW x \in TaskRecord,
         task' = [task EXCEPT ![t] = x], TaskFits(x),
         gen' \in [Interviews -> Generation],
         \A i \in Interviews : /\ Awaits(plan[i], gen[i]) => Awaits(plan[i], gen'[i])
                               /\ candidate /\ interview[i] = None =>
                                    gen'[i] = gen[i] /\ i \notin x.todo,
         history' \in History, history'.lost = history.lost,
         history.stranded \subseteq history'.stranded,
         \A i \in Interviews : GivenUp(history, i) => GivenUp(history', i),
         \A r \in Resumes :
           resume[r].status \in {"UPLOADED", "PARSING"} /\ Answers(task[t], r) =>
             Answers(x, r) \/ r \in history'.stranded,
         \A i \in Interviews :
           Wanting(i) /\ Replans(task[t], i) =>
             Replans(x, i) \/ Awaits(plan[i], gen'[i]) \/ GivenUp(history', i),
         UNCHANGED <<candidate, interview, invite, issued, admitted, plan, resume, file, call>>
  PROVE  IInv'
<1>1. \A d \in Tasks : task'[d] = IF d = t THEN x ELSE task[d]
  BY DEF IInv, TypeOK
<1>2. TypeOK'
  BY DEF IInv, TypeOK, TaskRecord
<1>3. LocksHold' /\ Charged' /\ Fresh' /\ ErasureHolds'
  BY <1>1 DEF IInv, LocksHold, CallFits, Holds, Charged, Yield, Minting, Fresh, Unplanned,
              ErasureHolds
<1>4. TasksFit'
  BY <1>1 DEF IInv, TasksFit, TaskFits
<1>5. AllCarried'
  <2>1. \A r \in Resumes, d \in Tasks :
          resume[r].status \in {"UPLOADED", "PARSING"} /\ Answers(task[d], r) =>
            Answers(task'[d], r) \/ r \in history'.stranded
    BY <1>1
  <2> QED
    BY <2>1 DEF IInv, AllCarried, Carried, Sends, Answers
<1>6. AllReached'
  <2>1. \A i \in Interviews, d \in Tasks :
          Wanting(i) /\ Replans(task[d], i) =>
            Replans(task'[d], i) \/ Awaits(plan[i], gen'[i]) \/ GivenUp(history', i)
    BY <1>1
  <2> QED
    BY <2>1 DEF IInv, AllReached, Reached, Ready, Wanting, Replans
<1> QED
  BY <1>2, <1>3, <1>4, <1>5, <1>6 DEF IInv

(* The row of a CV changes with the request or the delivery that has it in *)
(* hand: a CV that is on its way is answered for, a ready one is sent to   *)
(* the plans.                                                              *)
LEMMA RowKeeps ==
  ASSUME IInv, candidate, NEW r \in Resumes, NEW v \in Resume,
         resume' = [resume EXCEPT ![r] = v],
         call' \in [Calls -> CallRecord], task' \in [Tasks -> TaskRecord],
         LocksHold', TasksFit',
         v.status \in {"UPLOADED", "PARSING"} => \/ \E c \in Calls : Sends(call'[c], r)
                                                 \/ \E t \in Tasks : Answers(task'[t], r),
         v.status = "READY" => \E t \in Tasks : task'[t].step = "replanning",
         \A q \in Resumes \ {r} :
           /\ \A c \in Calls : Sends(call[c], q) => Sends(call'[c], q)
           /\ \A t \in Tasks : Answers(task[t], q) => Answers(task'[t], q),
         \A i \in Interviews, t \in Tasks : Replans(task[t], i) => Replans(task'[t], i),
         \A i \in Interviews : /\ Minting(i)' = Minting(i)
                               /\ \A t \in Tasks : i \in task'[t].todo => i \in task[t].todo,
         UNCHANGED <<candidate, interview, invite, issued, admitted, plan, gen, file, history>>
  PROVE  IInv'
<1>1. \A q \in Resumes : resume'[q] = IF q = r THEN v ELSE resume[q]
  BY DEF IInv, TypeOK
<1>2. TypeOK'
  BY DEF IInv, TypeOK, CallRecord, TaskRecord
<1>3. Charged' /\ Fresh' /\ ErasureHolds'
  BY DEF IInv, Charged, Yield, Fresh, Unplanned, ErasureHolds
<1>4. AllCarried'
  <2>1. ASSUME NEW q \in Resumes, resume'[q].status \in {"UPLOADED", "PARSING"}
        PROVE  \/ q \in history.stranded
               \/ \E c \in Calls : Sends(call'[c], q)
               \/ \E t \in Tasks : Answers(task'[t], q)
    BY <1>1, <2>1 DEF IInv, AllCarried, Carried
  <2> QED
    BY <2>1 DEF AllCarried, Carried, Sends, Answers
<1>5. AllReached'
  <2>1. Ready' => Ready \/ \E t \in Tasks : task'[t].step = "replanning"
    BY <1>1 DEF Ready
  <2> QED
    BY <2>1 DEF IInv, AllReached, Reached, Awaits, GivenUp, Wanting, Replans
<1> QED
  BY <1>2, <1>3, <1>4, <1>5 DEF IInv

(* What the recruiter, the clock and a generation do to the interviews: an *)
(* invite whose row is locked stays as it is, and a plan still waits for a *)
(* message if it has no CV.                                                *)
LEMMA InterviewKeeps ==
  ASSUME IInv, candidate \/ UNCHANGED <<interview, invite, plan>>,
         interview' \in [Interviews -> {None, "INVITED", "IN_PROGRESS", "OVER"}],
         invite' \in [Interviews -> Invite],
         \A i \in Interviews : /\ invite'[i].count = invite[i].count
                               /\ \/ invite'[i].status = invite[i].status
                                  \/ ~Locked(i)
                                  \/ invite'[i].status \in {"PENDING", "REDEEMED"},
         plan' \in [Interviews -> {None, "shell", "bare", "grounded", "frozen"}],
         gen' \in [Interviews -> Generation],
         candidate => \A i \in Interviews :
           interview'[i] = None => interview[i] = None /\ plan'[i] = plan[i] /\ gen'[i] = gen[i],
         history' \in History,
         history'.stranded = history.stranded, history'.lost = history.lost,
         \A i \in Interviews : GivenUp(history, i) => GivenUp(history', i),
         \A i \in Interviews :
           Ready /\ plan'[i] \in {"shell", "bare"} =>
             \/ Awaits(plan'[i], gen'[i]) \/ GivenUp(history', i)
             \/ Wanting(i) /\ ~Awaits(plan[i], gen[i]),
         UNCHANGED <<candidate, issued, admitted, resume, file, call, task>>
  PROVE  IInv'
<1>1. TypeOK'
  BY DEF IInv, TypeOK
<1>2. LocksHold'
  BY DEF IInv, LocksHold, CallFits, Holds, Locked
<1>3. TasksFit' /\ Charged' /\ Fresh' /\ ErasureHolds'
  <2>1. \A i \in Interviews : Minting(i)' = Minting(i)
    BY DEF Minting
  <2> QED
    BY <2>1 DEF IInv, TasksFit, TaskFits, Charged, Yield, Fresh, Unplanned, ErasureHolds
<1>4. AllCarried'
  BY DEF IInv, AllCarried, Carried, Sends, Answers
<1>5. AllReached'
  BY DEF IInv, AllReached, Reached, Ready, Wanting, Replans
<1> QED
  BY <1>1, <1>2, <1>3, <1>4, <1>5 DEF IInv
-----------------------------------------------------------------------------
(* The history with a mishap more, or what is given up without one.        *)
HistoryIs(h, stranded, unplanned) ==
  /\ h \in History /\ h.stranded = stranded /\ h.unplanned = unplanned
  /\ h.dropped = history.dropped /\ h.lost = history.lost

LEMMA HistoryFields ==
  ASSUME IInv, NEW n \in 0 .. MaxMishaps, NEW stranded \in SUBSET Resumes,
         NEW unplanned \in SUBSET Interviews
  PROVE  /\ HistoryIs([history EXCEPT !.mishaps = n, !.unplanned = unplanned],
                      history.stranded, unplanned)
         /\ HistoryIs([history EXCEPT !.mishaps = n, !.stranded = stranded],
                      stranded, history.unplanned)
         /\ HistoryIs([history EXCEPT !.unplanned = unplanned, !.stranded = stranded],
                      stranded, unplanned)
BY DEF IInv, TypeOK, History, HistoryIs

(* The fields of the history.                                              *)
LEMMA HistoryTyped ==
  ASSUME IInv
  PROVE  /\ history \in History
         /\ history.stranded \in SUBSET Resumes /\ history.unplanned \in SUBSET Interviews
         /\ history.dropped \in SUBSET Interviews
         /\ history.lost \in [Interviews -> 0 .. MaxRedemptions]
         /\ history.mishaps \in 0 .. MaxMishaps
         /\ Mishap => history.mishaps + 1 \in 0 .. MaxMishaps
BY CandidacyAssumption DEF IInv, TypeOK, History, Mishap

LEMMA HistoryStays ==
  ASSUME IInv, history' = history
  PROVE  /\ history' \in History
         /\ history'.stranded = history.stranded /\ history'.lost = history.lost
         /\ \A i \in Interviews : GivenUp(history, i) => GivenUp(history', i)
BY HistoryTyped

(* A message that is sent, or one that leaves the queue.                   *)
LEMMA Queues ==
  ASSUME IInv, NEW i \in Interviews, NEW message \in Kinds, NEW sent \in SUBSET Kinds,
         gen' = [gen EXCEPT ![i].sent = sent, ![i].tries[message] = 0]
  PROVE  /\ gen' \in [Interviews -> Generation] /\ gen'[i].sent = sent
         /\ \A j \in Interviews \ {i} : gen'[j] = gen[j]
         /\ gen'[i].begun = gen[i].begun /\ gen'[i].generating = gen[i].generating
<1>1. PICK g \in Generation : g = gen[i]
  BY DEF IInv, TypeOK
<1>2. PICK tries \in [Kinds -> 0 .. PlanRetries] : tries = [g.tries EXCEPT ![message] = 0]
  <2>1. g.tries \in [Kinds -> 0 .. PlanRetries] /\ 0 \in 0 .. PlanRetries
    BY CandidacyAssumption DEF Generation
  <2>2. [g.tries EXCEPT ![message] = 0] \in [Kinds -> 0 .. PlanRetries]
    BY <2>1
  <2> QED
    BY <2>2
<1>3. PICK v : v = [g EXCEPT !.sent = sent, !.tries = tries]
  OBVIOUS
<1>4. /\ v \in Generation /\ v.sent = sent
      /\ v.begun = g.begun /\ v.generating = g.generating
  BY <1>1, <1>2, <1>3 DEF Generation
<1>5. gen' = [gen EXCEPT ![i] = v]
  BY <1>1, <1>2, <1>3
<1>6. gen \in [Interviews -> Generation]
  BY DEF IInv, TypeOK
<1> QED
  BY <1>1, <1>4, <1>5, <1>6

LEMMA DelayIs ==
  ASSUME IInv, NEW i \in Interviews, NEW message \in Kinds, delay(i, message)
  PROVE  /\ gen' \in [Interviews -> Generation] /\ message \in gen'[i].sent
         /\ \A j \in Interviews : /\ gen[j].sent \subseteq gen'[j].sent
                                  /\ gen'[j].begun = gen[j].begun
                                  /\ gen'[j].generating = gen[j].generating
<1>1. PICK sent \in SUBSET Kinds : sent = gen[i].sent \cup {message}
  BY DEF IInv, TypeOK, Generation
<1>2. gen' = [gen EXCEPT ![i].sent = sent, ![i].tries[message] = 0]
  BY <1>1 DEF delay
<1>3. /\ gen' \in [Interviews -> Generation] /\ gen'[i].sent = sent
      /\ \A j \in Interviews \ {i} : gen'[j] = gen[j]
      /\ gen'[i].begun = gen[i].begun /\ gen'[i].generating = gen[i].generating
  BY <1>2, Queues
<1>4. message \in gen'[i].sent /\ gen[i].sent \subseteq gen'[i].sent
  BY <1>1, <1>3
<1>5. \A j \in Interviews : /\ gen[j].sent \subseteq gen'[j].sent
                            /\ gen'[j].begun = gen[j].begun
                            /\ gen'[j].generating = gen[j].generating
  BY <1>3, <1>4
<1> QED
  BY <1>3, <1>4, <1>5

LEMMA LeavesIs ==
  ASSUME IInv, NEW i \in Interviews, NEW message \in Kinds, Leaves(i, message)
  PROVE  /\ gen' \in [Interviews -> Generation] /\ gen'[i].sent = gen[i].sent \ {message}
         /\ \A j \in Interviews \ {i} : gen'[j] = gen[j]
         /\ gen'[i].begun = gen[i].begun /\ gen'[i].generating = gen[i].generating
<1>1. PICK sent \in SUBSET Kinds : sent = gen[i].sent \ {message}
  BY DEF IInv, TypeOK, Generation
<1>2. gen' = [gen EXCEPT ![i].sent = sent, ![i].tries[message] = 0]
  BY <1>1 DEF Leaves
<1> QED
  BY <1>1, <1>2, Queues

(* A new interview comes with a plan and the message for it, or is         *)
(* recorded as left without.                                               *)
LEMMA CreateKeeps ==
  ASSUME IInv, NEW i \in Interviews, create_invite(i)
  PROVE  IInv'
<1>1. PICK v : v = [invite[i] EXCEPT !.status = "PENDING"]
  OBVIOUS
<1>2. v \in Invite /\ v.status = "PENDING" /\ v.count = invite[i].count
  <2>1. PICK w \in Invite : w = invite[i]
    BY DEF IInv, TypeOK
  <2> QED
    BY <1>1, <2>1 DEF Invite
<1>3. invite' = [invite EXCEPT ![i] = v]
  BY <1>1 DEF create_invite
<1>4. /\ invite' \in [Interviews -> Invite]
      /\ \A j \in Interviews : /\ invite'[j].count = invite[j].count
                               /\ \/ invite'[j].status = invite[j].status
                                  \/ invite'[j].status \in {"PENDING", "REDEEMED"}
  BY <1>2, <1>3 DEF IInv, TypeOK
<1>5. /\ interview' \in [Interviews -> {None, "INVITED", "IN_PROGRESS", "OVER"}]
      /\ plan' \in [Interviews -> {None, "shell", "bare", "grounded", "frozen"}]
      /\ \A j \in Interviews : plan'[j] = IF j = i THEN "shell" ELSE plan[j]
      /\ \A j \in Interviews : interview'[j] = IF j = i THEN "INVITED" ELSE interview[j]
      /\ Unplanned(i)
  BY DEF IInv, TypeOK, Fresh, create_invite
<1>6. CASE delay(i, "first") /\ history' = history
  <2>1. /\ gen' \in [Interviews -> Generation]
        /\ \A j \in Interviews : /\ gen[j].sent \subseteq gen'[j].sent
                                 /\ gen'[j].begun = gen[j].begun
                                 /\ gen'[j].generating = gen[j].generating
    BY <1>6, DelayIs DEF Kinds
  <2>2. Awaits(plan'[i], gen'[i])
    BY <1>5, <1>6, <2>1, DelayIs DEF Kinds, Unplanned, Blank, Awaits
  <2>3. \A j \in Interviews \ {i} : gen'[j] = gen[j] /\ plan'[j] = plan[j]
    BY <1>5, <1>6 DEF delay, IInv, TypeOK
  <2>4. \A j \in Interviews :
          plan'[j] \in {"shell", "bare"} =>
            Awaits(plan'[j], gen'[j]) \/ (Wanting(j) /\ ~Awaits(plan[j], gen[j]))
    BY <2>2, <2>3 DEF Wanting
  <2>5. candidate => \A j \in Interviews :
          interview'[j] = None => interview[j] = None /\ plan'[j] = plan[j] /\ gen'[j] = gen[j]
    BY <1>5, <2>3 DEF None
  <2>6. candidate /\ UNCHANGED <<candidate, issued, admitted, resume, file, call, task>>
    BY DEF create_invite
  <2> QED
    BY <1>4, <1>5, <1>6, <2>1, <2>4, <2>5, <2>6, InterviewKeeps, HistoryStays
<1>7. CASE /\ Mishap /\ gen' = gen
           /\ history' = [history EXCEPT !.mishaps = @ + 1, !.unplanned = @ \cup {i}]
  <2>1. PICK n \in 0 .. MaxMishaps, m \in SUBSET Interviews :
          n = history.mishaps + 1 /\ m = history.unplanned \cup {i}
    BY <1>7, HistoryTyped
  <2>2. history' = [history EXCEPT !.mishaps = n, !.unplanned = m]
    BY <1>7, <2>1
  <2>3. HistoryIs(history', history.stranded, m)
    BY <2>2, HistoryTyped, HistoryFields
  <2>4. gen' \in [Interviews -> Generation]
    BY <1>7 DEF IInv, TypeOK
  <2> QED
    <3>1. /\ history' \in History /\ history'.stranded = history.stranded
          /\ history'.lost = history.lost
          /\ \A j \in Interviews : GivenUp(history', j) <=> GivenUp(history, j) \/ j = i
      BY <2>1, <2>3 DEF HistoryIs, GivenUp
    <3>2. \A j \in Interviews :
            plan'[j] \in {"shell", "bare"} =>
              \/ Awaits(plan'[j], gen'[j]) \/ GivenUp(history', j)
              \/ Wanting(j) /\ ~Awaits(plan[j], gen[j])
      BY <1>5, <1>7, <3>1 DEF Wanting
    <3>3. candidate => \A j \in Interviews :
            interview'[j] = None => interview[j] = None /\ plan'[j] = plan[j] /\ gen'[j] = gen[j]
      BY <1>5, <1>7 DEF None
    <3>4. candidate /\ UNCHANGED <<candidate, issued, admitted, resume, file, call, task>>
      BY DEF create_invite
    <3> QED
      BY <1>4, <1>5, <2>4, <3>1, <3>2, <3>3, <3>4, InterviewKeeps
<1> QED
  BY <1>6, <1>7 DEF create_invite

(* A plan, or an invite, is of a candidate who is there.                   *)
LEMMA Present ==
  ASSUME IInv
  PROVE  /\ \A i \in Interviews : /\ plan[i] # None => candidate
                                  /\ invite[i].status # None => candidate
                                  /\ interview[i] # None => candidate
         /\ \A r \in Resumes : resume[r].status # None => candidate
BY Blanks DEF IInv, ErasureHolds

(* A click on Generate names the ready CV in the plan at once: only a plan *)
(* with no CV to name still waits.                                         *)
LEMMA RequestKeeps ==
  ASSUME IInv, NEW i \in Interviews, request_generation(i)
  PROVE  IInv'
<1>1. candidate
  BY Present DEF request_generation, None
<1>2. /\ plan' \in [Interviews -> {None, "shell", "bare", "grounded", "frozen"}]
      /\ \A j \in Interviews : plan'[j] = IF j = i /\ Ready THEN "grounded" ELSE plan[j]
  BY DEF IInv, TypeOK, request_generation, attach_latest_resume
<1>3. /\ gen' \in [Interviews -> Generation]
      /\ \A j \in Interviews : /\ gen[j].sent \subseteq gen'[j].sent
                               /\ gen'[j].begun = gen[j].begun
                               /\ gen'[j].generating = gen[j].generating
                               /\ j # i => gen'[j] = gen[j]
  <2>1. CASE delay(i, "forced")
    BY <2>1, DelayIs DEF Kinds, delay, IInv, TypeOK
  <2>2. CASE gen' = gen
    BY <2>2 DEF IInv, TypeOK
  <2> QED
    BY <2>1, <2>2 DEF request_generation
<1>4. /\ history' \in History /\ history'.lost = history.lost
      /\ history'.stranded = history.stranded
      /\ \A j \in Interviews : GivenUp(history, j) => GivenUp(history', j)
  <2>1. CASE history' = history
    BY <2>1, HistoryTyped
  <2>2. CASE /\ gen[i].generating \/ Mishap
             /\ history' = [history EXCEPT
                  !.mishaps = IF gen[i].generating THEN @ ELSE @ + 1,
                  !.unplanned = IF Ready /\ plan[i] # "grounded" THEN @ \cup {i} ELSE @]
    <3>1. PICK n \in 0 .. MaxMishaps :
            n = IF gen[i].generating THEN history.mishaps ELSE history.mishaps + 1
      BY <2>2, HistoryTyped
    <3>2. PICK m \in SUBSET Interviews :
            /\ history.unplanned \subseteq m
            /\ m = IF Ready /\ plan[i] # "grounded"
                   THEN history.unplanned \cup {i} ELSE history.unplanned
      BY HistoryTyped
    <3>3. history' = [history EXCEPT !.mishaps = n, !.unplanned = m]
      BY <2>2, <3>1, <3>2
    <3>4. HistoryIs(history', history.stranded, m)
      BY <3>3, HistoryTyped, HistoryFields
    <3> QED
      BY <3>2, <3>4 DEF HistoryIs, GivenUp
  <2> QED
    BY <2>1, <2>2 DEF request_generation
<1>5. interview' = interview /\ invite' = invite /\ interview[i] # None
  BY <1>1 DEF request_generation, UNCHANGED_invites, IInv, Fresh, Unplanned, None
<1>6. /\ interview' \in [Interviews -> {None, "INVITED", "IN_PROGRESS", "OVER"}]
      /\ invite' \in [Interviews -> Invite]
  BY <1>5 DEF IInv, TypeOK
<1>7. \A j \in Interviews :
        Ready /\ plan'[j] \in {"shell", "bare"} =>
          Awaits(plan'[j], gen'[j]) \/ (Wanting(j) /\ ~Awaits(plan[j], gen[j]))
  BY <1>2, <1>3 DEF Awaits, Wanting
<1>8. UNCHANGED <<candidate, issued, admitted, resume, file, call, task>>
  BY DEF request_generation, UNCHANGED_invites
<1> QED
  BY <1>1, <1>2, <1>3, <1>4, <1>5, <1>6, <1>7, <1>8, InterviewKeeps

(* Revoking waits for the row lock, expiring changes nothing else.         *)
LEMMA RevokeKeeps ==
  ASSUME IInv, NEW i \in Interviews, revoke_invite(i) \/ InviteExpires(i)
  PROVE  IInv'
<1>1. candidate
  BY Present DEF revoke_invite, InviteExpires, None
<1>2. PICK w \in Invite : w = invite[i]
  BY DEF IInv, TypeOK
<1>3. PICK v : /\ invite' = [invite EXCEPT ![i] = v]
               /\ \/ v = [w EXCEPT !.status = "REVOKED"] /\ ~Locked(i)
                  \/ v = [w EXCEPT !.expired = TRUE]
  BY <1>2 DEF revoke_invite, InviteExpires
<1>4. v \in Invite /\ v.count = w.count /\ (v.status = w.status \/ ~Locked(i))
  BY <1>3 DEF Invite
<1>5. /\ invite' \in [Interviews -> Invite]
      /\ \A j \in Interviews : invite'[j] = IF j = i THEN v ELSE invite[j]
  BY <1>3, <1>4 DEF IInv, TypeOK
<1>6. /\ UNCHANGED <<candidate, issued, admitted, resume, file, call, task>>
      /\ interview' = interview /\ plan' = plan /\ gen' = gen /\ history' = history
  BY DEF revoke_invite, InviteExpires
<1>7. /\ interview' \in [Interviews -> {None, "INVITED", "IN_PROGRESS", "OVER"}]
      /\ plan' \in [Interviews -> {None, "shell", "bare", "grounded", "frozen"}]
      /\ gen' \in [Interviews -> Generation]
      /\ history' \in History
  BY <1>6 DEF IInv, TypeOK
<1>8. \A j \in Interviews :
        plan'[j] \in {"shell", "bare"} =>
          Awaits(plan'[j], gen'[j]) \/ (Wanting(j) /\ ~Awaits(plan[j], gen[j]))
  BY <1>6 DEF Wanting
<1> QED
  BY <1>1, <1>2, <1>4, <1>5, <1>6, <1>7, <1>8, InterviewKeeps

(* A plan is frozen at the start, whatever it names.                       *)
LEMMA StartsKeeps ==
  ASSUME IInv, NEW i \in Interviews, InterviewStarts(i) \/ InterviewEnds(i)
  PROVE  IInv'
<1>1. candidate
  BY Present DEF InterviewStarts, InterviewEnds, None
<1>2. /\ interview' \in [Interviews -> {None, "INVITED", "IN_PROGRESS", "OVER"}]
      /\ plan' \in [Interviews -> {None, "shell", "bare", "grounded", "frozen"}]
      /\ \A j \in Interviews : /\ plan'[j] \in {plan[j], "frozen"}
                               /\ interview'[j] = None =>
                                    interview[j] = None /\ plan'[j] = plan[j]
  BY DEF IInv, TypeOK, InterviewStarts, InterviewEnds, None
<1>3. /\ UNCHANGED <<candidate, issued, admitted, resume, file, call, task>>
      /\ invite' = invite /\ gen' = gen /\ history' = history
  BY DEF InterviewStarts, InterviewEnds
<1>4. /\ invite' \in [Interviews -> Invite]
      /\ gen' \in [Interviews -> Generation]
      /\ history' \in History
  BY <1>3 DEF IInv, TypeOK
<1>5. \A j \in Interviews :
        plan'[j] \in {"shell", "bare"} =>
          Awaits(plan'[j], gen'[j]) \/ (Wanting(j) /\ ~Awaits(plan[j], gen[j]))
  BY <1>2, <1>3 DEF Wanting
<1> QED
  BY <1>1, <1>2, <1>3, <1>4, <1>5, InterviewKeeps

(* What a generation does with one plan and its messages: the rest stays.  *)
LEMMA PlanKeeps ==
  ASSUME IInv, NEW i \in Interviews, ~Blank(gen[i]),
         NEW g \in Generation, gen' = [gen EXCEPT ![i] = g],
         NEW p \in {None, "shell", "bare", "grounded", "frozen"}, plan' = [plan EXCEPT ![i] = p],
         p = None <=> plan[i] = None,
         history' \in History,
         history'.stranded = history.stranded, history'.lost = history.lost,
         \A j \in Interviews : GivenUp(history, j) => GivenUp(history', j),
         Ready /\ p \in {"shell", "bare"} =>
           \/ Awaits(p, g) \/ GivenUp(history', i)
           \/ Wanting(i) /\ ~Awaits(plan[i], gen[i]),
         UNCHANGED <<candidate, interview, invite, issued, admitted, resume, file, call, task>>
  PROVE  IInv'
<1>1. /\ gen' \in [Interviews -> Generation]
      /\ plan' \in [Interviews -> {None, "shell", "bare", "grounded", "frozen"}]
      /\ interview' \in [Interviews -> {None, "INVITED", "IN_PROGRESS", "OVER"}]
      /\ invite' \in [Interviews -> Invite]
  BY DEF IInv, TypeOK
<1>2. \A j \in Interviews : /\ gen'[j] = IF j = i THEN g ELSE gen[j]
                            /\ plan'[j] = IF j = i THEN p ELSE plan[j]
  BY DEF IInv, TypeOK
<1>3. candidate => \A j \in Interviews :
        interview'[j] = None => interview[j] = None /\ plan'[j] = plan[j] /\ gen'[j] = gen[j]
  BY <1>2 DEF IInv, Fresh, Unplanned
<1>4. candidate \/ UNCHANGED <<interview, invite, plan>>
  <2>1. CASE ~candidate
    <3>1. plan[i] = None /\ p = None
      BY <2>1 DEF IInv, ErasureHolds
    <3> QED
      BY <3>1 DEF IInv, TypeOK
  <2> QED
    BY <2>1
<1>5. \A j \in Interviews :
        Ready /\ plan'[j] \in {"shell", "bare"} =>
          \/ Awaits(plan'[j], gen'[j]) \/ GivenUp(history', j)
          \/ Wanting(j) /\ ~Awaits(plan[j], gen[j])
  BY <1>2 DEF Wanting
<1> QED
  BY <1>1, <1>3, <1>4, <1>5, InterviewKeeps

(* The same, when the plan and the history stay.                           *)
LEMMA Stays ==
  ASSUME IInv, NEW i \in Interviews, ~Blank(gen[i]),
         NEW g \in Generation, gen' = [gen EXCEPT ![i] = g],
         NEW p \in {None, "shell", "bare", "grounded", "frozen"},
         p = plan[i], plan' = [plan EXCEPT ![i] = p],
         history' = history, p \in {"shell", "bare"} /\ Awaits(p, gen[i]) => Awaits(p, g),
         UNCHANGED <<candidate, interview, invite, issued, admitted, resume, file, call, task>>
  PROVE  IInv'
<1>1. p = None <=> plan[i] = None
  OBVIOUS
<1>2. p \in {"shell", "bare"} =>
        Awaits(p, g) \/ GivenUp(history', i) \/ (Wanting(i) /\ ~Awaits(plan[i], gen[i]))
  BY DEF Wanting
<1> QED
  BY <1>1, <1>2, PlanKeeps, HistoryStays

(* A message in the queue that is left, waits, or fails before it began.   *)
LEMMA QueueKeeps ==
  ASSUME IInv, NEW i \in Interviews, NEW message \in Kinds,
         \/ generate_skips(i, message) \/ generate_waits(i, message)
         \/ generate_raises(i, message)
         \/ message = "forced" /\ generate_gives_up(i)
  PROVE  IInv'
<1>1. /\ message \in gen[i].sent /\ ~Blank(gen[i])
      /\ UNCHANGED <<candidate, interview, invite, issued, admitted, plan, resume, file, call,
                     task>>
  BY DEF generate_skips, generate_waits, generate_raises, generate_gives_up, Blank,
         UNCHANGED_invites
<1>2. PICK p \in {None, "shell", "bare", "grounded", "frozen"} :
        p = plan[i] /\ plan' = [plan EXCEPT ![i] = p]
  BY <1>1 DEF IInv, TypeOK
<1>3. gen \in [Interviews -> Generation] /\ gen[i] \in Generation
  BY DEF IInv, TypeOK
<1>6. UNCHANGED <<candidate, interview, invite, issued, admitted, resume, file, call, task>>
  BY <1>1
<1>4. CASE Leaves(i, message)
  <2>1. PICK g \in Generation :
          /\ g = gen'[i] /\ g.sent = gen[i].sent \ {message}
          /\ g.begun = gen[i].begun /\ g.generating = gen[i].generating
    BY <1>4, LeavesIs
  <2>2. gen' = [gen EXCEPT ![i] = g]
    BY <1>3, <1>4, <2>1 DEF Leaves
  <2>3. CASE generate_skips(i, message)
    <3>1. Awaits(p, gen[i]) /\ p \in {"shell", "bare"} => Awaits(p, g)
      BY <1>2, <2>1, <2>3 DEF generate_skips, Writes, Awaits, Kinds
    <3>2. history' = history
      BY <2>3 DEF generate_skips
    <3> QED
      BY <1>1, <1>6, <2>2, <3>1, <3>2, <1>2, Stays
  <2>4. ASSUME \/ history' = [history EXCEPT !.unplanned = @ \cup {i}]
               \/ history' = [history EXCEPT !.dropped = @ \cup {i}]
        PROVE  IInv'
    <3>1. /\ history' \in History /\ history'.stranded = history.stranded
          /\ history'.lost = history.lost /\ GivenUp(history', i)
          /\ \A j \in Interviews : GivenUp(history, j) => GivenUp(history', j)
      BY <2>4, HistoryTyped DEF History, GivenUp
    <3> QED
      BY <1>1, <1>2, <2>2, <3>1, PlanKeeps
  <2>5. CASE generate_waits(i, message)
    BY <1>3, <1>4, <2>1, <2>5, <2>2, <1>1, <1>2, PlanKeeps, HistoryTyped
       DEF generate_waits, Generation, Awaits, Wanting
  <2>6. CASE generate_raises(i, message)
    <3>1. CASE history' = [history EXCEPT !.unplanned = @ \cup {i}]
      BY <2>4, <3>1
    <3>2. CASE /\ gen' = [gen EXCEPT ![i].tries[message] = @ + 1] /\ history' = history
      <4>1. Awaits(p, gen[i]) => Awaits(p, g)
        BY <1>3, <2>1, <2>2, <3>2 DEF Generation, Awaits
      <4> QED
        BY <1>1, <1>2, <1>6, <2>2, <3>2, <4>1, Stays
    <3> QED
      BY <2>6, <3>1, <3>2 DEF generate_raises
  <2>7. CASE generate_gives_up(i)
    BY <2>4, <2>7 DEF generate_gives_up
  <2> QED
    BY <2>3, <2>5, <2>6, <2>7
<1>5. CASE /\ gen' = [gen EXCEPT ![i].tries[message] = @ + 1] /\ history' = history
           /\ gen[i].tries[message] < PlanRetries
  <2>1. PICK g \in Generation : g = gen[i]
    BY <1>3
  <2>2. PICK tries \in [Kinds -> 0 .. PlanRetries] :
          tries = [g.tries EXCEPT ![message] = @ + 1]
    <3>1. g.tries \in [Kinds -> 0 .. PlanRetries]
      BY DEF Generation
    <3>2. g.tries[message] + 1 \in 0 .. PlanRetries
      BY <1>5, <2>1, <3>1, CandidacyAssumption
    <3>3. [g.tries EXCEPT ![message] = @ + 1] \in [Kinds -> 0 .. PlanRetries]
      BY <3>1, <3>2
    <3> QED
      BY <3>3
  <2>3. PICK v : v = [g EXCEPT !.tries = tries]
    OBVIOUS
  <2>4. /\ v \in Generation /\ v.sent = g.sent
        /\ v.begun = g.begun /\ v.generating = g.generating
    BY <2>1, <2>2, <2>3 DEF Generation
  <2>5. gen' = [gen EXCEPT ![i] = v]
    BY <1>5, <2>1, <2>2, <2>3
  <2>6. Awaits(p, gen[i]) => Awaits(p, v)
    BY <2>1, <2>4 DEF Awaits
  <2> QED
    BY <1>1, <1>2, <1>6, <1>5, <2>4, <2>5, <2>6, Stays
<1> QED
  BY <1>4, <1>5 DEF generate_skips, generate_waits, generate_raises, generate_gives_up

(* A generation that begins writes the plan from the CV that is ready.     *)
(* Where it finds none, the next CV sends for the plan.                    *)
LEMMA BegunKeeps ==
  ASSUME IInv, NEW i \in Interviews, NEW message \in Kinds, generate_reads(i, message)
  PROVE  IInv'
<1>1. PICK g \in Generation : g = gen[i]
  BY DEF IInv, TypeOK
<1>2. PICK v : v = [g EXCEPT !.sent = @ \ {message}, !.begun = @ \cup {message},
                             !.generating = TRUE]
  OBVIOUS
<1>3. v \in Generation
  BY <1>1, <1>2 DEF Generation
<1>4. gen' = [gen EXCEPT ![i] = v] /\ ~Blank(gen[i]) /\ history' = history
  BY <1>1, <1>2 DEF generate_reads, Blank
<1>5. PICK p \in {None, "shell", "bare", "grounded", "frozen"} :
        /\ p = _gather_context(i) /\ plan' = [plan EXCEPT ![i] = p]
        /\ p # None /\ plan[i] # None
  BY DEF generate_reads, _gather_context, Writes, None
<1>6. Ready => p = "grounded"
  BY <1>5 DEF _gather_context
<1>7. UNCHANGED <<candidate, interview, invite, issued, admitted, resume, file, call, task>>
  BY DEF generate_reads, UNCHANGED_invites
<1> QED
  BY <1>3, <1>4, <1>5, <1>6, <1>7, PlanKeeps, HistoryTyped

(* One that is at the model holds the first message back: a plan that      *)
(* waits for it waits for a forced one, however it ends.                   *)
LEMMA EndedKeeps ==
  ASSUME IInv, NEW i \in Interviews, NEW message \in Kinds,
         \/ apply_generated(i, message) \/ generate_fails(i, message)
         \/ GenerationLost(i, message)
  PROVE  IInv'
<1>1. PICK g \in Generation : g = gen[i] /\ message \in g.begun
  BY DEF IInv, TypeOK, apply_generated, generate_fails, GenerationLost
<1>2. ~Blank(gen[i]) /\ (Awaits(plan[i], gen[i]) => "forced" \in g.sent)
  BY <1>1 DEF Blank, Awaits
<1>3. UNCHANGED <<candidate, interview, invite, issued, admitted, resume, file, call, task>>
  BY DEF apply_generated, generate_fails, GenerationLost, UNCHANGED_invites
<1>4. IsOver(i, message) \in Generation /\ IsOver(i, message).sent = g.sent
  BY <1>1 DEF IsOver, Generation
<1>5. ASSUME NEW n \in 0 .. PlanRetries
      PROVE  ComesBack(i, message, n) \in Generation /\ g.sent \subseteq ComesBack(i, message, n).sent
  <2>1. PICK w \in Generation : w = IsOver(i, message) /\ w.sent = g.sent
    BY <1>4
  <2>2. PICK tries \in [Kinds -> 0 .. PlanRetries] : tries = [w.tries EXCEPT ![message] = n]
    BY <2>1 DEF Generation
  <2>3. PICK v : v = [w EXCEPT !.sent = @ \cup {message}, !.tries = tries]
    OBVIOUS
  <2>4. v \in Generation /\ g.sent \subseteq v.sent
    BY <2>1, <2>2, <2>3 DEF Generation
  <2>5. ComesBack(i, message, n) \in {w, v}
    BY <2>1, <2>2, <2>3 DEF ComesBack
  <2> QED
    BY <2>1, <2>4, <2>5
<1>6. g.tries[message] \in 0 .. PlanRetries
  BY <1>1 DEF Generation
<1>7. /\ history' \in History /\ history'.stranded = history.stranded
      /\ history'.lost = history.lost
      /\ \A j \in Interviews : GivenUp(history, j) => GivenUp(history', j)
  <2>1. CASE history' = history
    BY <2>1, HistoryTyped
  <2>2. CASE Mishap /\ history' = [history EXCEPT !.mishaps = @ + 1]
    BY <2>2, HistoryTyped DEF History, GivenUp
  <2> QED
    BY <2>1, <2>2 DEF apply_generated, generate_fails, GenerationLost
<1>8. ASSUME NEW v \in Generation, g.sent \subseteq v.sent, gen' = [gen EXCEPT ![i] = v],
             NEW p \in {None, "shell", "bare", "grounded", "frozen"},
             plan' = [plan EXCEPT ![i] = p],
             p = plan[i] \/ (p \in {"shell", "bare"} /\ Wanting(i))
      PROVE  IInv'
  <2>1. "forced" \in g.sent => Awaits(p, v)
    BY <1>8 DEF Awaits
  <2>2. p \in {"shell", "bare"} => Wanting(i)
    BY <1>8 DEF Wanting
  <2>3. p = None <=> plan[i] = None
    BY <1>8 DEF Wanting, None
  <2> QED
    BY <1>2, <1>3, <1>7, <1>8, <2>1, <2>2, <2>3, PlanKeeps
<1>9. CASE apply_generated(i, message)
  <2>1. PICK v : v = [g EXCEPT !.begun = @ \ {message}, !.generating = FALSE]
    OBVIOUS
  <2>2. v \in Generation /\ v.sent = g.sent /\ gen' = [gen EXCEPT ![i] = v]
    BY <1>1, <1>9, <2>1 DEF apply_generated, Generation
  <2>3. PICK p : p = IF plan[i] = "shell" THEN "bare" ELSE plan[i]
    OBVIOUS
  <2>4. plan' = [plan EXCEPT ![i] = p] /\ plan[i] \in {"shell", "bare", "grounded"}
    BY <1>9, <2>3 DEF apply_generated
  <2> QED
    BY <1>8, <2>2, <2>3, <2>4 DEF Wanting
<1>10. CASE generate_fails(i, message)
  <2>1. PICK marked \in BOOLEAN :
          /\ gen' = [gen EXCEPT ![i] =
               [IF gen[i].tries[message] < PlanRetries
                THEN ComesBack(i, message, gen[i].tries[message] + 1) ELSE IsOver(i, message)
                  EXCEPT !.generating = @ /\ ~marked]]
          /\ plan' = [plan EXCEPT ![i] = IF marked /\ @ = "bare" THEN "shell" ELSE @]
    BY <1>10 DEF generate_fails
  <2>2. PICK w \in Generation :
          /\ g.sent \subseteq w.sent
          /\ w = IF gen[i].tries[message] < PlanRetries
                 THEN ComesBack(i, message, gen[i].tries[message] + 1) ELSE IsOver(i, message)
    <3>1. CASE gen[i].tries[message] < PlanRetries
      <4>1. gen[i].tries[message] + 1 \in 0 .. PlanRetries
        BY <1>1, <1>6, <3>1, CandidacyAssumption
      <4> QED
        BY <1>5, <3>1, <4>1
    <3>2. CASE ~(gen[i].tries[message] < PlanRetries)
      BY <1>4, <3>2
    <3> QED
      BY <3>1, <3>2
  <2>3. PICK v : v = [w EXCEPT !.generating = @ /\ ~marked]
    OBVIOUS
  <2>4. v \in Generation /\ g.sent \subseteq v.sent
    BY <2>1, <2>2, <2>3 DEF Generation
  <2>5. gen' = [gen EXCEPT ![i] = v]
    BY <2>1, <2>2, <2>3
  <2>6. PICK p \in {None, "shell", "bare", "grounded", "frozen"} :
          /\ p = IF marked /\ plan[i] = "bare" THEN "shell" ELSE plan[i]
          /\ plan' = [plan EXCEPT ![i] = p]
    BY <2>1 DEF IInv, TypeOK
  <2> QED
    BY <1>8, <2>4, <2>5, <2>6 DEF Wanting
<1>11. CASE GenerationLost(i, message)
  <2>1. PICK v \in Generation :
          v = ComesBack(i, message, gen[i].tries[message]) /\ g.sent \subseteq v.sent
    BY <1>1, <1>5, <1>6
  <2>2. gen' = [gen EXCEPT ![i] = v] /\ plan' = plan
    BY <1>11, <2>1 DEF GenerationLost
  <2>3. plan' = [plan EXCEPT ![i] = plan[i]]
        /\ plan[i] \in {None, "shell", "bare", "grounded", "frozen"}
    BY <2>2 DEF IInv, TypeOK
  <2> QED
    BY <1>8, <2>1, <2>2, <2>3
<1> QED
  BY <1>9, <1>10, <1>11
-----------------------------------------------------------------------------

(* Redeeming takes the row lock of an invite that is worth a redemption,   *)
(* and keeps it while it looks at the interview.                           *)
LEMMA ClaimKeeps ==
  ASSUME IInv, NEW c \in Calls, NEW i \in Interviews, redeem_claims(c, i)
  PROVE  IInv'
<1>1. PICK x : x = [Idle EXCEPT !.step = "claimed", !.on = i]
  OBVIOUS
<1>2. x \in CallRecord /\ x.step = "claimed" /\ x.on = i
  BY <1>1 DEF Idle, CallRecord
<1>3. invite[i].count \in 0 .. MaxRedemptions
  BY DEF IInv, TypeOK, Invite
<1>4. CallFits(x) /\ ~Locked(x.on)
  BY <1>2, <1>3, CandidacyAssumption DEF redeem_claims, Redeemable, CallFits
<1>5. call' = [call EXCEPT ![c] = x] /\ call[c].step \notin {"enqueueing", "minting"}
  BY <1>1 DEF redeem_claims
<1>6. file' \in [Resumes -> {None, "good", "garbled", "oversize"}]
  BY DEF redeem_claims, IInv, TypeOK
<1> QED
  BY <1>2, <1>4, <1>5, <1>6, CallKeeps DEF redeem_claims

(* A request that goes on without the rows, or gives up.                   *)
LEMMA GoesOnKeeps ==
  ASSUME IInv, NEW c \in Calls,
         \/ redeem_reads(c) \/ head_object(c) \/ complete_refuses(c) \/ complete_raises(c)
  PROVE  IInv'
<1>1. /\ call \in [Calls -> CallRecord] /\ CallFits(call[c])
      /\ call[c].step \notin {"enqueueing", "minting"}
  BY DEF IInv, TypeOK, CallRecord, LocksHold, redeem_reads, head_object, complete_refuses,
         complete_raises
<1>2. /\ UNCHANGED <<candidate, interview, invite, issued, admitted, plan, gen, resume, task,
                     history>>
      /\ file' \in [Resumes -> {None, "good", "garbled", "oversize"}]
  BY DEF IInv, TypeOK, redeem_reads, head_object, complete_refuses, complete_raises,
         UNCHANGED_invites
<1>3. \/ Ends(c)
      \/ call[c].step = "claimed" /\ Goes(c, "redeeming")
      \/ call[c].step = "heading" /\ \E step \in {"deleting", "completing"} : Goes(c, step)
  BY DEF redeem_reads, head_object, complete_refuses, complete_raises
<1>4. PICK x \in CallRecord :
        /\ call' = [call EXCEPT ![c] = x]
        /\ \/ x = Idle
           \/ x.step = "redeeming" /\ call[c].step = "claimed" /\ x.on = call[c].on
           \/ x.step \in {"deleting", "completing"} /\ call[c].step = "heading" /\ x.on = call[c].on
  BY <1>1, <1>3, Blanks, CallSteps
<1>5. /\ CallFits(x) /\ (Holds(x) => Holds(call[c]) /\ x.on = call[c].on)
      /\ x.step # "minting"
  BY <1>1, <1>4, Blanks DEF CallFits, Holds
<1> QED
  BY <1>1, <1>2, <1>4, <1>5, CallKeeps

(* The requests that are about to be given a token can be counted.         *)
LEMMA MintingCounts ==
  ASSUME NEW i \in Interviews
  PROVE  /\ IsFiniteSet(Minting(i)) /\ Cardinality(Minting(i)) \in Nat
         /\ \A c \in Calls : /\ c \notin Minting(i) =>
                                  Cardinality(Minting(i) \cup {c}) = Cardinality(Minting(i)) + 1
                             /\ c \in Minting(i) =>
                                  Cardinality(Minting(i) \ {c}) = Cardinality(Minting(i)) - 1
<1>1. IsFiniteSet(Minting(i))
  BY CandidacyAssumption, FS_Subset DEF Minting
<1> QED
  BY <1>1, FS_CardinalityType, FS_AddElement, FS_RemoveElement

(* What a link yields is a number.                                         *)
LEMMA YieldTyped ==
  ASSUME IInv, NEW i \in Interviews
  PROVE  /\ issued[i] \in Nat /\ Cardinality(Minting(i)) \in Nat /\ history.lost[i] \in Nat
         /\ invite[i].count \in Nat /\ MaxRedemptions \in Nat
         /\ Yield(i) = issued[i] + Cardinality(Minting(i)) + history.lost[i]
<1>1. invite[i] \in Invite /\ issued[i] \in 0 .. MaxRedemptions
  BY DEF IInv, TypeOK
<1>2. history.lost[i] \in 0 .. MaxRedemptions
  BY HistoryTyped
<1> QED
  BY <1>1, <1>2, MintingCounts, CandidacyAssumption DEF Invite, Yield

LEMMA YieldBound ==
  ASSUME IInv, NEW i \in Interviews
  PROVE  Yield(i) <= MaxRedemptions
BY YieldTyped DEF IInv, Charged, Yield

(* A request goes on with its token to come, or to the end with it: what   *)
(* else it touches is the invite that it charges, or the token's count.    *)
LEMMA MintKeeps ==
  ASSUME IInv, NEW c \in Calls, NEW i \in Interviews, NEW x \in CallRecord,
         call[c].step \in {"redeeming", "minting"},
         x.step \in {"idle", "minting"}, x.step = "minting" => x.on = i,
         call' = [call EXCEPT ![c] = x],
         invite' \in [Interviews -> Invite], issued' \in [Interviews -> 0 .. MaxRedemptions],
         admitted' \in BOOLEAN,
         \A j \in Interviews \ {i} : invite'[j] = invite[j],
         invite' = invite \/ (call[c].step = "redeeming" /\ call[c].on = i),
         candidate \/ invite' = invite,
         Charged',
         UNCHANGED <<candidate, interview, plan, gen, resume, file, task, history>>
  PROVE  IInv'
<1>1. \A d \in Calls : call'[d] = IF d = c THEN x ELSE call[d]
  BY DEF IInv, TypeOK
<1>2. TypeOK'
  BY DEF IInv, TypeOK, CallRecord
<1>3. LocksHold'
  <2>1. ASSUME NEW d \in Calls, Holds(call'[d])
        PROVE  call'[d] = call[d] /\ invite'[call[d].on] = invite[call[d].on]
    BY <1>1, <2>1 DEF IInv, LocksHold, CallFits, Holds
  <2>2. \A d \in Calls : CallFits(call[d])
    BY DEF IInv, LocksHold
  <2>3. \A d \in Calls :
          /\ Holds(call'[d]) => /\ call'[d].on \in Interviews
                                /\ invite'[call'[d].on].status \in {"PENDING", "REDEEMED"}
                                /\ invite'[call'[d].on].count < MaxRedemptions
          /\ call'[d].step = "minting" => call'[d].on \in Interviews
          /\ call'[d].step \in {"heading", "deleting", "completing", "enqueueing"}
               => call'[d].on \in Resumes
    BY <1>1, <2>1, <2>2 DEF CallFits
  <2>4. \A d, e \in Calls :
          Holds(call'[d]) /\ Holds(call'[e]) /\ call'[d].on = call'[e].on => d = e
    BY <2>1 DEF IInv, LocksHold
  <2> QED
    BY <2>3, <2>4 DEF LocksHold, CallFits, Holds
<1>4. TasksFit' /\ AllReached' /\ Fresh'
  BY DEF IInv, TasksFit, TaskFits, AllReached, Reached, Awaits, GivenUp, Ready, Wanting, Replans,
         Fresh, Unplanned, Blank
<1>5. AllCarried'
  <2>1. \A r \in Resumes, d \in Calls : Sends(call[d], r) => Sends(call'[d], r)
    BY <1>1 DEF Sends
  <2> QED
    BY <2>1 DEF IInv, AllCarried, Carried, Sends, Answers
<1>6. ErasureHolds'
  BY DEF IInv, ErasureHolds
<1> QED
  BY <1>2, <1>3, <1>4, <1>5, <1>6 DEF IInv

(* The redemption is charged, and its lock given up; the lock says that    *)
(* there was one left.                                                     *)
LEMMA RedeemKeeps ==
  ASSUME IInv, NEW c \in Calls, redeem_invite(c)
  PROVE  IInv'
<1>1. PICK i \in Interviews : /\ i = call[c].on /\ call[c].step = "redeeming"
                              /\ invite[i].status \in {"PENDING", "REDEEMED"}
                              /\ invite[i].count < MaxRedemptions
  BY DEF redeem_invite, IInv, LocksHold, CallFits, Holds
<1>2. candidate
  BY <1>1, Present DEF None
<1>3. PICK w \in Invite, n \in 0 .. MaxRedemptions : w = invite[i] /\ n = w.count + 1
  BY <1>1, CandidacyAssumption DEF IInv, TypeOK, Invite
<1>4. PICK v : v = [w EXCEPT !.status = "REDEEMED", !.count = n]
  OBVIOUS
<1>5. v \in Invite /\ v.count = n
  BY <1>3, <1>4 DEF Invite
<1>6. invite' = [invite EXCEPT ![i] = v]
  BY <1>1, <1>3, <1>4 DEF redeem_invite
<1>7. \A j \in Interviews : invite'[j] = IF j = i THEN v ELSE invite[j]
  BY <1>6 DEF IInv, TypeOK
<1>8. PICK x \in CallRecord : x.step = "minting" /\ x.on = i /\ call' = [call EXCEPT ![c] = x]
  BY <1>1, CallSteps DEF redeem_invite, IInv, TypeOK, CallRecord
<1>9. \A d \in Calls : call'[d] = IF d = c THEN x ELSE call[d]
  BY <1>8 DEF IInv, TypeOK
<1>10. /\ Minting(i)' = Minting(i) \cup {c} /\ c \notin Minting(i)
       /\ \A j \in Interviews \ {i} : Minting(j)' = Minting(j)
  BY <1>1, <1>8, <1>9 DEF Minting
<1>11. Charged'
  <2>1. UNCHANGED <<candidate, issued, history>>
    BY DEF redeem_invite
  <2>2. ASSUME NEW j \in Interviews \ {i}
        PROVE  invite'[j].count = Yield(j)' /\ Yield(j)' <= MaxRedemptions
    BY <1>2, <1>7, <1>10, <2>1 DEF IInv, Charged, Yield
  <2>3. Cardinality(Minting(i)') = Cardinality(Minting(i)) + 1
    BY <1>10, MintingCounts
  <2>4. Yield(i)' = issued[i] + Cardinality(Minting(i)') + history.lost[i]
    BY <2>1 DEF Yield
  <2>5. Yield(i)' = Yield(i) + 1
    BY <2>3, <2>4, YieldTyped
  <2>6. Yield(i) = invite[i].count /\ n = invite[i].count + 1 /\ invite'[i].count = n
    BY <1>2, <1>3, <1>5, <1>7 DEF IInv, Charged
  <2>7. invite'[i].count = Yield(i)' /\ Yield(i)' <= MaxRedemptions
    BY <2>5, <2>6, CandidacyAssumption
  <2> QED
    BY <2>2, <2>7 DEF Charged
<1>12. /\ invite' \in [Interviews -> Invite] /\ issued' \in [Interviews -> 0 .. MaxRedemptions]
       /\ admitted' \in BOOLEAN
       /\ UNCHANGED <<candidate, interview, plan, gen, resume, file, task, history>>
  <2>1. invite' \in [Interviews -> Invite]
    BY <1>5, <1>6 DEF IInv, TypeOK
  <2>2. /\ issued' = issued /\ admitted' = admitted
        /\ UNCHANGED <<candidate, interview, plan, gen, resume, file, task, history>>
    BY DEF redeem_invite
  <2> QED
    BY <2>1, <2>2 DEF IInv, TypeOK
<1>13. \A j \in Interviews \ {i} : invite'[j] = invite[j]
  BY <1>7
<1> QED
  BY <1>1, <1>2, <1>8, <1>11, <1>12, <1>13, MintKeeps

(* The token it is given was charged, whether or not the invite is still   *)
(* there.                                                                  *)
LEMMA TokenKeeps ==
  ASSUME IInv, NEW c \in Calls, create_interview_token(c)
  PROVE  IInv'
<1>1. PICK i \in Interviews : i = call[c].on /\ call[c].step = "minting"
  BY DEF create_interview_token, IInv, LocksHold, CallFits
<1>2. \A d \in Calls : call'[d] = IF d = c THEN Idle ELSE call[d]
  BY DEF create_interview_token, Ends, IInv, TypeOK
<1>3. /\ Minting(i)' = Minting(i) \ {c} /\ c \in Minting(i)
      /\ \A j \in Interviews \ {i} : Minting(j)' = Minting(j)
  BY <1>1, <1>2, Blanks DEF Minting
<1>4. /\ UNCHANGED <<candidate, interview, invite, plan, gen, resume, file, task, history>>
      /\ issued' = [issued EXCEPT ![i] = @ + 1] /\ admitted' \in BOOLEAN
  BY <1>1 DEF create_interview_token
<1>5. \A j \in Interviews : issued'[j] = IF j = i THEN issued[i] + 1 ELSE issued[j]
  BY <1>4 DEF IInv, TypeOK
<1>6. Yield(i)' = Yield(i)
  <2>1. Cardinality(Minting(i)') = Cardinality(Minting(i)) - 1
    BY <1>3, MintingCounts
  <2>2. Yield(i)' = (issued[i] + 1) + Cardinality(Minting(i)') + history.lost[i]
    BY <1>4, <1>5 DEF Yield
  <2> QED
    BY <2>1, <2>2, YieldTyped
<1>7. \A j \in Interviews \ {i} : Yield(j)' = Yield(j)
  BY <1>3, <1>4, <1>5 DEF Yield
<1>8. Charged'
  BY <1>4, <1>6, <1>7 DEF IInv, Charged
<1>9. issued' \in [Interviews -> 0 .. MaxRedemptions]
  <2>1. Cardinality(Minting(i)) >= 1
    <3>1. Cardinality(Minting(i) \ {c}) = Cardinality(Minting(i)) - 1
      BY <1>3, MintingCounts
    <3>2. IsFiniteSet(Minting(i) \ {c})
      BY MintingCounts, FS_Subset
    <3>3. Cardinality(Minting(i) \ {c}) \in Nat
      BY <3>2, FS_CardinalityType
    <3> QED
      BY <3>1, <3>3, MintingCounts
  <2>2. Yield(i) <= MaxRedemptions
    BY YieldBound
  <2>3. issued[i] + 1 \in 0 .. MaxRedemptions
    BY <2>1, <2>2, YieldTyped
  <2> QED
    BY <1>4, <2>3 DEF IInv, TypeOK
<1>10. invite' \in [Interviews -> Invite] /\ call' = [call EXCEPT ![c] = Idle]
  BY <1>4 DEF create_interview_token, Ends, IInv, TypeOK
<1> QED
  BY <1>1, <1>4, <1>8, <1>9, <1>10, Blanks, MintKeeps

(* The erasure waits for the locks and takes every row with it: there is   *)
(* nothing left to charge, to carry or to plan.                            *)
LEMMA EraseKeeps ==
  ASSUME IInv, delete_candidate
  PROVE  IInv'
<1>1. TypeOK'
  <2>1. /\ candidate' \in BOOLEAN
        /\ interview' \in [Interviews -> {None, "INVITED", "IN_PROGRESS", "OVER"}]
        /\ invite' \in [Interviews -> Invite]
        /\ plan' \in [Interviews -> {None, "shell", "bare", "grounded", "frozen"}]
        /\ resume' \in [Resumes -> Resume]
    BY Blanks DEF delete_candidate
  <2>2. gen' \in [Interviews -> Generation]
    <3>1. ASSUME NEW i \in Interviews
          PROVE  [gen[i] EXCEPT !.generating = FALSE] \in Generation
      <4>1. PICK g \in Generation : g = gen[i]
        BY DEF IInv, TypeOK
      <4>2. [g EXCEPT !.generating = FALSE] \in Generation
        BY DEF Generation
      <4> QED
        BY <4>1, <4>2
    <3> QED
      BY <3>1 DEF delete_candidate
  <2> QED
    BY <2>1, <2>2 DEF delete_candidate, IInv, TypeOK
<1>2. LocksHold'
  <2>1. \A c \in Calls : ~Holds(call[c])
    BY DEF delete_candidate, IInv, LocksHold, CallFits, Holds, Locked
  <2> QED
    BY <2>1 DEF delete_candidate, IInv, LocksHold, CallFits, Holds
<1>3. TasksFit' /\ Charged' /\ Fresh' /\ ErasureHolds'
  BY Blanks DEF delete_candidate, IInv, TasksFit, TaskFits, Charged, Yield, Minting, Fresh,
                ErasureHolds
<1>4. AllCarried' /\ AllReached'
  BY Blanks DEF delete_candidate, AllCarried, Carried, AllReached, Reached, Awaits, GivenUp, Ready, Wanting, None
<1> QED
  BY <1>1, <1>2, <1>3, <1>4 DEF IInv
-----------------------------------------------------------------------------
(* A CV's row takes another status.                                        *)
LEMMA StatusIs ==
  ASSUME IInv, NEW r \in Resumes, NEW status \in ResumeStatus,
         resume' = [resume EXCEPT ![r].status = status]
  PROVE  \E v \in Resume : v.status = status /\ resume' = [resume EXCEPT ![r] = v]
<1>1. PICK w \in Resume : w = resume[r]
  BY DEF IInv, TypeOK
<1>2. PICK v : v = [w EXCEPT !.status = status]
  OBVIOUS
<1>3. v \in Resume /\ v.status = status
  BY <1>2 DEF Resume
<1> QED
  BY <1>1, <1>2, <1>3

(* A new row, or a file under a key: nobody has the CV in hand yet.        *)
LEMMA UploadKeeps ==
  ASSUME IInv, NEW r \in Resumes, start_upload(r) \/ \E f \in {"good", "garbled", "oversize"} : Uploads(r, f)
  PROVE  IInv'
<1>1. CASE start_upload(r)
  <2>1. PICK v \in Resume : v.status = "PENDING" /\ resume' = [resume EXCEPT ![r] = v]
    BY <1>1, StatusIs DEF start_upload, ResumeStatus
  <2>2. /\ UNCHANGED <<candidate, interview, invite, issued, admitted, plan, gen, file, call,
                       task, history>>
        /\ candidate
    BY <1>1 DEF start_upload, UNCHANGED_invites
  <2>3. /\ call' \in [Calls -> CallRecord] /\ task' \in [Tasks -> TaskRecord]
        /\ LocksHold' /\ TasksFit' /\ \A i \in Interviews : Minting(i)' = Minting(i)
    BY <2>2 DEF Minting, IInv, TypeOK, CallRecord, TaskRecord, LocksHold, CallFits, Holds, TasksFit, TaskFits
  <2> QED
    BY <2>1, <2>2, <2>3, RowKeeps
<1>2. CASE \E f \in {"good", "garbled", "oversize"} : Uploads(r, f)
  <2>1. /\ UNCHANGED <<candidate, interview, invite, issued, admitted, plan, gen, resume, call,
                       task, history>>
        /\ file' \in [Resumes -> {None, "good", "garbled", "oversize"}]
    BY <1>2 DEF Uploads, UNCHANGED_invites, IInv, TypeOK
  <2>2. TypeOK' /\ LocksHold' /\ TasksFit' /\ Charged' /\ Fresh' /\ ErasureHolds'
    BY <2>1 DEF IInv, TypeOK, LocksHold, CallFits, Holds, TasksFit, TaskFits,
                Charged, Yield, Minting, Fresh, Unplanned, ErasureHolds
  <2>3. AllCarried' /\ AllReached'
    BY <2>1 DEF IInv, AllCarried, Carried, Sends, Answers, AllReached, Reached, Awaits, GivenUp, Ready, Wanting,
                Replans
  <2> QED
    BY <2>2, <2>3 DEF IInv
<1> QED
  BY <1>1, <1>2

(* A request about to complete an upload names a CV that is waiting.       *)
LEMMA ReadsKeeps ==
  ASSUME IInv, NEW c \in Calls, NEW r \in Resumes, complete_reads(c, r)
  PROVE  IInv'
<1>1. PICK x : x = [Idle EXCEPT !.step = "heading", !.on = r]
  OBVIOUS
<1>2. x \in CallRecord /\ x.step = "heading" /\ x.on = r
  BY <1>1 DEF Idle, CallRecord
<1>3. CallFits(x) /\ ~Holds(x)
  BY <1>2 DEF CallFits, Holds
<1>4. call' = [call EXCEPT ![c] = x] /\ call[c].step \notin {"enqueueing", "minting"}
  BY <1>1 DEF complete_reads
<1>5. /\ UNCHANGED <<candidate, interview, invite, issued, admitted, plan, gen, resume, task,
                     history>>
      /\ file' \in [Resumes -> {None, "good", "garbled", "oversize"}]
  BY DEF complete_reads, UNCHANGED_invites, IInv, TypeOK
<1> QED
  BY <1>2, <1>3, <1>4, <1>5, CallKeeps

(* The row becomes UPLOADED with a request that is to send its task.       *)
LEMMA CompleteKeeps ==
  ASSUME IInv, NEW c \in Calls, complete_upload(c)
  PROVE  IInv'
<1>1. PICK r \in Resumes : /\ r = call[c].on /\ call[c].step = "completing"
                           /\ resume[r].status # None
                           /\ resume' = [resume EXCEPT ![r].status = "UPLOADED"]
                           /\ Goes(c, "enqueueing")
  BY DEF complete_upload, IInv, LocksHold, CallFits
<1>2. PICK v \in Resume : v.status = "UPLOADED" /\ resume' = [resume EXCEPT ![r] = v]
  BY <1>1, StatusIs DEF ResumeStatus
<1>3. PICK x \in CallRecord : /\ x.step = "enqueueing" /\ x.on = r
                              /\ call' = [call EXCEPT ![c] = x]
  BY <1>1, CallSteps DEF IInv, TypeOK, CallRecord
<1>4. /\ UNCHANGED <<candidate, interview, invite, issued, admitted, plan, gen, file, task,
                     history>>
      /\ candidate
  BY <1>1, Present DEF complete_upload, UNCHANGED_invites
<1>5. \A d \in Calls : call'[d] = IF d = c THEN x ELSE call[d]
  BY <1>3 DEF IInv, TypeOK
<1>6. call' \in [Calls -> CallRecord] /\ task' \in [Tasks -> TaskRecord]
  BY <1>3, <1>4 DEF IInv, TypeOK, CallRecord, TaskRecord
<1>7. LocksHold' /\ TasksFit'
  <2>1. \A d \in Calls : CallFits(call'[d]) /\ (Holds(call'[d]) => call'[d] = call[d])
    BY <1>3, <1>5 DEF IInv, LocksHold, CallFits, Holds
  <2> QED
    BY <1>4, <2>1 DEF IInv, LocksHold, CallFits, Holds, TasksFit, TaskFits
<1>8. \A i \in Interviews : Minting(i)' = Minting(i)
  BY <1>1, <1>3, <1>5 DEF Minting
<1>9. Sends(call'[c], r) /\ \A d \in Calls, q \in Resumes : Sends(call[d], q) => Sends(call'[d], q)
  BY <1>1, <1>3, <1>5 DEF Sends
<1> QED
  BY <1>1, <1>2, <1>4, <1>6, <1>7, <1>8, <1>9, RowKeeps

(* The message takes over from the request, or its loss is recorded.       *)
LEMMA EnqueueKeeps ==
  ASSUME IInv, NEW c \in Calls, enqueue(c)
  PROVE  IInv'
<1>1. PICK r \in Resumes : r = call[c].on /\ call[c].step = "enqueueing"
  BY DEF enqueue, IInv, LocksHold, CallFits
<1>2. \A d \in Calls : call'[d] = IF d = c THEN Idle ELSE call[d]
  BY DEF enqueue, Ends, IInv, TypeOK
<1>3. /\ call' \in [Calls -> CallRecord]
      /\ UNCHANGED <<candidate, interview, invite, issued, admitted, plan, gen, resume, file>>
  BY Blanks DEF enqueue, Ends, UNCHANGED_invites, IInv, TypeOK, CallRecord
<1>4. LocksHold'
  <2>1. \A d \in Calls : CallFits(call'[d]) /\ (Holds(call'[d]) => call'[d] = call[d])
    BY <1>2, Blanks DEF IInv, LocksHold, CallFits, Holds
  <2> QED
    BY <1>3, <2>1 DEF IInv, LocksHold, CallFits, Holds
<1>5. (history'.lost = history.lost => Charged') /\ ErasureHolds'
  <2>1. \A i \in Interviews : Minting(i)' = Minting(i)
    BY <1>1, <1>2, Blanks DEF Minting
  <2> QED
    BY <1>3, <2>1 DEF IInv, Charged, Yield, ErasureHolds
<1>6. \A d \in Calls, q \in Resumes : Sends(call[d], q) => Sends(call'[d], q) \/ q = r
  BY <1>1, <1>2 DEF Sends
<1>7. ASSUME NEW t \in Tasks, task[t] = NoTask, history' = history,
             task' = [task EXCEPT ![t].step = "queued", ![t].resume = r]
      PROVE  IInv'
  <2>1. PICK x : x = [NoTask EXCEPT !.step = "queued", !.resume = r]
    OBVIOUS
  <2>2. x \in TaskRecord /\ x.step = "queued" /\ x.resume = r /\ x.todo = {}
    <3>1. PICK w \in TaskRecord : w = NoTask /\ w.todo = {}
      BY Blanks
    <3> QED
      BY <2>1, <3>1 DEF TaskRecord
  <2>3. task' = [task EXCEPT ![t] = x]
    BY <1>7, <2>1 DEF IInv, TypeOK
  <2>4. \A d \in Tasks : task'[d] = IF d = t THEN x ELSE task[d]
    BY <2>3 DEF IInv, TypeOK
  <2>5. TypeOK'
    <3>1. task' \in [Tasks -> TaskRecord]
      BY <2>2, <2>3 DEF IInv, TypeOK, TaskRecord
    <3> QED
      BY <1>3, <1>7, <3>1 DEF IInv, TypeOK, CallRecord, TaskRecord
  <2>6. TasksFit'
    BY <2>2, <2>4 DEF IInv, TasksFit, TaskFits
  <2>7. Answers(task'[t], r) /\ \A d \in Tasks, q \in Resumes : Answers(task[d], q) => Answers(task'[d], q)
    BY <1>7, <2>2, <2>4, Blanks DEF Answers
  <2>8. AllCarried'
    <3>1. ASSUME NEW q \in Resumes, resume[q].status \in {"UPLOADED", "PARSING"}
          PROVE  \/ q \in history.stranded
                 \/ \E d \in Calls : Sends(call'[d], q)
                 \/ \E d \in Tasks : Answers(task'[d], q)
      <4>1. CASE q = r
        BY <2>7, <4>1
      <4>2. CASE q # r
        BY <1>6, <2>7, <3>1, <4>2 DEF IInv, AllCarried, Carried
      <4> QED
        BY <4>1, <4>2
    <3> QED
      BY <1>3, <1>7, <3>1 DEF AllCarried, Carried, Sends, Answers
  <2>9. /\ \A d \in Tasks, i \in Interviews : Replans(task[d], i) => Replans(task'[d], i)
        /\ Fresh'
    BY <1>3, <1>7, <2>2, <2>4, Blanks DEF Replans, IInv, Fresh, Unplanned
  <2>10. AllReached'
    BY <1>3, <1>7, <2>9 DEF IInv, AllReached, Reached, Awaits, GivenUp, Ready, Wanting, Replans
  <2> QED
    BY <1>4, <1>5, <1>7, <2>5, <2>6, <2>8, <2>9, <2>10 DEF IInv
<1>8. ASSUME Mishap, task' = task,
             history' = [history EXCEPT !.mishaps = @ + 1, !.stranded = @ \cup {r}]
      PROVE  IInv'
  <2>1. PICK n \in 0 .. MaxMishaps, m \in SUBSET Resumes :
          n = history.mishaps + 1 /\ m = history.stranded \cup {r}
    BY <1>8, HistoryTyped
  <2>2. history' = [history EXCEPT !.mishaps = n, !.stranded = m]
    BY <1>8, <2>1
  <2>3. HistoryIs(history', m, history.unplanned)
    BY <2>2, HistoryTyped, HistoryFields
  <2>4. TypeOK'
    BY <1>3, <1>8, <2>3 DEF IInv, TypeOK, CallRecord, HistoryIs
  <2>5. TasksFit' /\ Fresh'
    BY <1>3, <1>8 DEF IInv, TasksFit, TaskFits, Fresh, Unplanned
  <2>6. AllCarried'
    BY <1>3, <1>6, <1>8, <2>1, <2>3 DEF IInv, AllCarried, Carried, Sends, Answers, HistoryIs
  <2>7. AllReached'
    BY <1>3, <1>8, <2>3 DEF IInv, AllReached, Reached, Awaits, GivenUp, Ready, Wanting, Replans, HistoryIs
  <2> QED
    BY <1>4, <1>5, <2>3, <2>4, <2>5, <2>6, <2>7 DEF IInv, HistoryIs
<1> QED
  BY <1>1, <1>7, <1>8 DEF enqueue

(* The requests are gone: what they held is free, what they had to send is *)
(* recorded as lost.                                                       *)
LEMMA CrashKeeps ==
  ASSUME IInv, ApiCrash
  PROVE  IInv'
<1>1. \A d \in Calls : call'[d] = Idle
  BY DEF ApiCrash
<1>2. /\ call' \in [Calls -> CallRecord]
      /\ UNCHANGED <<candidate, interview, invite, issued, admitted, plan, gen, resume, file, task>>
  BY Blanks DEF ApiCrash, UNCHANGED_invites
<1>3. PICK n \in 0 .. MaxMishaps, m \in SUBSET Resumes :
        /\ n = history.mishaps + 1
        /\ m = history.stranded \cup {r \in Resumes : \E c \in Calls :
                                        call[c].step = "enqueueing" /\ call[c].on = r}
  BY HistoryTyped DEF ApiCrash
<1>4. PICK lost \in [Interviews -> 0 .. MaxRedemptions] :
        lost = [i \in Interviews |-> history.lost[i] + Cardinality(Minting(i))]
  <2>1. ASSUME NEW i \in Interviews
        PROVE  history.lost[i] + Cardinality(Minting(i)) \in 0 .. MaxRedemptions
    <3>1. Yield(i) <= MaxRedemptions
      BY YieldBound
    <3> QED
      BY <3>1, YieldTyped
  <2> QED
    BY <2>1
<1>5. history' = [history EXCEPT !.mishaps = n, !.stranded = m, !.lost = lost]
  BY <1>3, <1>4 DEF ApiCrash
<1>6. /\ history' \in History /\ history'.stranded = m /\ history'.lost = lost
      /\ history'.unplanned = history.unplanned /\ history'.dropped = history.dropped
  BY <1>5, HistoryTyped DEF History
<1>7. TypeOK'
  BY <1>2, <1>6 DEF IInv, TypeOK, CallRecord
<1>8. LocksHold'
  BY <1>1, Blanks DEF LocksHold, CallFits, Holds
<1>9. Charged'
  <2>1. ASSUME NEW i \in Interviews
        PROVE  Yield(i)' = Yield(i)
    <3>1. Minting(i)' = {}
      BY <1>1, Blanks DEF Minting
    <3>2. Cardinality(Minting(i)') = 0
      BY <3>1, FS_EmptySet
    <3>3. Yield(i)' = issued[i] + Cardinality(Minting(i)') + lost[i]
      BY <1>2, <1>6 DEF Yield
    <3> QED
      BY <1>4, <3>2, <3>3, YieldTyped
  <2> QED
    BY <1>2, <2>1 DEF IInv, Charged
<1>10. TasksFit' /\ Fresh' /\ ErasureHolds'
  BY <1>2 DEF IInv, TasksFit, TaskFits, Fresh, Unplanned, ErasureHolds
<1>11. AllCarried'
  BY <1>2, <1>3, <1>6 DEF IInv, AllCarried, Carried, Sends, Answers
<1>12. AllReached'
  BY <1>2, <1>6 DEF IInv, AllReached, Reached, Awaits, GivenUp, Ready, Wanting, Replans
<1> QED
  BY <1>7, <1>8, <1>9, <1>10, <1>11, <1>12 DEF IInv
-----------------------------------------------------------------------------

(* What a delivery leaves alone, and its CV.                               *)
LEMMA TaskTyped ==
  ASSUME IInv, NEW t \in Tasks
  PROVE  /\ task \in [Tasks -> TaskRecord] /\ task[t] \in TaskRecord /\ TaskFits(task[t])
         /\ task[t].step \notin {"none", "done"} => task[t].resume \in Resumes
         /\ gen \in [Interviews -> Generation]
         /\ history \in History
         /\ candidate => \A i \in Interviews : interview[i] = None => i \notin task[t].todo
BY DEF IInv, TypeOK, TaskRecord, TasksFit, TaskFits, Fresh, Unplanned

(* A delivery finds its CV settled, or takes it in hand.                   *)
LEMMA BeginsKeeps ==
  ASSUME IInv, NEW t \in Tasks, process_begins(t)
  PROVE  IInv'
<1>1. PICK r \in Resumes : /\ r = task[t].resume /\ task[t].step = "queued"
                           /\ resume[r].status # None
  BY TaskTyped DEF process_begins
<1>2. \A i \in Interviews : ~Replans(task[t], i)
  BY <1>1, TaskTyped DEF Replans, TaskFits
<1>3. CASE Settled(resume[r].status) /\ TaskDone(t) /\ resume' = resume
  <2>1. PICK x \in TaskRecord : /\ x.step = "done" /\ x.todo = {}
                                /\ task' = [task EXCEPT ![t] = x]
    BY <1>3, TaskTyped, TaskSteps
  <2>2. TaskFits(x)
    BY <2>1 DEF TaskFits
  <2>3. \A q \in Resumes : resume[q].status \in {"UPLOADED", "PARSING"} => ~Answers(task[t], q)
    BY <1>1, <1>3 DEF Settled, Answers
  <2>4. UNCHANGED <<candidate, interview, invite, issued, admitted, plan, gen, resume, file, call,
                    history>>
    BY <1>3 DEF process_begins, UNCHANGED_invites
  <2> QED
    BY <1>2, <2>1, <2>2, <2>3, <2>4, TaskTyped, TaskKeeps
<1>4. CASE TaskGoes(t, "parsing") /\ resume' = [resume EXCEPT ![r].status = "PARSING"]
  <2>1. PICK v \in Resume : v.status = "PARSING" /\ resume' = [resume EXCEPT ![r] = v]
    BY <1>4, StatusIs DEF ResumeStatus
  <2>2. PICK x \in TaskRecord :
          /\ x.step = "parsing" /\ x.resume = r /\ x.todo = task[t].todo
          /\ task' = [task EXCEPT ![t] = x]
    BY <1>1, <1>4, TaskTyped, TaskSteps
  <2>3. \A d \in Tasks : task'[d] = IF d = t THEN x ELSE task[d]
    BY <2>2, TaskTyped
  <2>4. /\ UNCHANGED <<candidate, interview, invite, issued, admitted, plan, gen, file, call,
                       history>>
        /\ candidate
    BY <1>1, Present DEF process_begins, UNCHANGED_invites
  <2>5. /\ call' \in [Calls -> CallRecord] /\ LocksHold'
        /\ \A q \in Resumes : \A c \in Calls : Sends(call[c], q) => Sends(call'[c], q)
        /\ \A i \in Interviews : /\ Minting(i)' = Minting(i)
                                 /\ \A d \in Tasks : i \in task'[d].todo => i \in task[d].todo
    BY <2>2, <2>3, <2>4 DEF IInv, TypeOK, CallRecord, LocksHold, CallFits, Holds, Minting
  <2>6. task' \in [Tasks -> TaskRecord] /\ TasksFit'
    BY <1>1, <2>2, <2>3, TaskTyped DEF IInv, TasksFit, TaskFits
  <2>7. /\ Answers(task'[t], r)
        /\ \A q \in Resumes, d \in Tasks : Answers(task[d], q) => Answers(task'[d], q)
    BY <1>1, <2>2, <2>3 DEF Answers
  <2>8. \A i \in Interviews, d \in Tasks : Replans(task[d], i) => Replans(task'[d], i)
    BY <1>2, <2>3
  <2> QED
    BY <2>1, <2>4, <2>5, <2>6, <2>7, <2>8, RowKeeps
<1> QED
  BY <1>1, <1>3, <1>4 DEF process_begins

(* It parses the file, whatever its outcome.                               *)
LEMMA ParsesKeeps ==
  ASSUME IInv, NEW t \in Tasks, process_parses(t)
  PROVE  IInv'
<1>1. PICK step \in {"failing", "storing"} : task[t].step = "parsing" /\ TaskGoes(t, step)
  BY DEF process_parses
<1>2. PICK x \in TaskRecord :
        /\ x.step = step /\ x.resume = task[t].resume /\ x.todo = task[t].todo
        /\ task' = [task EXCEPT ![t] = x]
  BY <1>1, TaskTyped, TaskSteps
<1>3. TaskFits(x)
  BY <1>1, <1>2, TaskTyped DEF TaskFits
<1>4. /\ \A q \in Resumes : Answers(task[t], q) => Answers(x, q)
      /\ \A i \in Interviews : Replans(task[t], i) => Replans(x, i)
  BY <1>1, <1>2 DEF Answers, Replans
<1>5. UNCHANGED <<candidate, interview, invite, issued, admitted, plan, gen, resume, file, call,
                  history>>
  BY DEF process_parses, UNCHANGED_invites
<1> QED
  BY <1>2, <1>3, <1>4, <1>5, TaskTyped, TaskKeeps

(* FAILED or READY: either way the delivery no longer answers for the CV,  *)
(* and with READY it is about to send for the plans.                       *)
LEMMA SettlesKeeps ==
  ASSUME IInv, NEW t \in Tasks, process_fails(t) \/ process_stores(t)
  PROVE  IInv'
<1>1. PICK r \in Resumes : /\ r = task[t].resume /\ task[t].step \in {"failing", "storing"}
                           /\ resume[r].status # None
  BY TaskTyped DEF process_fails, process_stores
<1>2. \A i \in Interviews : ~Replans(task[t], i)
  BY <1>1, TaskTyped DEF Replans, TaskFits
<1>3. PICK v \in Resume, x \in TaskRecord :
        /\ resume' = [resume EXCEPT ![r] = v] /\ task' = [task EXCEPT ![t] = x]
        /\ \/ v.status = "FAILED" /\ x.step = "done"
           \/ v.status = "READY" /\ x.step = "replanning" /\ x.resume = r
        /\ x.todo = {}
  <2>1. CASE process_fails(t)
    <3>1. \E v \in Resume : v.status = "FAILED" /\ resume' = [resume EXCEPT ![r] = v]
      BY <1>1, <2>1, StatusIs DEF process_fails, ResumeStatus
    <3> QED
      BY <2>1, <3>1, TaskTyped, TaskSteps DEF process_fails
  <2>2. CASE process_stores(t)
    <3>1. PICK v : v = [status |-> "READY", embedded |-> TRUE]
      OBVIOUS
    <3>2. v \in Resume /\ v.status = "READY"
      BY <3>1 DEF Resume, ResumeStatus
    <3>3. PICK x \in TaskRecord :
            /\ x.step = "replanning" /\ x.resume = task[t].resume /\ x.todo = task[t].todo
            /\ task' = [task EXCEPT ![t] = x]
      BY <2>2, TaskTyped, TaskSteps DEF process_stores
    <3>4. x.todo = {} /\ x.resume = r
      BY <1>1, <3>3, TaskTyped DEF TaskFits
    <3>5. resume' = [resume EXCEPT ![r] = v]
      BY <1>1, <2>2, <3>1 DEF process_stores
    <3> QED
      BY <3>2, <3>3, <3>4, <3>5
  <2> QED
    BY <2>1, <2>2
<1>4. \A d \in Tasks : task'[d] = IF d = t THEN x ELSE task[d]
  BY <1>3, TaskTyped
<1>5. /\ UNCHANGED <<candidate, interview, invite, issued, admitted, plan, gen, file, call,
                     history>>
      /\ candidate
  BY <1>1, Present DEF process_fails, process_stores, UNCHANGED_invites
<1>6. /\ call' \in [Calls -> CallRecord] /\ LocksHold'
      /\ \A q \in Resumes : \A c \in Calls : Sends(call[c], q) => Sends(call'[c], q)
      /\ \A i \in Interviews : /\ Minting(i)' = Minting(i)
                               /\ \A d \in Tasks : i \in task'[d].todo => i \in task[d].todo
  BY <1>3, <1>4, <1>5 DEF IInv, TypeOK, CallRecord, LocksHold, CallFits, Holds, Minting
<1>7. task' \in [Tasks -> TaskRecord] /\ TasksFit'
  BY <1>3, <1>4, TaskTyped DEF IInv, TasksFit, TaskFits
<1>8. \A q \in Resumes \ {r}, d \in Tasks : Answers(task[d], q) => Answers(task'[d], q)
  BY <1>1, <1>4 DEF Answers
<1>9. \A i \in Interviews, d \in Tasks : Replans(task[d], i) => Replans(task'[d], i)
  BY <1>2, <1>4
<1>10. /\ v.status = "READY" => \E d \in Tasks : task'[d].step = "replanning"
       /\ v.status \notin {"UPLOADED", "PARSING"}
  BY <1>3, <1>4
<1> QED
  BY <1>3, <1>5, <1>6, <1>7, <1>8, <1>9, <1>10, RowKeeps

(* The plans that have no CV are the ones it sends for.                    *)
LEMMA SelectsKeeps ==
  ASSUME IInv, NEW t \in Tasks, replan_selects(t)
  PROVE  IInv'
<1>1. PICK w \in TaskRecord : w = task[t] /\ w.step = "replanning" /\ w.resume \in Resumes
  BY TaskTyped DEF replan_selects
<1>2. PICK todo \in SUBSET Interviews : todo = WithoutCV
  BY DEF WithoutCV
<1>3. PICK x : x = [w EXCEPT !.step = "sending", !.todo = todo]
  OBVIOUS
<1>4. x \in TaskRecord /\ x.step = "sending" /\ x.todo = todo /\ x.resume = w.resume
  BY <1>1, <1>2, <1>3 DEF TaskRecord
<1>5. task' = [task EXCEPT ![t] = x]
  BY <1>1, <1>2, <1>3 DEF replan_selects
<1>6. TaskFits(x) /\ \A q \in Resumes : ~Answers(task[t], q)
  BY <1>1, <1>4 DEF TaskFits, Answers
<1>7. \A i \in Interviews : /\ Wanting(i) => Replans(x, i)
                            /\ candidate /\ interview[i] = None => i \notin x.todo
  BY <1>2, <1>4 DEF Wanting, Replans, WithoutCV, IInv, Fresh, Unplanned, None
<1>8. UNCHANGED <<candidate, interview, invite, issued, admitted, plan, gen, resume, file, call,
                  history>>
  BY DEF replan_selects, UNCHANGED_invites
<1> QED
  BY <1>4, <1>5, <1>6, <1>7, <1>8, TaskTyped, TaskKeeps

(* And it sends for one after the other.                                   *)
LEMMA SendsKeeps ==
  ASSUME IInv, NEW t \in Tasks, replan_sends(t)
  PROVE  IInv'
<1>1. PICK w \in TaskRecord : w = task[t] /\ w.step = "sending" /\ w.resume \in Resumes
  BY TaskTyped DEF replan_sends
<1>2. \A q \in Resumes : ~Answers(task[t], q)
  BY <1>1 DEF Answers
<1>3. UNCHANGED <<candidate, interview, invite, issued, admitted, plan, resume, file, call,
                  history>>
  BY DEF replan_sends, UNCHANGED_invites
<1>4. CASE task[t].todo = {} /\ TaskDone(t) /\ gen' = gen
  <2>1. PICK x \in TaskRecord : /\ x.step = "done" /\ x.todo = {}
                                /\ task' = [task EXCEPT ![t] = x]
    BY <1>4, TaskTyped, TaskSteps
  <2>2. TaskFits(x) /\ \A i \in Interviews : ~Replans(task[t], i)
    BY <1>1, <1>4, <2>1 DEF TaskFits, Replans
  <2> QED
    BY <1>2, <1>3, <1>4, <2>1, <2>2, TaskTyped, TaskKeeps
<1>5. ASSUME NEW i \in task[t].todo, delay(i, "forced"),
             task' = [task EXCEPT ![t].todo = @ \ {i}]
      PROVE  IInv'
  <2>1. PICK todo \in SUBSET Interviews : todo = w.todo \ {i} /\ i \in Interviews
    BY <1>1, <1>5 DEF TaskRecord
  <2>2. PICK x : x = [w EXCEPT !.todo = todo]
    OBVIOUS
  <2>3. x \in TaskRecord /\ x.step = "sending" /\ x.todo = todo /\ x.resume = w.resume
    BY <1>1, <2>1, <2>2 DEF TaskRecord
  <2>4. task' = [task EXCEPT ![t] = x]
    BY <1>1, <1>5, <2>1, <2>2
  <2>5. TaskFits(x)
    BY <1>1, <2>3 DEF TaskFits
  <2>6. /\ gen' \in [Interviews -> Generation]
        /\ \A j \in Interviews : /\ gen[j].sent \subseteq gen'[j].sent
                                 /\ gen'[j].begun = gen[j].begun
                                 /\ gen'[j].generating = gen[j].generating
                                 /\ j # i => gen'[j] = gen[j]
        /\ Awaits(plan[i], gen'[i])
    BY <1>5, <2>1, DelayIs DEF Kinds, delay, IInv, TypeOK, Awaits
  <2>7. \A j \in Interviews : /\ Replans(task[t], j) => Replans(x, j) \/ j = i
                              /\ Awaits(plan[j], gen[j]) => Awaits(plan[j], gen'[j])
                              /\ candidate /\ interview[j] = None =>
                                   gen'[j] = gen[j] /\ j \notin x.todo
    BY <1>1, <1>5, <2>1, <2>3, <2>6, TaskTyped DEF Replans, Awaits
  <2> QED
    BY <1>2, <1>3, <2>3, <2>4, <2>5, <2>6, <2>7, TaskTyped, TaskKeeps
<1> QED
  BY <1>4, <1>5 DEF replan_sends

(* What a delivery that stops where it is had still to send for.           *)
LEMMA OwedIs ==
  ASSUME IInv, NEW t \in Tasks
  PROVE  /\ Owed(t) \in SUBSET Interviews
         /\ \A i \in Interviews : Wanting(i) /\ Replans(task[t], i) => i \in Owed(t)
<1>1. CASE task[t].step = "replanning"
  <2>1. Owed(t) = WithoutCV
    BY <1>1 DEF Owed
  <2> QED
    BY <2>1 DEF WithoutCV, Wanting
<1>2. CASE task[t].step = "sending"
  <2>1. Owed(t) = task[t].todo
    BY <1>2 DEF Owed
  <2> QED
    BY <1>2, <2>1, TaskTyped DEF Replans, TaskRecord
<1>3. CASE task[t].step \notin {"replanning", "sending"}
  <2>1. Owed(t) = {}
    BY <1>3 DEF Owed
  <2>2. task[t].todo = {}
    BY <1>3, TaskTyped DEF TaskFits
  <2> QED
    BY <1>3, <2>1, <2>2 DEF Replans
<1> QED
  BY <1>1, <1>2, <1>3

(* A delivery that stops is retried, and answers for its CV again, or was  *)
(* the last and leaves the CV recorded as stranded.                        *)
LEMMA StopsKeeps ==
  ASSUME IInv, NEW t \in Tasks, process_raises(t) \/ WorkerLost(t)
  PROVE  IInv'
<1>1. PICK w \in TaskRecord : /\ w = task[t] /\ w.resume \in Resumes
                              /\ w.step \notin {"none", "done"}
  BY TaskTyped DEF process_raises, WorkerLost, InHand
<1>2. PICK x \in TaskRecord :
        /\ task' = [task EXCEPT ![t] = x] /\ x.todo = {}
        /\ \/ x.step = "queued" /\ x.resume = w.resume
           \/ x.step = "done" /\ process_raises(t) /\ w.tries = MaxRetries
  <2>1. CASE process_raises(t) /\ task[t].tries = MaxRetries
    BY <1>1, <2>1, TaskTyped, TaskSteps DEF process_raises
  <2>2. CASE process_raises(t) /\ task[t].tries # MaxRetries
    <3>1. PICK n \in 0 .. MaxRetries : n = w.tries + 1
      BY <1>1, <2>2, CandidacyAssumption DEF TaskRecord
    <3>2. PICK x : x = [w EXCEPT !.step = "queued", !.tries = n, !.todo = {}]
      OBVIOUS
    <3>3. x \in TaskRecord /\ x.step = "queued" /\ x.todo = {} /\ x.resume = w.resume
      BY <1>1, <3>2 DEF TaskRecord
    <3>4. task' = [task EXCEPT ![t] = x]
      BY <1>1, <2>2, <3>1, <3>2 DEF process_raises
    <3> QED
      BY <3>3, <3>4
  <2>3. CASE WorkerLost(t)
    <3>1. PICK x : x = [w EXCEPT !.step = "queued", !.todo = {}]
      OBVIOUS
    <3>2. x \in TaskRecord /\ x.step = "queued" /\ x.todo = {} /\ x.resume = w.resume
      BY <1>1, <3>1 DEF TaskRecord
    <3>3. task' = [task EXCEPT ![t] = x]
      BY <1>1, <2>3, <3>1 DEF WorkerLost
    <3> QED
      BY <3>2, <3>3
  <2> QED
    BY <2>1, <2>2, <2>3
<1>3. /\ history' \in History /\ history'.lost = history.lost
      /\ history.stranded \subseteq history'.stranded
      /\ history'.dropped = history.dropped
      /\ history'.unplanned = history.unplanned \cup Owed(t)
      /\ process_raises(t) /\ w.tries = MaxRetries => w.resume \in history'.stranded
  <2>1. PICK m \in SUBSET Interviews : m = history.unplanned \cup Owed(t)
    BY HistoryTyped, OwedIs
  <2>2. CASE process_raises(t)
    <3>1. PICK l \in SUBSET Resumes :
            l = IF task[t].tries = MaxRetries
                THEN history.stranded \cup {task[t].resume} ELSE history.stranded
      BY <1>1, HistoryTyped
    <3>2. history' = [history EXCEPT !.unplanned = m, !.stranded = l]
      BY <2>1, <2>2, <3>1 DEF process_raises
    <3>3. HistoryIs(history', l, m)
      BY <3>2, HistoryTyped, HistoryFields
    <3> QED
      BY <1>1, <2>1, <3>1, <3>3 DEF HistoryIs
  <2>3. CASE WorkerLost(t)
    <3>1. PICK n \in 0 .. MaxMishaps : n = history.mishaps + 1
      BY <2>3, HistoryTyped DEF WorkerLost
    <3>2. history' = [history EXCEPT !.mishaps = n, !.unplanned = m]
      BY <2>1, <2>3, <3>1 DEF WorkerLost
    <3>3. HistoryIs(history', history.stranded, m)
      BY <3>2, HistoryTyped, HistoryFields
    <3>4. CASE ~process_raises(t)
      BY <2>1, <3>3, <3>4 DEF HistoryIs
    <3>5. CASE process_raises(t)
      BY <2>2, <3>5
    <3> QED
      BY <3>4, <3>5
  <2> QED
    BY <2>2, <2>3
<1>4. TaskFits(x)
  BY <1>1, <1>2 DEF TaskFits
<1>5. \A q \in Resumes : Answers(task[t], q) => Answers(x, q) \/ q \in history'.stranded
  BY <1>1, <1>2, <1>3 DEF Answers
<1>6. \A i \in Interviews :
        /\ Wanting(i) /\ Replans(task[t], i) => GivenUp(history', i)
        /\ GivenUp(history, i) => GivenUp(history', i)
  BY <1>3, OwedIs DEF GivenUp
<1>7. UNCHANGED <<candidate, interview, invite, issued, admitted, plan, gen, resume, file, call>>
  BY DEF process_raises, WorkerLost, UNCHANGED_invites
<1> QED
  BY <1>2, <1>3, <1>4, <1>5, <1>6, <1>7, TaskTyped, TaskKeeps
-----------------------------------------------------------------------------

(* A candidate whom nobody has invited owes and is owed nothing.           *)
LEMMA InitIInv == Init => IInv
<1> SUFFICES ASSUME Init PROVE IInv
  OBVIOUS
<1>1. TypeOK
  <2>1. /\ candidate \in BOOLEAN /\ admitted \in BOOLEAN
        /\ interview \in [Interviews -> {None, "INVITED", "IN_PROGRESS", "OVER"}]
        /\ plan \in [Interviews -> {None, "shell", "bare", "grounded", "frozen"}]
        /\ gen \in [Interviews -> Generation]
        /\ file \in [Resumes -> {None, "good", "garbled", "oversize"}]
    BY Blanks DEF Init
  <2>2. /\ invite \in [Interviews -> Invite] /\ resume \in [Resumes -> Resume]
        /\ call \in [Calls -> CallRecord] /\ task \in [Tasks -> TaskRecord]
    BY Blanks DEF Init
  <2>3. issued \in [Interviews -> 0 .. MaxRedemptions]
    BY CandidacyAssumption DEF Init
  <2>4. history \in History
    BY CandidacyAssumption DEF Init, History
  <2> QED
    BY <2>1, <2>2, <2>3, <2>4 DEF TypeOK, CallRecord, TaskRecord
<1>2. LocksHold /\ TasksFit
  BY Blanks DEF Init, LocksHold, CallFits, Holds, TasksFit, TaskFits
<1>3. Charged /\ Fresh /\ ErasureHolds
  <2>1. ASSUME NEW i \in Interviews
        PROVE  Minting(i) = {} /\ Cardinality(Minting(i)) = 0
    <3>1. Minting(i) = {}
      BY Blanks DEF Init, Minting
    <3> QED
      BY <3>1, FS_EmptySet
  <2>2. \A i \in Interviews : Yield(i) = 0 /\ invite[i].count = 0
    BY <2>1, Blanks DEF Init, Yield
  <2> QED
    BY <2>2, Blanks, CandidacyAssumption
       DEF Init, Charged, Fresh, Unplanned, Blank, NoGeneration, ErasureHolds
<1>4. AllCarried /\ AllReached
  BY Blanks DEF Init, AllCarried, Carried, AllReached, Reached, Wanting, None
<1> QED
  BY <1>1, <1>2, <1>3, <1>4 DEF IInv

(* Every step of a request, a delivery, the recruiter and the clock        *)
(* preserves it.                                                           *)
LEMMA NextIInv == IInv /\ [Next]_vars => IInv'
<1> SUFFICES ASSUME IInv, [Next]_vars PROVE IInv'
  OBVIOUS
<1>1. CASE InviteNext
  <2>1. ASSUME NEW i \in Interviews,
               \/ create_invite(i) \/ revoke_invite(i) \/ InviteExpires(i)
               \/ request_generation(i) \/ InterviewStarts(i) \/ InterviewEnds(i)
               \/ \E c \in Calls : redeem_claims(c, i)
        PROVE  IInv'
    BY <2>1, CreateKeeps, RevokeKeeps, RequestKeeps, StartsKeeps, ClaimKeeps
  <2>2. ASSUME NEW c \in Calls,
               redeem_reads(c) \/ redeem_invite(c) \/ create_interview_token(c)
        PROVE  IInv'
    BY <2>2, GoesOnKeeps, RedeemKeeps, TokenKeeps
  <2> QED
    BY <1>1, <2>1, <2>2, EraseKeeps DEF InviteNext
<1>2. CASE UploadNext
  <2>1. ASSUME NEW r \in Resumes,
               \/ start_upload(r) \/ \E f \in {"good", "garbled", "oversize"} : Uploads(r, f)
               \/ \E c \in Calls : complete_reads(c, r)
        PROVE  IInv'
    BY <2>1, UploadKeeps, ReadsKeeps
  <2>2. ASSUME NEW c \in Calls,
               \/ head_object(c) \/ complete_refuses(c) \/ complete_upload(c)
               \/ complete_raises(c) \/ enqueue(c)
        PROVE  IInv'
    BY <2>2, GoesOnKeeps, CompleteKeeps, EnqueueKeeps
  <2> QED
    BY <1>2, <2>1, <2>2, CrashKeeps DEF UploadNext
<1>3. ASSUME NEW t \in Tasks, ProcessNext(t)
      PROVE  IInv'
  BY <1>3, BeginsKeeps, ParsesKeeps, SettlesKeeps, SelectsKeeps, SendsKeeps, StopsKeeps
     DEF ProcessNext
<1>4. ASSUME NEW i \in Interviews, GenerateNext(i)
      PROVE  IInv'
  BY <1>4, QueueKeeps, BegunKeeps, EndedKeeps DEF GenerateNext, Kinds
<1>5. CASE UNCHANGED vars
  <2>1. TypeOK' /\ LocksHold' /\ TasksFit' /\ Charged' /\ Fresh' /\ ErasureHolds'
    BY <1>5 DEF vars, IInv, TypeOK, LocksHold, CallFits, Holds, TasksFit, TaskFits,
                Charged, Yield, Minting, Fresh, Unplanned, ErasureHolds
  <2>2. AllCarried' /\ AllReached'
    BY <1>5 DEF vars, IInv, AllCarried, Carried, Sends, Answers, AllReached, Reached, Awaits, GivenUp, Ready,
                Wanting, Replans
  <2> QED
    BY <2>1, <2>2 DEF IInv
<1> QED
  BY <1>1, <1>2, <1>3, <1>4, <1>5 DEF Next

(* The invariant holds always.                                             *)
LEMMA Invariance == Spec => []IInv
BY InitIInv, NextIInv, PTL DEF Spec
-----------------------------------------------------------------------------
(* Every row, request and message is what its type says: no redemption is  *)
(* counted past the limit of the invite, and no retry past MAX_RETRIES.    *)
THEOREM TypeCorrect == Spec => []TypeOK
<1>1. IInv => TypeOK
  BY DEF IInv
<1> QED
  BY <1>1, Invariance, PTL

(* However redemptions race, with refusals, revocations and crashes among  *)
(* them, redeem_invite charges a link once for each token that is handed   *)
(* out, about to be, or lost with the request that had charged it.         *)
THEOREM RedemptionsAreCharged == Spec => []EveryTokenIsCharged
<1>1. IInv => EveryTokenIsCharged
  BY DEF IInv, Charged, Yield, EveryTokenIsCharged
<1> QED
  BY <1>1, Invariance, PTL

(* A CV that is UPLOADED or PARSING is a request's, a message's or a       *)
(* worker's, unless its loss is on record: complete_own_resume and the     *)
(* processing task leave none behind.                                      *)
THEOREM CVsAreInHand == Spec => []IncomingHasATask
<1>1. IInv => IncomingHasATask
  BY DEF IInv, AllCarried, Carried, Sends, Answers, IncomingHasATask
<1> QED
  BY <1>1, Invariance, PTL

(* A plan without a CV is going to be written again once one is ready,     *)
(* whatever the order in which uploads, clicks, generations and retries    *)
(* come, unless a message that was lost, or that gave up waiting for a     *)
(* generation, is on record.                                               *)
THEOREM CVsReachThePlans == Spec => []ReadyCVReachesPlans
<1>1. IInv => ReadyCVReachesPlans
  BY DEF IInv, AllReached, Reached, Awaits, GivenUp, Wanting, Replans, WillWrite, Writes,
         IsSentFor, ReadyCVReachesPlans
<1> QED
  BY <1>1, Invariance, PTL

(* No request, delivery or generation that was under way when              *)
(* delete_candidate took the rows brings one of them back.                 *)
THEOREM NothingComesBack == Spec => []ErasureHolds
<1>1. IInv => ErasureHolds
  BY DEF IInv
<1> QED
  BY <1>1, Invariance, PTL
=============================================================================
